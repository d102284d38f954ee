------------------------- MODULE EventHandlerProofs -------------------------
(***************************************************************************)
(* What holds of the poll loop, the event handler and the socket manager    *)
(* for every number of clients, every capacity of the array and any number  *)
(* of connections, signals and failures.                                    *)
(*                                                                         *)
(* The three properties need each other: a descriptor that accept4 returns  *)
(* is in no entry because closed descriptors are not, and a client that is  *)
(* put back is in no entry because it was served.  Besides, an entry behind *)
(* fd_count that the pass still comes to says that nothing happened, so     *)
(* that what is dispatched, and then removed, is an entry in use.           *)
(***************************************************************************)
EXTENDS EventHandler, Integers, FiniteSetTheorems, WellFoundedInduction, TLAPS

InPass == mpc \in {"scan", "entry", "drop", "remove"}

(* The entries in use, without the one the main thread is about to remove.  *)
Live(i) == ~(mpc = "remove" /\ i = idx)
FdAt(i) == fd_arr[i].fd

(* The entry whose descriptor the main thread has just closed.              *)
Dropped(i) == mpc = "drop" /\ i = idx

Bounds ==
  /\ fd_count >= 1 /\ backlog <= connects
  /\ FdAt(1) \notin Fds
  /\ freed => mpc \in {"closed", "undefined"}

(* The main thread's place in the array during a pass.                      *)
Pass ==
  /\ InPass => /\ idx >= 1 /\ local_fd_count <= Len(fd_arr)
               /\ \A i \in (fd_count + 1)..local_fd_count : fd_arr[i].revents = "none"
  /\ mpc \in {"entry", "drop", "remove"} => idx <= local_fd_count
  /\ mpc = "drop" => idx <= fd_count
  /\ mpc = "remove" => idx <= fd_count /\ FdAt(idx) \in Fds

Owned ==
  /\ \A c \in Fds : jobs[c] \in {0, 1}
  /\ \A i, j \in 1..fd_count : Live(i) /\ Live(j) /\ FdAt(i) \in Fds /\ FdAt(i) = FdAt(j) => i = j
  /\ \A i \in 1..fd_count : Live(i) /\ FdAt(i) \in Fds => jobs[FdAt(i)] = 0

Fresh ==
  /\ \A i \in 1..fd_count : Live(i) /\ ~Dropped(i) /\ FdAt(i) \in Fds => sock[FdAt(i)] # "none"
  /\ \A c \in Fds : jobs[c] > 0 => sock[c] # "none"

Kept == \A c \in Fds : sock[c] # "none" => jobs[c] > 0 \/ \E i \in 1..fd_count : Live(i) /\ FdAt(i) = c

Closed == mpc = "drop" /\ FdAt(idx) \in Fds => sock[FdAt(idx)] = "none"

(* When the log line's length is taken for an error no client is ever       *)
(* registered, and the pass that accepted one is the last.                  *)
Aborted ==
  /\ \A c \in Fds : jobs[c] = 0 /\ sock[c] = "none"
  /\ mpc \in {"scan", "entry", "drop"} => local_fd_count = 1
  /\ \/ fd_count = 1
     \/ /\ fd_count = 2 /\ mpc \in {"scan", "close", "closed"}
        /\ mpc = "scan" => idx > local_fd_count /\ exit_code = "E_FAILURE"

HandlerInv ==
  /\ TypeOK /\ Bounds /\ Pass
  /\ ~freed => Owned
  /\ LogLength = 0 /\ ~freed /\ mpc # "undefined" => Fresh
  /\ LogLength # 0 => Aborted
  /\ ~freed /\ fd_mutex = "free" => Kept
  /\ Closed

----------------------------------------------------------------------------
FdSet == Fds \union {ServerFd, NoFd, 0}

(* An entry is an fd and its revents.                                       *)
LEMMA EntryFacts ==
  /\ \A f \in FdSet, r \in Revents :
       /\ [fd |-> f, revents |-> r] \in Entry
       /\ [fd |-> f, revents |-> r].fd = f /\ [fd |-> f, revents |-> r].revents = r
  /\ \A e \in Entry : e.fd \in FdSet /\ e.revents \in Revents
  /\ \A e \in Entry, f \in FdSet :
       [e EXCEPT !.fd = f] \in Entry /\ [e EXCEPT !.fd = f].fd = f /\ [e EXCEPT !.fd = f].revents = e.revents
  /\ \A e \in Entry, r \in Revents :
       [e EXCEPT !.revents = r] \in Entry /\ [e EXCEPT !.revents = r].fd = e.fd
BY DEF Entry, FdSet

(* The descriptors of clients, the server and empty slots are different.    *)
LEMMA FdFacts ==
  /\ ServerFd \notin Fds /\ NoFd \notin Fds /\ 0 \notin Fds /\ ServerFd # NoFd
  /\ NoFd \in FdSet /\ ServerFd \in FdSet /\ 0 \in FdSet /\ \A c \in Fds : c \in FdSet
BY HandlerConstants DEF FdSet

(* Every set of numbers has a least one.                                    *)
LEMMA LeastOf ==
  ASSUME NEW T, T \subseteq Nat, T # {}
  PROVE  \E x \in T : \A y \in T : x <= y
<1> DEFINE R == OpToRel(<, Nat)
<1>1. IsWellFoundedOn(R, Nat) BY NatLessThanWellFounded
<1> HIDE DEF R
<1>2. PICK x \in T : \A y \in T : ~(<<y, x>> \in R) BY <1>1, WFMin
<1>3. \A y \in T : ~(y < x) BY <1>2 DEF R, OpToRel
<1>4. \A y \in T : x <= y BY <1>3
<1> QED BY <1>4

(* accept4 returns a descriptor that is free.                               *)
LEMMA AcceptedIsFree ==
  ASSUME FreeFds # {}
  PROVE  AcceptedFd \in Fds /\ sock[AcceptedFd] = "none"
<1>1. FreeFds \subseteq Nat BY HandlerConstants DEF FreeFds
<1>2. \E c \in FreeFds : \A d \in FreeFds : c <= d BY <1>1, LeastOf
<1>3. AcceptedFd \in FreeFds BY <1>2 DEF AcceptedFd
<1> QED BY <1>3 DEF FreeFds

(* Writing the fd of one entry.                                             *)
LEMMA SetFd ==
  ASSUME NEW arr \in Seq(Entry), NEW k \in 1..Len(arr), NEW c \in FdSet
  PROVE  LET new == [arr EXCEPT ![k].fd = c] IN
         /\ new \in Seq(Entry) /\ Len(new) = Len(arr)
         /\ new[k].fd = c
         /\ \A i \in 1..Len(arr) : i # k => new[i] = arr[i]
         /\ \A i \in 1..Len(arr) : new[i].revents = arr[i].revents
<1> DEFINE e   == [arr[k] EXCEPT !.fd = c]
           new == [arr EXCEPT ![k] = e]
<1>0. arr[k] \in Entry OBVIOUS
<1>1. e \in Entry /\ e.fd = c /\ e.revents = arr[k].revents BY <1>0, EntryFacts
<1>2. new = [arr EXCEPT ![k].fd = c] OBVIOUS
<1> HIDE DEF e
<1>3. new \in Seq(Entry) /\ Len(new) = Len(arr) BY <1>1
<1>4. new[k] = e /\ \A i \in 1..Len(arr) : i # k => new[i] = arr[i] OBVIOUS
<1>5. \A i \in 1..Len(arr) : new[i].revents = arr[i].revents
  <2> SUFFICES ASSUME NEW i \in 1..Len(arr) PROVE new[i].revents = arr[i].revents OBVIOUS
  <2>1. CASE i = k BY <1>1, <1>4, <2>1
  <2>2. CASE i # k BY <1>4, <2>2
  <2> QED BY <2>1, <2>2
<1> HIDE DEF new
<1> QED BY <1>1, <1>2, <1>3, <1>4, <1>5

(* The array twice as large.                                                *)
LEMMA GrownFacts ==
  ASSUME fd_arr \in Seq(Entry), NEW garbage \in [1..Len(fd_arr) -> Revents]
  PROVE  /\ Grown(garbage) \in Seq(Entry) /\ Len(Grown(garbage)) = 2 * Len(fd_arr)
         /\ \A i \in 1..Len(fd_arr) : Grown(garbage)[i] = fd_arr[i]
<1> DEFINE more == [i \in 1..Len(fd_arr) |-> [fd |-> NoFd, revents |-> garbage[i]]]
<1>0. Len(fd_arr) \in Nat OBVIOUS
<1>1. \A i \in 1..Len(fd_arr) : [fd |-> NoFd, revents |-> garbage[i]] \in Entry
  BY EntryFacts, FdFacts
<1>2. more \in [1..Len(fd_arr) -> Entry] BY <1>1
<1>3. more \in Seq(Entry) /\ Len(more) = Len(fd_arr) BY <1>0, <1>2
<1>4. Grown(garbage) = fd_arr \o more BY DEF Grown
<1> HIDE DEF more
<1>5. fd_arr \o more \in Seq(Entry) /\ Len(fd_arr \o more) = Len(fd_arr) + Len(more) BY <1>3
<1>6. \A i \in 1..Len(fd_arr) : (fd_arr \o more)[i] = fd_arr[i] BY <1>3
<1> QED BY <1>0, <1>3, <1>4, <1>5, <1>6

(* sock_fd_add puts c behind the entries in use and leaves these as they    *)
(* are.                                                                     *)
Appended(c) ==
  /\ fd_count' = fd_count + 1 /\ fd_count' <= Len(fd_arr')
  /\ fd_arr' \in Seq(Entry) /\ Len(fd_arr') >= Len(fd_arr)
  /\ fd_arr'[fd_count + 1].fd = c
  /\ \A i \in 1..fd_count : fd_arr'[i] = fd_arr[i]
  /\ \A i \in 1..Len(fd_arr) : fd_arr'[i].revents = fd_arr[i].revents

(* sock_fd_add appends, whether or not the array had to grow.               *)
LEMMA AddFacts ==
  ASSUME TypeOK, Bounds, NEW c \in Fds, sock_fd_add(c)
  PROVE  /\ Appended(c) /\ fd_mutex = "free" /\ UNCHANGED <<fd_mutex, freed>>
         /\ moved' \in BOOLEAN
<1>0. /\ fd_arr \in Seq(Entry) /\ Len(fd_arr) \in Nat /\ fd_count \in 0..Len(fd_arr) /\ fd_count >= 1
      /\ c \in FdSet /\ moved \in BOOLEAN
  BY FdFacts DEF TypeOK, Bounds
<1>1. fd_count' = fd_count + 1 /\ fd_mutex = "free" /\ UNCHANGED <<fd_mutex, freed>>
  BY DEF sock_fd_add
<1>2. ASSUME NEW arr \in Seq(Entry), fd_count + 1 <= Len(arr), Len(arr) >= Len(fd_arr),
             \A i \in 1..Len(fd_arr) : arr[i] = fd_arr[i],
             fd_arr' = Append_fd(arr, c)
      PROVE  Appended(c)
  <2> DEFINE k == fd_count + 1
  <2>1. k \in 1..Len(arr) BY <1>0, <1>2
  <2>2. fd_arr' = [arr EXCEPT ![k].fd = c] BY <1>2 DEF Append_fd
  <2> HIDE DEF k
  <2>3. /\ fd_arr' \in Seq(Entry) /\ Len(fd_arr') = Len(arr)
        /\ fd_arr'[k].fd = c
        /\ \A i \in 1..Len(arr) : i # k => fd_arr'[i] = arr[i]
        /\ \A i \in 1..Len(arr) : fd_arr'[i].revents = arr[i].revents
    BY <1>0, <2>1, <2>2, SetFd
  <2>4. Len(arr) \in Nat OBVIOUS
  <2>5. \A i \in 1..fd_count : i \in 1..Len(arr) /\ i \in 1..Len(fd_arr) /\ i # k
    BY <1>0, <1>2, <2>4 DEF k
  <2>6. \A i \in 1..fd_count : fd_arr'[i] = fd_arr[i] BY <1>2, <2>3, <2>5
  <2>7. \A i \in 1..Len(fd_arr) : i \in 1..Len(arr) BY <1>0, <1>2, <2>4
  <2>8. \A i \in 1..Len(fd_arr) : fd_arr'[i].revents = fd_arr[i].revents BY <1>2, <2>3, <2>7
  <2>9. fd_count' <= Len(fd_arr') /\ Len(fd_arr') >= Len(fd_arr) BY <1>1, <1>2, <2>3
  <2> QED BY <1>1, <2>3, <2>6, <2>8, <2>9 DEF Appended, k
<1>3. CASE ~Full
  <2>1. fd_arr' = Append_fd(fd_arr, c) /\ moved' = moved BY <1>3 DEF sock_fd_add
  <2>2. fd_count + 1 <= Len(fd_arr) BY <1>0, <1>3 DEF Full
  <2>3. Appended(c) BY <1>0, <1>2, <2>1, <2>2
  <2> QED BY <1>0, <1>1, <2>1, <2>3
<1>4. CASE Full
  <2>1. PICK garbage \in [1..Len(fd_arr) -> Revents] : fd_arr' = Append_fd(Grown(garbage), c)
    BY <1>4 DEF sock_fd_add
  <2>2. moved' \in {moved, TRUE} BY <1>4 DEF sock_fd_add
  <2>3. /\ Grown(garbage) \in Seq(Entry) /\ Len(Grown(garbage)) = 2 * Len(fd_arr)
        /\ \A i \in 1..Len(fd_arr) : Grown(garbage)[i] = fd_arr[i]
    BY <1>0, GrownFacts
  <2>4. fd_count = Len(fd_arr) BY <1>4 DEF Full
  <2>5. fd_count + 1 <= Len(Grown(garbage)) /\ Len(Grown(garbage)) >= Len(fd_arr)
    BY <1>0, <2>3, <2>4
  <2>6. Appended(c) BY <1>2, <2>1, <2>3, <2>5
  <2> QED BY <1>0, <1>1, <2>2, <2>6
<1> QED BY <1>3, <1>4

(* sock_fd_remove puts the last entry into the place of entry k.            *)
Removed(k) ==
  /\ fd_count' = fd_count - 1
  /\ fd_arr' \in Seq(Entry) /\ Len(fd_arr') = Len(fd_arr)
  /\ \A i \in 1..Len(fd_arr) : i # k /\ i # fd_count => fd_arr'[i] = fd_arr[i]
  /\ k # fd_count => fd_arr'[k] = fd_arr[fd_count]
  /\ fd_arr'[fd_count].revents = "none"

(* sock_fd_remove of an entry in use takes the path without an error.       *)
LEMMA RemoveFacts ==
  ASSUME TypeOK, NEW k \in 1..fd_count, sock_fd_remove(k)
  PROVE  Removed(k) /\ UNCHANGED <<fd_mutex, freed, moved>>
<1>0. fd_arr \in Seq(Entry) /\ Len(fd_arr) \in Nat /\ fd_count \in 0..Len(fd_arr) BY DEF TypeOK
<1> DEFINE none == [fd |-> NoFd, revents |-> "none"]
<1>1. none \in Entry /\ none.revents = "none" BY EntryFacts, FdFacts DEF Revents
<1> HIDE DEF none
<1>2. k \in 1..Len(fd_arr) /\ fd_count \in 1..Len(fd_arr) /\ ~(k > fd_count) BY <1>0
<1>3. /\ fd_count' = fd_count - 1 /\ UNCHANGED <<fd_mutex, freed, moved>>
      /\ fd_arr' = [fd_arr EXCEPT ![k] = fd_arr[fd_count], ![fd_count] = none]
  BY <1>2 DEF sock_fd_remove, none
<1>4. fd_arr[fd_count] \in Entry BY <1>0, <1>2
<1>5. fd_arr' \in Seq(Entry) /\ Len(fd_arr') = Len(fd_arr) BY <1>0, <1>1, <1>2, <1>3, <1>4
<1>6. \A i \in 1..Len(fd_arr) : i # k /\ i # fd_count => fd_arr'[i] = fd_arr[i] BY <1>0, <1>3
<1>7. k # fd_count => fd_arr'[k] = fd_arr[fd_count] BY <1>0, <1>2, <1>3
<1>8. fd_arr'[fd_count] = none BY <1>0, <1>2, <1>3
<1> QED BY <1>1, <1>3, <1>5, <1>6, <1>7, <1>8 DEF Removed

(* An entry that reports something is in use.                               *)
LEMMA InUse ==
  ASSUME TypeOK, Pass, mpc = "entry", fd_arr[idx].revents # "none"
  PROVE  idx \in 1..fd_count
<1>1. idx \in Nat /\ local_fd_count \in Nat /\ fd_count \in Nat BY DEF TypeOK
<1>2. idx >= 1 /\ idx <= local_fd_count BY DEF Pass, InPass
<1>3. \A i \in (fd_count + 1)..local_fd_count : fd_arr[i].revents = "none" BY DEF Pass, InPass
<1> QED BY <1>1, <1>2, <1>3

(* The entry that is closed.                                                *)
Cleared(k) ==
  /\ fd_arr' \in Seq(Entry) /\ Len(fd_arr') = Len(fd_arr)
  /\ fd_arr'[k].fd = NoFd
  /\ \A i \in 1..Len(fd_arr) : i # k => fd_arr'[i] = fd_arr[i]
  /\ \A i \in 1..Len(fd_arr) : fd_arr'[i].revents = fd_arr[i].revents

(* The closed entry is in use, and loses its fd.                            *)
LEMMA DropFacts ==
  ASSUME TypeOK, Pass, DropFd
  PROVE  idx \in 1..fd_count /\ Cleared(idx)
<1>0. mpc = "drop" /\ idx \in Nat /\ fd_count \in Nat BY DEF DropFd, TypeOK
<1>a. idx >= 1 /\ idx <= fd_count BY <1>0 DEF Pass, InPass
<1>1. idx \in 1..fd_count BY <1>0, <1>a
<1>2. fd_arr \in Seq(Entry) /\ fd_count \in 0..Len(fd_arr) /\ Len(fd_arr) \in Nat BY DEF TypeOK
<1>3. idx \in 1..Len(fd_arr) BY <1>1, <1>2
<1>4. fd_arr' = [fd_arr EXCEPT ![idx].fd = NoFd] BY DEF DropFd
<1>5. Cleared(idx) BY <1>2, <1>3, <1>4, SetFd, FdFacts DEF Cleared
<1> QED BY <1>1, <1>5

(* poll writes revents and nothing else.                                    *)
LEMMA PollFacts ==
  ASSUME TypeOK, PollReports
  PROVE  /\ fd_arr' \in Seq(Entry) /\ Len(fd_arr') = Len(fd_arr)
         /\ \A i \in 1..Len(fd_arr) : fd_arr'[i].fd = fd_arr[i].fd
<1>0. fd_arr \in Seq(Entry) /\ Len(fd_arr) \in Nat BY DEF TypeOK
<1>1. CASE moved BY <1>0, <1>1 DEF PollReports
<1>2. CASE ~moved
  <2>1. fd_arr' = Polled BY <1>2 DEF PollReports
  <2>2. ASSUME NEW i \in 1..Len(fd_arr)
        PROVE  Polled[i] \in Entry /\ Polled[i].fd = fd_arr[i].fd
    <3>1. fd_arr[i] \in Entry BY <1>0
    <3>2. EventOf(fd_arr[i].fd) \in Revents BY DEF EventOf, Revents
    <3> DEFINE e == [fd_arr[i] EXCEPT !.revents = EventOf(fd_arr[i].fd)]
    <3>3. e \in Entry /\ e.fd = fd_arr[i].fd BY <3>1, <3>2, EntryFacts
    <3>4. Polled[i] = IF i <= local_fd_count THEN e ELSE fd_arr[i] BY DEF Polled
    <3> HIDE DEF e
    <3> QED BY <3>1, <3>3, <3>4
  <2>3. Polled = [i \in 1..Len(fd_arr) |-> Polled[i]] BY DEF Polled
  <2> DEFINE q == Polled
  <2> HIDE DEF q
  <2>4. q = [i \in 1..Len(fd_arr) |-> q[i]] /\ \A i \in 1..Len(fd_arr) : q[i] \in Entry
    BY <2>2, <2>3 DEF q
  <2>5. q \in [1..Len(fd_arr) -> Entry] BY <2>4
  <2>6. q \in Seq(Entry) /\ Len(q) = Len(fd_arr) BY <1>0, <2>5
  <2> QED BY <2>1, <2>2, <2>6 DEF q
<1> QED BY <1>1, <1>2

ArrayTyped == fd_arr \in Seq(Entry) /\ fd_count \in 0..Len(fd_arr)

FlagsTyped ==
  /\ SignalTypeOK /\ fd_mutex \in {"free", "stuck"} /\ freed \in BOOLEAN /\ moved \in BOOLEAN
  /\ mpc \in {"loop", "poll", "handle", "scan", "entry", "drop", "remove", "close", "closed",
             "undefined"}
  /\ exit_code \in {"E_SUCCESS", "E_FAILURE", "poll_error"}

CountsTyped ==
  /\ signals \in 0..MaxSignals /\ failures \in 0..MaxFailures
  /\ idx \in Nat /\ local_fd_count \in Nat
  /\ backlog \in 0..MaxConnects /\ connects \in 0..MaxConnects /\ backlog <= connects

ClientsTyped ==
  jobs \in [Fds -> Nat] /\ sock \in [Fds -> {"none", "idle", "data", "hup"}]

(* The type invariant, in parts that different provers can deal with.       *)
LEMMA TypeParts ==
  TypeOK /\ backlog <= connects <=> ArrayTyped /\ FlagsTyped /\ CountsTyped /\ ClientsTyped
BY DEF TypeOK, ArrayTyped, FlagsTyped, CountsTyped, ClientsTyped

(* The same of the next state.                                              *)
LEMMA TypePartsNext ==
  (TypeOK /\ backlog <= connects)' <=> (ArrayTyped /\ FlagsTyped /\ CountsTyped /\ ClientsTyped)'
BY DEF TypeOK, ArrayTyped, FlagsTyped, CountsTyped, ClientsTyped, SignalTypeOK

(* The array keeps its type under growth, removal and poll.                 *)
LEMMA ArrayStep ==
  ASSUME TypeOK, Bounds, Pass, [Next]_vars
  PROVE  ArrayTyped'
<1>0. /\ fd_arr \in Seq(Entry) /\ fd_count \in 0..Len(fd_arr) /\ Len(fd_arr) \in Nat /\ fd_count \in Nat
      /\ idx \in Nat
  BY DEF TypeOK
<1>1. CASE Snapshot BY <1>1, <1>0 DEF Snapshot, ArrayTyped, arrVars, vars
<1>2. CASE PollReports BY <1>2, <1>0, PollFacts DEF PollReports, ArrayTyped
<1>3. CASE PollTimeout BY <1>3, <1>0 DEF PollTimeout, ArrayTyped, arrVars, vars
<1>4. CASE PollFails BY <1>4, <1>0 DEF PollFails, ArrayTyped, arrVars, vars
<1>5. CASE HandleBegin BY <1>5, <1>0 DEF HandleBegin, ArrayTyped, arrVars, vars
<1>6. CASE FetchEntry BY <1>6, <1>0 DEF FetchEntry, ArrayTyped, arrVars, vars
<1>7. CASE UseFreedEntry BY <1>7, <1>0 DEF UseFreedEntry, ArrayTyped, arrVars, vars
<1>8. CASE ScanError BY <1>8, <1>0 DEF ScanError, ArrayTyped, arrVars
<1>26. CASE DropFd BY <1>26, <1>0, DropFacts DEF DropFd, Cleared, ArrayTyped
<1>9. CASE ScanSkip BY <1>9, <1>0 DEF ScanSkip, ArrayTyped, arrVars, vars
<1>10. CASE Register
  <2>1. AcceptedFd \in Fds BY <1>10, AcceptedIsFree DEF Register
  <2>2. Appended(AcceptedFd) BY <1>10, <2>1, AddFacts DEF Register
  <2> QED BY <1>0, <2>2 DEF Appended, ArrayTyped
<1>11. CASE NothingToAccept BY <1>11, <1>0 DEF NothingToAccept, ArrayTyped, arrVars, vars
<1>12. CASE RegisterFails BY <1>12, <1>0 DEF RegisterFails, sock_fd_add_fails, ArrayTyped, arrVars
<1>13. CASE Dispatch BY <1>13, <1>0 DEF Dispatch, ArrayTyped, arrVars, vars
<1>14. CASE DispatchFails BY <1>14, <1>0 DEF DispatchFails, ArrayTyped, arrVars, vars
<1>15. CASE Remove
  <2>1. idx \in 1..fd_count
    <3>1. idx >= 1 /\ idx <= fd_count BY <1>15 DEF Remove, Pass, InPass
    <3> QED BY <1>0, <3>1
  <2>2. Removed(idx) BY <1>15, <2>1, RemoveFacts DEF Remove
  <2> QED BY <1>0, <2>1, <2>2 DEF Removed, ArrayTyped
<1>16. CASE ScanEnd BY <1>16, <1>0 DEF ScanEnd, ArrayTyped, arrVars, vars
<1>17. CASE CloseAll BY <1>17, <1>0 DEF CloseAll, ArrayTyped, arrVars, vars
<1>18. CASE DeliverSignal BY <1>18, <1>0 DEF DeliverSignal, ArrayTyped, arrVars, vars
<1>19. CASE Connect BY <1>19, <1>0 DEF Connect, ArrayTyped, arrVars, vars
<1>20. ASSUME NEW c \in Fds, WorkerClose(c) PROVE ArrayTyped'
  BY <1>20, <1>0 DEF WorkerClose, ArrayTyped, arrVars, vars
<1>21. ASSUME NEW c \in Fds, WorkerReturn(c) PROVE ArrayTyped'
  <2>1. CASE sock_fd_add(c)
    <3>1. Appended(c) BY <2>1, AddFacts
    <3> QED BY <1>0, <3>1 DEF Appended, ArrayTyped
  <2>2. CASE sock_fd_add_fails BY <1>0, <2>2 DEF sock_fd_add_fails, ArrayTyped
  <2> QED BY <1>21, <2>1, <2>2 DEF WorkerReturn
<1>22. ASSUME NEW c \in Fds, WorkerUseFreed(c) PROVE ArrayTyped'
  BY <1>22, <1>0 DEF WorkerUseFreed, ArrayTyped, arrVars, vars
<1>23. ASSUME NEW c \in Fds, Send(c) PROVE ArrayTyped'
  BY <1>23, <1>0 DEF Send, ArrayTyped, arrVars, vars
<1>24. ASSUME NEW c \in Fds, Hangup(c) PROVE ArrayTyped'
  BY <1>24, <1>0 DEF Hangup, ArrayTyped, arrVars, vars
<1>25. CASE UNCHANGED vars BY <1>25, <1>0 DEF vars, arrVars, ArrayTyped
<1> QED
  BY <1>1, <1>2, <1>3, <1>4, <1>5, <1>6, <1>7, <1>8, <1>9, <1>10, <1>11, <1>12, <1>13, <1>14,
     <1>15, <1>16, <1>17, <1>18, <1>19, <1>20, <1>21, <1>22, <1>23, <1>24, <1>25, <1>26
  DEF Next, MainStep, WorkerStep

(* The flags and program counters keep their types.                         *)
LEMMA FlagsStep ==
  ASSUME TypeOK, Bounds, Pass, [Next]_vars
  PROVE  FlagsTyped'
<1>0. FlagsTyped BY DEF TypeOK, FlagsTyped
<1>1. CASE Snapshot
  BY <1>1, <1>0
  DEF Snapshot, NextEntry, Fail, FlagsTyped, SignalTypeOK, arrVars, loopVars, netVars, sigVars
<1>2. CASE PollReports
  BY <1>2, <1>0
  DEF PollReports, NextEntry, Fail, FlagsTyped, SignalTypeOK, arrVars, loopVars, netVars,
      sigVars
<1>3. CASE PollTimeout
  BY <1>3, <1>0
  DEF PollTimeout, NextEntry, Fail, FlagsTyped, SignalTypeOK, arrVars, loopVars, netVars,
      sigVars
<1>4. CASE PollFails
  BY <1>4, <1>0
  DEF PollFails, NextEntry, Fail, FlagsTyped, SignalTypeOK, arrVars, loopVars, netVars, sigVars
<1>5. CASE HandleBegin
  BY <1>5, <1>0
  DEF HandleBegin, NextEntry, Fail, FlagsTyped, SignalTypeOK, arrVars, loopVars, netVars,
      sigVars
<1>6. CASE FetchEntry
  BY <1>6, <1>0
  DEF FetchEntry, NextEntry, Fail, FlagsTyped, SignalTypeOK, arrVars, loopVars, netVars,
      sigVars
<1>7. CASE UseFreedEntry
  BY <1>7, <1>0
  DEF UseFreedEntry, NextEntry, Fail, FlagsTyped, SignalTypeOK, arrVars, loopVars, netVars,
      sigVars
<1>8. CASE ScanError
  BY <1>8, <1>0
  DEF ScanError, NextEntry, Fail, FlagsTyped, SignalTypeOK, arrVars, loopVars, netVars, sigVars
<1>26. CASE DropFd
  BY <1>26, <1>0
  DEF DropFd, NextEntry, Fail, FlagsTyped, SignalTypeOK, arrVars, loopVars, netVars, sigVars
<1>9. CASE ScanSkip
  BY <1>9, <1>0
  DEF ScanSkip, NextEntry, Fail, FlagsTyped, SignalTypeOK, arrVars, loopVars, netVars, sigVars
<1>10. CASE Register
  <2>1. AcceptedFd \in Fds BY <1>10, AcceptedIsFree DEF Register
  <2>2. UNCHANGED <<fd_mutex, freed>> /\ moved' \in BOOLEAN BY <1>10, <2>1, AddFacts DEF Register
  <2>3. mpc' = "scan" /\ exit_code' \in {"E_SUCCESS", "E_FAILURE"} /\ UNCHANGED signal_flag
    BY <1>10 DEF Register, NextEntry, sigVars
  <2> QED BY <1>0, <2>2, <2>3 DEF FlagsTyped, SignalTypeOK
<1>11. CASE NothingToAccept
  BY <1>11, <1>0
  DEF NothingToAccept, NextEntry, Fail, FlagsTyped, SignalTypeOK, arrVars, loopVars, netVars,
      sigVars
<1>12. CASE RegisterFails
  <2>1. fd_mutex' \in {fd_mutex, "stuck"} /\ UNCHANGED <<freed, moved, signal_flag>>
    BY <1>12 DEF RegisterFails, sock_fd_add_fails, Fail, arrVars
  <2> QED BY <1>12, <1>0, <2>1 DEF RegisterFails, NextEntry, FlagsTyped, SignalTypeOK
<1>13. CASE Dispatch
  BY <1>13, <1>0
  DEF Dispatch, NextEntry, Fail, FlagsTyped, SignalTypeOK, arrVars, loopVars, netVars, sigVars
<1>14. CASE DispatchFails
  <2>1. UNCHANGED signal_flag BY <1>14 DEF DispatchFails, Fail, sigVars
  <2> QED BY <1>14, <1>0, <2>1 DEF DispatchFails, NextEntry, FlagsTyped, SignalTypeOK, arrVars
<1>15. CASE Remove
  <2>1. fd_mutex' \in {fd_mutex, "stuck"} /\ UNCHANGED <<freed, moved>>
    BY <1>15 DEF Remove, sock_fd_remove
  <2>2. exit_code' \in {"E_SUCCESS", "E_FAILURE"} BY <1>15 DEF Remove
  <2> QED BY <1>15, <1>0, <2>1, <2>2 DEF Remove, NextEntry, FlagsTyped, SignalTypeOK, sigVars
<1>16. CASE ScanEnd
  <2>1. mpc' \in {"loop", "close"} BY <1>16 DEF ScanEnd
  <2> QED BY <1>16, <1>0, <2>1 DEF ScanEnd, FlagsTyped, SignalTypeOK, arrVars, sigVars
<1>17. CASE CloseAll
  BY <1>17, <1>0
  DEF CloseAll, NextEntry, Fail, FlagsTyped, SignalTypeOK, arrVars, loopVars, netVars, sigVars
<1>18. CASE DeliverSignal
  <2>1. signal_flag' \in {SHUTDOWN, signal_flag}
    BY <1>18 DEF DeliverSignal, signal_handler, signal_wait_thread
  <2>2. mpc' \in {"loop", mpc} BY <1>18 DEF DeliverSignal
  <2> QED BY <1>18, <1>0, <2>1, <2>2 DEF DeliverSignal, FlagsTyped, SignalTypeOK, arrVars
<1>19. CASE Connect
  BY <1>19, <1>0
  DEF Connect, NextEntry, Fail, FlagsTyped, SignalTypeOK, arrVars, loopVars, netVars, sigVars
<1>20. ASSUME NEW c \in Fds, WorkerClose(c) PROVE FlagsTyped'
  BY <1>20, <1>0 DEF WorkerClose, NextEntry, Fail, FlagsTyped, SignalTypeOK, arrVars, loopVars, netVars, sigVars
<1>21. ASSUME NEW c \in Fds, WorkerReturn(c) PROVE FlagsTyped'
  <2>1. CASE sock_fd_add(c) /\ UNCHANGED sigVars
    <3>1. UNCHANGED <<fd_mutex, freed>> /\ moved' \in BOOLEAN BY <2>1, AddFacts
    <3> QED BY <1>21, <1>0, <2>1, <3>1 DEF WorkerReturn, FlagsTyped, SignalTypeOK, loopVars, sigVars
  <2>2. CASE sock_fd_add_fails
    BY <1>21, <1>0, <2>2 DEF WorkerReturn, sock_fd_add_fails, Fail, FlagsTyped, SignalTypeOK, loopVars
  <2> QED BY <1>21, <2>1, <2>2 DEF WorkerReturn
<1>22. ASSUME NEW c \in Fds, WorkerUseFreed(c) PROVE FlagsTyped'
  BY <1>22, <1>0 DEF WorkerUseFreed, NextEntry, Fail, FlagsTyped, SignalTypeOK, arrVars, loopVars, netVars, sigVars
<1>23. ASSUME NEW c \in Fds, Send(c) PROVE FlagsTyped'
  BY <1>23, <1>0 DEF Send, NextEntry, Fail, FlagsTyped, SignalTypeOK, arrVars, loopVars, netVars, sigVars
<1>24. ASSUME NEW c \in Fds, Hangup(c) PROVE FlagsTyped'
  BY <1>24, <1>0 DEF Hangup, NextEntry, Fail, FlagsTyped, SignalTypeOK, arrVars, loopVars, netVars, sigVars
<1>25. CASE UNCHANGED vars
  BY <1>25, <1>0 DEF vars, FlagsTyped, SignalTypeOK, arrVars, loopVars, netVars, sigVars
<1> QED
  BY <1>1, <1>2, <1>3, <1>4, <1>5, <1>6, <1>7, <1>8, <1>9, <1>10, <1>11, <1>12, <1>13, <1>14,
     <1>15, <1>16, <1>17, <1>18, <1>19, <1>20, <1>21, <1>22, <1>23, <1>24, <1>25, <1>26
  DEF Next, MainStep, WorkerStep

(* The counters stay within their bounds.                                   *)
LEMMA CountsStep ==
  ASSUME TypeOK, Bounds, Pass, [Next]_vars
  PROVE  CountsTyped'
<1>0. /\ CountsTyped /\ MaxSignals \in Nat /\ MaxFailures \in Nat /\ MaxConnects \in Nat /\ fd_count \in Nat
  BY HandlerConstants DEF TypeOK, Bounds, CountsTyped
<1>1. CASE Snapshot
  BY <1>1, <1>0 DEF Snapshot, NextEntry, CountsTyped, arrVars, loopVars, netVars, sigVars
<1>2. CASE PollReports
  BY <1>2, <1>0 DEF PollReports, NextEntry, CountsTyped, arrVars, loopVars, netVars, sigVars
<1>3. CASE PollTimeout
  BY <1>3, <1>0 DEF PollTimeout, NextEntry, CountsTyped, arrVars, loopVars, netVars, sigVars
<1>4. CASE PollFails
  <2>1. failures' \in 0..MaxFailures /\ UNCHANGED signals
    BY <1>4, <1>0 DEF PollFails, Fail, CountsTyped
  <2> QED BY <1>4, <1>0, <2>1 DEF PollFails, CountsTyped, netVars
<1>5. CASE HandleBegin
  BY <1>5, <1>0 DEF HandleBegin, NextEntry, CountsTyped, arrVars, loopVars, netVars, sigVars
<1>6. CASE FetchEntry
  BY <1>6, <1>0 DEF FetchEntry, NextEntry, CountsTyped, arrVars, loopVars, netVars, sigVars
<1>7. CASE UseFreedEntry
  BY <1>7, <1>0 DEF UseFreedEntry, NextEntry, CountsTyped, arrVars, loopVars, netVars, sigVars
<1>8. CASE ScanError
  BY <1>8, <1>0 DEF ScanError, NextEntry, CountsTyped, arrVars, loopVars, netVars, sigVars
<1>26. CASE DropFd
  BY <1>26, <1>0 DEF DropFd, NextEntry, CountsTyped, arrVars, loopVars, netVars, sigVars
<1>9. CASE ScanSkip
  BY <1>9, <1>0 DEF ScanSkip, NextEntry, CountsTyped, arrVars, loopVars, netVars, sigVars
<1>10. CASE Register
  <2>1. backlog' = backlog - 1 /\ backlog > 0 /\ UNCHANGED <<connects, signals, failures, local_fd_count>>
    BY <1>10 DEF Register, sigVars
  <2>2. backlog' \in 0..MaxConnects /\ backlog' <= connects BY <1>0, <2>1 DEF CountsTyped
  <2> QED BY <1>10, <1>0, <2>1, <2>2 DEF Register, NextEntry, CountsTyped
<1>11. CASE NothingToAccept
  BY <1>11, <1>0 DEF NothingToAccept, NextEntry, CountsTyped, arrVars, loopVars, netVars, sigVars
<1>12. CASE RegisterFails
  <2>1. failures' \in 0..MaxFailures /\ UNCHANGED signals
    BY <1>12, <1>0 DEF RegisterFails, sock_fd_add_fails, Fail, CountsTyped
  <2>2. backlog' = backlog - 1 /\ backlog > 0 /\ UNCHANGED connects BY <1>12 DEF RegisterFails
  <2>3. backlog' \in 0..MaxConnects /\ backlog' <= connects BY <1>0, <2>2 DEF CountsTyped
  <2> QED BY <1>12, <1>0, <2>1, <2>2, <2>3 DEF RegisterFails, NextEntry, CountsTyped
<1>13. CASE Dispatch
  BY <1>13, <1>0 DEF Dispatch, NextEntry, CountsTyped, arrVars, loopVars, netVars, sigVars
<1>14. CASE DispatchFails
  <2>1. failures' \in 0..MaxFailures /\ UNCHANGED signals
    BY <1>14, <1>0 DEF DispatchFails, Fail, sigVars, CountsTyped
  <2> QED BY <1>14, <1>0, <2>1 DEF DispatchFails, NextEntry, CountsTyped, netVars
<1>15. CASE Remove
  BY <1>15, <1>0 DEF Remove, NextEntry, CountsTyped, arrVars, loopVars, netVars, sigVars
<1>16. CASE ScanEnd
  BY <1>16, <1>0 DEF ScanEnd, NextEntry, CountsTyped, arrVars, loopVars, netVars, sigVars
<1>17. CASE CloseAll
  BY <1>17, <1>0 DEF CloseAll, NextEntry, CountsTyped, arrVars, loopVars, netVars, sigVars
<1>18. CASE DeliverSignal
  BY <1>18, <1>0 DEF DeliverSignal, NextEntry, CountsTyped, arrVars, loopVars, netVars, sigVars
<1>19. CASE Connect
  BY <1>19, <1>0 DEF Connect, NextEntry, CountsTyped, arrVars, loopVars, netVars, sigVars
<1>20. ASSUME NEW c \in Fds, WorkerClose(c) PROVE CountsTyped'
  BY <1>20, <1>0 DEF WorkerClose, NextEntry, CountsTyped, arrVars, loopVars, netVars, sigVars
<1>21. ASSUME NEW c \in Fds, WorkerReturn(c) PROVE CountsTyped'
  <2>1. failures' \in 0..MaxFailures /\ UNCHANGED signals
    BY <1>21, <1>0 DEF WorkerReturn, sock_fd_add_fails, Fail, sigVars, CountsTyped
  <2> QED BY <1>21, <1>0, <2>1 DEF WorkerReturn, CountsTyped, loopVars
<1>22. ASSUME NEW c \in Fds, WorkerUseFreed(c) PROVE CountsTyped'
  BY <1>22, <1>0 DEF WorkerUseFreed, NextEntry, CountsTyped, arrVars, loopVars, netVars, sigVars
<1>23. ASSUME NEW c \in Fds, Send(c) PROVE CountsTyped'
  BY <1>23, <1>0 DEF Send, NextEntry, CountsTyped, arrVars, loopVars, netVars, sigVars
<1>24. ASSUME NEW c \in Fds, Hangup(c) PROVE CountsTyped'
  BY <1>24, <1>0 DEF Hangup, NextEntry, CountsTyped, arrVars, loopVars, netVars, sigVars
<1>25. CASE UNCHANGED vars BY <1>25, <1>0 DEF vars, CountsTyped, arrVars, loopVars, netVars, sigVars
<1> QED
  BY <1>1, <1>2, <1>3, <1>4, <1>5, <1>6, <1>7, <1>8, <1>9, <1>10, <1>11, <1>12, <1>13, <1>14,
     <1>15, <1>16, <1>17, <1>18, <1>19, <1>20, <1>21, <1>22, <1>23, <1>24, <1>25, <1>26
  DEF Next, MainStep, WorkerStep

(* Jobs and sockets keep their types.                                       *)
LEMMA ClientsStep ==
  ASSUME TypeOK, Bounds, Pass, [Next]_vars
  PROVE  ClientsTyped'
<1>0. ClientsTyped BY DEF TypeOK, ClientsTyped
<1>1. CASE Snapshot BY <1>1, <1>0 DEF Snapshot, JobDone, ClientsTyped, netVars
<1>2. CASE PollReports BY <1>2, <1>0 DEF PollReports, JobDone, ClientsTyped, netVars
<1>3. CASE PollTimeout BY <1>3, <1>0 DEF PollTimeout, JobDone, ClientsTyped, netVars
<1>4. CASE PollFails BY <1>4, <1>0 DEF PollFails, JobDone, ClientsTyped, netVars
<1>5. CASE HandleBegin BY <1>5, <1>0 DEF HandleBegin, JobDone, ClientsTyped, netVars
<1>6. CASE FetchEntry BY <1>6, <1>0 DEF FetchEntry, JobDone, ClientsTyped, netVars
<1>7. CASE UseFreedEntry BY <1>7, <1>0 DEF UseFreedEntry, JobDone, ClientsTyped, netVars
<1>8. CASE ScanError BY <1>8, <1>0 DEF ScanError, JobDone, ClientsTyped, netVars
<1>26. CASE DropFd BY <1>26, <1>0 DEF DropFd, JobDone, ClientsTyped, netVars
<1>9. CASE ScanSkip BY <1>9, <1>0 DEF ScanSkip, JobDone, ClientsTyped, netVars
<1>10. CASE Register
  <2>1. AcceptedFd \in Fds BY <1>10, AcceptedIsFree DEF Register
  <2> QED BY <1>10, <1>0, <2>1 DEF Register, ClientsTyped
<1>11. CASE NothingToAccept BY <1>11, <1>0 DEF NothingToAccept, JobDone, ClientsTyped, netVars
<1>12. CASE RegisterFails BY <1>12, <1>0 DEF RegisterFails, JobDone, ClientsTyped, netVars
<1>13. CASE Dispatch BY <1>13, <1>0 DEF Dispatch, JobDone, ClientsTyped, netVars
<1>14. CASE DispatchFails BY <1>14, <1>0 DEF DispatchFails, JobDone, ClientsTyped, netVars
<1>15. CASE Remove BY <1>15, <1>0 DEF Remove, JobDone, ClientsTyped, netVars
<1>16. CASE ScanEnd BY <1>16, <1>0 DEF ScanEnd, JobDone, ClientsTyped, netVars
<1>17. CASE CloseAll BY <1>17, <1>0 DEF CloseAll, JobDone, ClientsTyped, netVars
<1>18. CASE DeliverSignal BY <1>18, <1>0 DEF DeliverSignal, JobDone, ClientsTyped, netVars
<1>19. CASE Connect BY <1>19, <1>0 DEF Connect, JobDone, ClientsTyped, netVars
<1>20. ASSUME NEW c \in Fds, WorkerClose(c) PROVE ClientsTyped'
  BY <1>20, <1>0 DEF WorkerClose, JobDone, ClientsTyped, netVars
<1>21. ASSUME NEW c \in Fds, WorkerReturn(c) PROVE ClientsTyped'
  <2>1. jobs' \in [Fds -> Nat] BY <1>21, <1>0 DEF WorkerReturn, JobDone, ClientsTyped
  <2>2. sock' \in [Fds -> {"none", "idle", "data", "hup"}]
    BY <1>21, <1>0 DEF WorkerReturn, ClientsTyped
  <2> QED BY <2>1, <2>2 DEF ClientsTyped
<1>22. ASSUME NEW c \in Fds, WorkerUseFreed(c) PROVE ClientsTyped'
  BY <1>22, <1>0 DEF WorkerUseFreed, JobDone, ClientsTyped, netVars
<1>23. ASSUME NEW c \in Fds, Send(c) PROVE ClientsTyped'
  BY <1>23, <1>0 DEF Send, JobDone, ClientsTyped, netVars
<1>24. ASSUME NEW c \in Fds, Hangup(c) PROVE ClientsTyped'
  BY <1>24, <1>0 DEF Hangup, JobDone, ClientsTyped, netVars
<1>25. CASE UNCHANGED vars BY <1>25, <1>0 DEF vars, ClientsTyped, netVars
<1> QED
  BY <1>1, <1>2, <1>3, <1>4, <1>5, <1>6, <1>7, <1>8, <1>9, <1>10, <1>11, <1>12, <1>13, <1>14,
     <1>15, <1>16, <1>17, <1>18, <1>19, <1>20, <1>21, <1>22, <1>23, <1>24, <1>25, <1>26
  DEF Next, MainStep, WorkerStep

----------------------------------------------------------------------------
(* The entry that is about to be removed is in use, and not the server's.   *)
LEMMA RemoveInUse ==
  ASSUME TypeOK, Bounds, Pass, mpc = "remove"
  PROVE  idx \in 1..fd_count /\ FdAt(idx) \in Fds /\ idx # 1
<1>1. idx \in Nat /\ fd_count \in Nat BY DEF TypeOK
<1>2. idx >= 1 /\ idx <= fd_count /\ FdAt(idx) \in Fds BY DEF Pass, InPass
<1>3. idx # 1 BY <1>2 DEF Bounds
<1> QED BY <1>1, <1>2, <1>3

(* So is the one whose descriptor was closed.                               *)
LEMMA DropInUse ==
  ASSUME TypeOK, Pass, mpc = "drop"
  PROVE  idx \in 1..fd_count
<1>1. idx \in Nat /\ fd_count \in Nat BY DEF TypeOK
<1>2. idx >= 1 /\ idx <= fd_count BY DEF Pass, InPass
<1> QED BY <1>1, <1>2

(* The server's entry stays the first.                                      *)
LEMMA BoundsStep ==
  ASSUME TypeOK, Bounds, Pass, [Next]_vars
  PROVE  Bounds'
<1>0. /\ Bounds /\ fd_count \in Nat /\ fd_count \in 0..Len(fd_arr) /\ Len(fd_arr) \in Nat /\ 1 \in 1..fd_count
      /\ 1 \in 1..Len(fd_arr) /\ backlog \in Nat /\ connects \in Nat
  BY HandlerConstants DEF TypeOK, Bounds
<1>1. CASE Snapshot
  BY <1>1, <1>0 DEF Snapshot, Scanning, NextEntry, Bounds, FdAt, arrVars, loopVars, netVars
<1>2. CASE PollReports
  <2>1. fd_arr'[1].fd = fd_arr[1].fd BY <1>2, <1>0, PollFacts
  <2> QED BY <1>2, <1>0, <2>1 DEF PollReports, Bounds, FdAt, netVars
<1>3. CASE PollTimeout
  BY <1>3, <1>0 DEF PollTimeout, Scanning, NextEntry, Bounds, FdAt, arrVars, loopVars, netVars
<1>4. CASE PollFails
  BY <1>4, <1>0 DEF PollFails, Scanning, NextEntry, Bounds, FdAt, arrVars, loopVars, netVars
<1>5. CASE HandleBegin
  BY <1>5, <1>0 DEF HandleBegin, Scanning, NextEntry, Bounds, FdAt, arrVars, loopVars, netVars
<1>6. CASE FetchEntry
  BY <1>6, <1>0 DEF FetchEntry, Scanning, NextEntry, Bounds, FdAt, arrVars, loopVars, netVars
<1>7. CASE UseFreedEntry
  BY <1>7, <1>0 DEF UseFreedEntry, Scanning, NextEntry, Bounds, FdAt, arrVars, loopVars, netVars
<1>8. CASE ScanError
  BY <1>8, <1>0 DEF ScanError, Scanning, NextEntry, Bounds, FdAt, arrVars, loopVars, netVars
<1>26. CASE DropFd
  <2>1. idx \in 1..fd_count /\ Cleared(idx) BY <1>26, DropFacts
  <2>2. fd_arr'[1].fd \notin Fds
    <3>1. CASE idx = 1 BY <2>1, <3>1, FdFacts DEF Cleared
    <3>2. CASE idx # 1 BY <1>0, <2>1, <3>2 DEF Cleared, Bounds, FdAt
    <3> QED BY <3>1, <3>2
  <2> QED BY <1>26, <1>0, <2>2 DEF DropFd, NextEntry, Bounds, FdAt, netVars
<1>9. CASE ScanSkip
  BY <1>9, <1>0 DEF ScanSkip, Scanning, NextEntry, Bounds, FdAt, arrVars, loopVars, netVars
<1>10. CASE Register
  <2>1. AcceptedFd \in Fds BY <1>10, AcceptedIsFree DEF Register
  <2>2. Appended(AcceptedFd) /\ freed' = freed BY <1>10, <2>1, AddFacts DEF Register
  <2>3. fd_arr'[1] = fd_arr[1] /\ fd_count' >= 1 BY <1>0, <2>2 DEF Appended
  <2>4. backlog' = backlog - 1 /\ backlog > 0 /\ connects' = connects BY <1>10 DEF Register
  <2>5. ~freed BY <1>10 DEF Register, Scanning, Bounds
  <2> QED BY <1>0, <2>2, <2>3, <2>4, <2>5 DEF Bounds, FdAt
<1>11. CASE NothingToAccept
  BY <1>11, <1>0 DEF NothingToAccept, Scanning, NextEntry, Bounds, FdAt, arrVars, loopVars, netVars
<1>12. CASE RegisterFails
  <2>1. UNCHANGED <<fd_arr, fd_count, freed>> BY <1>12 DEF RegisterFails, sock_fd_add_fails, arrVars
  <2>2. backlog' = backlog - 1 /\ backlog > 0 /\ connects' = connects /\ mpc = "entry"
    BY <1>12 DEF RegisterFails, Scanning
  <2> QED BY <1>0, <2>1, <2>2 DEF Bounds, FdAt
<1>13. CASE Dispatch
  BY <1>13, <1>0 DEF Dispatch, Scanning, NextEntry, Bounds, FdAt, arrVars, loopVars, netVars
<1>14. CASE DispatchFails
  BY <1>14, <1>0 DEF DispatchFails, Scanning, NextEntry, Bounds, FdAt, arrVars, loopVars, netVars
<1>15. CASE Remove
  <2>1. idx \in 1..fd_count /\ idx # 1 BY <1>15, RemoveInUse DEF Remove
  <2>2. Removed(idx) /\ freed' = freed BY <1>15, <2>1, RemoveFacts DEF Remove
  <2>3. fd_count' >= 1 /\ fd_arr'[1] = fd_arr[1] BY <1>0, <2>1, <2>2 DEF Removed
  <2>4. ~freed /\ UNCHANGED <<backlog, connects>> BY <1>15 DEF Remove, Bounds, netVars
  <2> QED BY <1>0, <2>2, <2>3, <2>4 DEF Bounds, FdAt
<1>16. CASE ScanEnd
  BY <1>16, <1>0 DEF ScanEnd, Scanning, NextEntry, Bounds, FdAt, arrVars, loopVars, netVars
<1>17. CASE CloseAll
  BY <1>17, <1>0 DEF CloseAll, Scanning, NextEntry, Bounds, FdAt, arrVars, loopVars, netVars
<1>18. CASE DeliverSignal
  BY <1>18, <1>0 DEF DeliverSignal, Scanning, NextEntry, Bounds, FdAt, arrVars, loopVars, netVars
<1>19. CASE Connect
  BY <1>19, <1>0 DEF Connect, Scanning, NextEntry, Bounds, FdAt, arrVars, loopVars, netVars
<1>20. ASSUME NEW c \in Fds, WorkerClose(c) PROVE Bounds'
  BY <1>20, <1>0 DEF WorkerClose, Scanning, NextEntry, Bounds, FdAt, arrVars, loopVars, netVars
<1>21. ASSUME NEW c \in Fds, WorkerReturn(c) PROVE Bounds'
  <2>1. CASE sock_fd_add(c)
    <3>1. Appended(c) /\ freed' = freed BY <2>1, AddFacts
    <3>2. fd_arr'[1] = fd_arr[1] /\ fd_count' >= 1 BY <1>0, <3>1 DEF Appended
    <3>3. UNCHANGED <<backlog, connects, mpc>> BY <1>21 DEF WorkerReturn, loopVars
    <3> QED BY <1>0, <3>1, <3>2, <3>3 DEF Bounds, FdAt
  <2>2. CASE sock_fd_add_fails
    BY <1>21, <1>0, <2>2 DEF WorkerReturn, sock_fd_add_fails, Bounds, FdAt, loopVars
  <2> QED BY <1>21, <2>1, <2>2 DEF WorkerReturn
<1>22. ASSUME NEW c \in Fds, WorkerUseFreed(c) PROVE Bounds'
  BY <1>22, <1>0 DEF WorkerUseFreed, Scanning, NextEntry, Bounds, FdAt, arrVars, loopVars, netVars
<1>23. ASSUME NEW c \in Fds, Send(c) PROVE Bounds'
  BY <1>23, <1>0 DEF Send, Scanning, NextEntry, Bounds, FdAt, arrVars, loopVars, netVars
<1>24. ASSUME NEW c \in Fds, Hangup(c) PROVE Bounds'
  BY <1>24, <1>0 DEF Hangup, Scanning, NextEntry, Bounds, FdAt, arrVars, loopVars, netVars
<1>25. CASE UNCHANGED vars BY <1>25, <1>0 DEF vars, Bounds, FdAt, arrVars, loopVars, netVars
<1> QED
  BY <1>1, <1>2, <1>3, <1>4, <1>5, <1>6, <1>7, <1>8, <1>9, <1>10, <1>11, <1>12, <1>13, <1>14,
     <1>15, <1>16, <1>17, <1>18, <1>19, <1>20, <1>21, <1>22, <1>23, <1>24, <1>25, <1>26
  DEF Next, MainStep, WorkerStep

(* The pass stays inside the array, and behind fd_count nothing reports.    *)
LEMMA PassStep ==
  ASSUME TypeOK, Bounds, Pass, [Next]_vars
  PROVE  Pass'
<1>0. /\ fd_count \in Nat /\ fd_count \in 0..Len(fd_arr) /\ Len(fd_arr) \in Nat
      /\ idx \in Nat /\ local_fd_count \in Nat /\ idx + 1 >= 1
  BY DEF TypeOK
<1>a. ASSUME NEW c, Appended(c), UNCHANGED local_fd_count, InPass, idx' >= 1,
             \/ mpc' = "scan"
             \/ mpc' = mpc /\ idx' = idx /\ (mpc \in {"remove", "drop"} => idx \in 1..fd_count)
      PROVE  Pass'
  <2>1. local_fd_count <= Len(fd_arr) /\ \A i \in (fd_count + 1)..local_fd_count : fd_arr[i].revents = "none"
    BY <1>a DEF Pass
  <2>2. /\ fd_count' = fd_count + 1 /\ Len(fd_arr') >= Len(fd_arr) /\ Len(fd_arr') \in Nat
        /\ \A i \in 1..Len(fd_arr) : fd_arr'[i].revents = fd_arr[i].revents
        /\ \A i \in 1..fd_count : fd_arr'[i] = fd_arr[i]
    BY <1>a DEF Appended
  <2>3. local_fd_count' <= Len(fd_arr') BY <1>0, <1>a, <2>1, <2>2
  <2>4. ASSUME NEW i \in (fd_count' + 1)..local_fd_count' PROVE fd_arr'[i].revents = "none"
    <3>1. i \in (fd_count + 1)..local_fd_count /\ i \in 1..Len(fd_arr) BY <1>0, <1>a, <2>1, <2>2
    <3> QED BY <2>1, <2>2, <3>1
  <2>5. mpc' = "remove" => idx' <= fd_count' /\ fd_arr'[idx'].fd \in Fds
    BY <1>0, <1>a, <2>2 DEF Pass, FdAt
  <2>6. mpc' \in {"entry", "drop", "remove"} => idx' <= local_fd_count' BY <1>a DEF Pass
  <2>7. mpc' = "drop" => idx' <= fd_count' BY <1>0, <1>a, <2>2
  <2> QED BY <1>a, <2>3, <2>4, <2>5, <2>6, <2>7 DEF Pass, FdAt
<1>1. CASE Snapshot
  BY <1>1, <1>0 DEF Snapshot, Scanning, NextEntry, Pass, InPass, FdAt, arrVars, loopVars
<1>2. CASE PollReports BY <1>2 DEF PollReports, Pass, InPass
<1>3. CASE PollTimeout
  BY <1>3, <1>0 DEF PollTimeout, Scanning, NextEntry, Pass, InPass, FdAt, arrVars, loopVars
<1>4. CASE PollFails
  BY <1>4, <1>0 DEF PollFails, Scanning, NextEntry, Pass, InPass, FdAt, arrVars, loopVars
<1>5. CASE HandleBegin
  <2>1. mpc' = "scan" /\ idx' = 1 /\ local_fd_count' = fd_count /\ UNCHANGED <<fd_arr, fd_count>>
    BY <1>5 DEF HandleBegin, arrVars
  <2> QED BY <1>0, <2>1 DEF Pass, InPass
<1>6. CASE FetchEntry
  <2>1. mpc = "scan" /\ mpc' = "entry" /\ idx <= local_fd_count /\ UNCHANGED <<idx, local_fd_count, fd_arr, fd_count>>
    BY <1>6 DEF FetchEntry
  <2> QED BY <2>1 DEF Pass, InPass
<1>7. CASE UseFreedEntry
  BY <1>7, <1>0 DEF UseFreedEntry, Scanning, NextEntry, Pass, InPass, FdAt, arrVars, loopVars
<1>8. CASE ScanError
  <2>1. mpc = "entry" /\ fd_arr[idx].revents # "none" /\ mpc' = "drop"
        /\ UNCHANGED <<fd_arr, fd_count, idx, local_fd_count>>
    BY <1>8 DEF ScanError, Scanning, arrVars
  <2>2. idx \in 1..fd_count BY <2>1, InUse
  <2>3. idx <= local_fd_count /\ idx <= fd_count BY <1>0, <2>1, <2>2 DEF Pass
  <2> QED BY <2>1, <2>3 DEF Pass, InPass
<1>26. CASE DropFd
  <2>1. idx \in 1..fd_count /\ Cleared(idx) BY <1>26, DropFacts
  <2>2. mpc = "drop" /\ mpc' = "scan" /\ idx' = idx + 1 /\ UNCHANGED <<fd_count, local_fd_count>>
    BY <1>26 DEF DropFd, NextEntry
  <2>3. Len(fd_arr') = Len(fd_arr) /\ \A i \in 1..Len(fd_arr) : fd_arr'[i].revents = fd_arr[i].revents
    BY <2>1 DEF Cleared
  <2>4. \A i \in (fd_count + 1)..local_fd_count : fd_arr'[i].revents = "none"
    BY <1>0, <2>2, <2>3 DEF Pass, InPass
  <2> QED BY <1>0, <2>2, <2>3, <2>4 DEF Pass, InPass
<1>9. CASE ScanSkip
  BY <1>9, <1>0 DEF ScanSkip, Scanning, NextEntry, Pass, InPass, FdAt, arrVars, loopVars
<1>10. CASE Register
  <2>1. AcceptedFd \in Fds BY <1>10, AcceptedIsFree DEF Register
  <2>2. Appended(AcceptedFd) BY <1>10, <2>1, AddFacts DEF Register
  <2>3. mpc = "entry" /\ mpc' = "scan" /\ idx' = idx + 1 /\ UNCHANGED local_fd_count
    BY <1>10 DEF Register, Scanning, NextEntry
  <2> QED BY <1>0, <1>a, <2>2, <2>3 DEF Pass, InPass
<1>11. CASE NothingToAccept
  BY <1>11, <1>0 DEF NothingToAccept, Scanning, NextEntry, Pass, InPass, FdAt, arrVars, loopVars
<1>12. CASE RegisterFails
  <2>1. UNCHANGED <<fd_arr, fd_count>> BY <1>12 DEF RegisterFails, sock_fd_add_fails, arrVars
  <2>2. mpc = "entry" /\ mpc' = "scan" /\ idx' = idx + 1 /\ UNCHANGED local_fd_count
    BY <1>12 DEF RegisterFails, Scanning, NextEntry
  <2> QED BY <1>0, <2>1, <2>2 DEF Pass, InPass
<1>13. CASE Dispatch
  <2>1. mpc = "entry" /\ fd_arr[idx].revents = "in" /\ mpc' = "remove" /\ FdAt(idx) \in Fds
        /\ UNCHANGED <<fd_arr, fd_count, idx, local_fd_count>>
    BY <1>13 DEF Dispatch, Scanning, FdAt, arrVars
  <2>2. idx \in 1..fd_count BY <2>1, InUse
  <2>3. Pass /\ idx <= local_fd_count BY <2>1 DEF Pass
  <2> QED BY <1>0, <2>1, <2>2, <2>3 DEF Pass, InPass, FdAt
<1>14. CASE DispatchFails
  BY <1>14, <1>0 DEF DispatchFails, Scanning, NextEntry, Pass, InPass, FdAt, arrVars, loopVars
<1>15. CASE Remove
  <2>1. idx \in 1..fd_count BY <1>15, RemoveInUse DEF Remove
  <2>2. Removed(idx) BY <1>15, <2>1, RemoveFacts DEF Remove
  <2>3. mpc = "remove" /\ mpc' = "scan" /\ idx' = idx + 1 /\ UNCHANGED local_fd_count
    BY <1>15 DEF Remove, NextEntry
  <2>4. local_fd_count <= Len(fd_arr) /\ \A i \in (fd_count + 1)..local_fd_count : fd_arr[i].revents = "none"
    BY <2>3 DEF Pass, InPass
  <2>5. ASSUME NEW i \in (fd_count' + 1)..local_fd_count PROVE fd_arr'[i].revents = "none"
    <3>1. fd_count' = fd_count - 1 BY <2>2 DEF Removed
    <3>2. CASE i = fd_count BY <2>2, <3>2 DEF Removed
    <3>3. CASE i # fd_count
      <4>1. i \in (fd_count + 1)..local_fd_count /\ i \in 1..Len(fd_arr) /\ i # idx
        BY <1>0, <2>1, <2>4, <3>1, <3>3
      <4> QED BY <2>2, <2>4, <3>3, <4>1 DEF Removed
    <3> QED BY <3>2, <3>3
  <2>6. Len(fd_arr') = Len(fd_arr) BY <2>2 DEF Removed
  <2> QED BY <1>0, <2>1, <2>3, <2>4, <2>5, <2>6 DEF Pass, InPass
<1>16. CASE ScanEnd
  <2>1. mpc' \in {"loop", "close"} BY <1>16 DEF ScanEnd
  <2> QED BY <2>1 DEF Pass, InPass
<1>17. CASE CloseAll
  BY <1>17, <1>0 DEF CloseAll, Scanning, NextEntry, Pass, InPass, FdAt, arrVars, loopVars
<1>18. CASE DeliverSignal
  <2>1. mpc' = mpc \/ mpc' = "loop" BY <1>18 DEF DeliverSignal
  <2>2. UNCHANGED <<fd_arr, fd_count, idx, local_fd_count>> BY <1>18 DEF DeliverSignal, arrVars
  <2> QED BY <2>1, <2>2 DEF Pass, InPass, FdAt
<1>19. CASE Connect
  BY <1>19, <1>0 DEF Connect, Scanning, NextEntry, Pass, InPass, FdAt, arrVars, loopVars
<1>20. ASSUME NEW c \in Fds, WorkerClose(c) PROVE Pass'
  BY <1>20, <1>0 DEF WorkerClose, Scanning, NextEntry, Pass, InPass, FdAt, arrVars, loopVars
<1>21. ASSUME NEW c \in Fds, WorkerReturn(c) PROVE Pass'
  <2>1. CASE sock_fd_add(c)
    <3>1. Appended(c) BY <2>1, AddFacts
    <3>2. UNCHANGED <<mpc, idx, local_fd_count>> BY <1>21 DEF WorkerReturn, loopVars
    <3>3. mpc \in {"remove", "drop"} => idx \in 1..fd_count BY RemoveInUse, DropInUse
    <3>4. CASE InPass
      <4>1. idx' >= 1 BY <3>2, <3>4 DEF Pass
      <4> QED BY <1>a, <3>1, <3>2, <3>3, <3>4, <4>1
    <3>5. CASE ~InPass BY <3>2, <3>5 DEF Pass, InPass
    <3> QED BY <3>4, <3>5
  <2>2. CASE sock_fd_add_fails
    <3>1. UNCHANGED <<fd_arr, fd_count, mpc, idx, local_fd_count>>
      BY <1>21, <2>2 DEF WorkerReturn, sock_fd_add_fails, loopVars
    <3> QED BY <3>1 DEF Pass, InPass, FdAt
  <2> QED BY <1>21, <2>1, <2>2 DEF WorkerReturn
<1>22. ASSUME NEW c \in Fds, WorkerUseFreed(c) PROVE Pass'
  BY <1>22, <1>0 DEF WorkerUseFreed, Scanning, NextEntry, Pass, InPass, FdAt, arrVars, loopVars
<1>23. ASSUME NEW c \in Fds, Send(c) PROVE Pass'
  BY <1>23, <1>0 DEF Send, Scanning, NextEntry, Pass, InPass, FdAt, arrVars, loopVars
<1>24. ASSUME NEW c \in Fds, Hangup(c) PROVE Pass'
  BY <1>24, <1>0 DEF Hangup, Scanning, NextEntry, Pass, InPass, FdAt, arrVars, loopVars
<1>25. CASE UNCHANGED vars BY <1>25, <1>0 DEF vars, Pass, InPass, FdAt, arrVars, loopVars
<1> QED
  BY <1>1, <1>2, <1>3, <1>4, <1>5, <1>6, <1>7, <1>8, <1>9, <1>10, <1>11, <1>12, <1>13, <1>14,
     <1>15, <1>16, <1>17, <1>18, <1>19, <1>20, <1>21, <1>22, <1>23, <1>24, <1>25, <1>26
  DEF Next, MainStep, WorkerStep

----------------------------------------------------------------------------
(* Most steps leave the entries, the jobs and the sockets as they are.      *)
Quiet ==
  /\ fd_count' = fd_count /\ jobs' = jobs /\ sock' = sock /\ freed' = freed
  /\ fd_mutex' = "free" => fd_mutex = "free"
  /\ \A i \in 1..fd_count : fd_arr'[i].fd = fd_arr[i].fd
  /\ (mpc' = "remove" <=> mpc = "remove") /\ (mpc = "remove" => idx' = idx)
  /\ mpc' # "undefined" => (mpc' = "drop" <=> mpc = "drop") /\ (mpc = "drop" => idx' = idx)

Loud ==
  \/ ScanError \/ DropFd \/ Register \/ Dispatch \/ Remove \/ CloseAll
  \/ \E c \in Fds : WorkerClose(c) \/ WorkerReturn(c) \/ WorkerUseFreed(c) \/ Send(c) \/ Hangup(c)

(* Every step is one of the two.                                            *)
LEMMA QuietOrLoud ==
  ASSUME TypeOK, Bounds, Pass, [Next]_vars
  PROVE  Quiet \/ Loud
<1>0. fd_count \in Nat /\ fd_count \in 0..Len(fd_arr) /\ Len(fd_arr) \in Nat BY DEF TypeOK
<1>1. CASE Snapshot BY <1>1 DEF Snapshot, Scanning, NextEntry, Quiet, arrVars, loopVars, netVars
<1>2. CASE PollReports
  <2>1. \A i \in 1..fd_count : fd_arr'[i].fd = fd_arr[i].fd BY <1>2, <1>0, PollFacts
  <2> QED BY <1>2, <2>1 DEF PollReports, Quiet, netVars
<1>3. CASE PollTimeout
  BY <1>3 DEF PollTimeout, Scanning, NextEntry, Quiet, arrVars, loopVars, netVars
<1>4. CASE PollFails BY <1>4 DEF PollFails, Scanning, NextEntry, Quiet, arrVars, loopVars, netVars
<1>5. CASE HandleBegin
  BY <1>5 DEF HandleBegin, Scanning, NextEntry, Quiet, arrVars, loopVars, netVars
<1>6. CASE FetchEntry BY <1>6 DEF FetchEntry, Scanning, NextEntry, Quiet, arrVars, loopVars, netVars
<1>7. CASE UseFreedEntry
  BY <1>7 DEF UseFreedEntry, Scanning, NextEntry, Quiet, arrVars, loopVars, netVars
<1>8. CASE ScanError BY <1>8 DEF Loud
<1>26. CASE DropFd BY <1>26 DEF Loud
<1>9. CASE ScanSkip BY <1>9 DEF ScanSkip, Scanning, NextEntry, Quiet, arrVars, loopVars, netVars
<1>10. CASE Register BY <1>10 DEF Loud
<1>11. CASE NothingToAccept
  BY <1>11 DEF NothingToAccept, Scanning, NextEntry, Quiet, arrVars, loopVars, netVars
<1>12. CASE RegisterFails
  <2>1. UNCHANGED <<fd_arr, fd_count, freed>> /\ fd_mutex' \in {fd_mutex, "stuck"}
    BY <1>12 DEF RegisterFails, sock_fd_add_fails, arrVars
  <2> QED BY <1>12, <2>1 DEF RegisterFails, Scanning, NextEntry, Quiet
<1>13. CASE Dispatch BY <1>13 DEF Loud
<1>14. CASE DispatchFails
  BY <1>14 DEF DispatchFails, Scanning, NextEntry, Quiet, arrVars, loopVars, netVars
<1>15. CASE Remove BY <1>15 DEF Loud
<1>16. CASE ScanEnd
  <2>1. mpc = "scan" /\ mpc' \in {"loop", "close"} BY <1>16 DEF ScanEnd
  <2> QED BY <1>16, <2>1 DEF ScanEnd, Quiet, arrVars, netVars
<1>17. CASE CloseAll BY <1>17 DEF Loud
<1>18. CASE DeliverSignal
  <2>1. mpc' = mpc \/ (mpc = "poll" /\ mpc' = "loop") BY <1>18 DEF DeliverSignal
  <2> QED BY <1>18, <2>1 DEF DeliverSignal, Quiet, arrVars, netVars
<1>19. CASE Connect BY <1>19 DEF Connect, Scanning, NextEntry, Quiet, arrVars, loopVars, netVars
<1>20. ASSUME NEW c \in Fds, WorkerClose(c) PROVE Quiet \/ Loud
  BY <1>20 DEF Loud
<1>21. ASSUME NEW c \in Fds, WorkerReturn(c) PROVE Quiet \/ Loud
  BY <1>21 DEF Loud
<1>22. ASSUME NEW c \in Fds, WorkerUseFreed(c) PROVE Quiet \/ Loud
  BY <1>22 DEF Loud
<1>23. ASSUME NEW c \in Fds, Send(c) PROVE Quiet \/ Loud
  BY <1>23 DEF Loud
<1>24. ASSUME NEW c \in Fds, Hangup(c) PROVE Quiet \/ Loud
  BY <1>24 DEF Loud
<1>25. CASE UNCHANGED vars BY <1>25 DEF vars, Quiet, arrVars, loopVars, netVars
<1> QED
  BY <1>1, <1>2, <1>3, <1>4, <1>5, <1>6, <1>7, <1>8, <1>9, <1>10, <1>11, <1>12, <1>13, <1>14,
     <1>15, <1>16, <1>17, <1>18, <1>19, <1>20, <1>21, <1>22, <1>23, <1>24, <1>25, <1>26
  DEF Next, MainStep, WorkerStep

(* accept4's descriptor is in no entry and has no job.                      *)
LEMMA AcceptedIsUnowned ==
  ASSUME TypeOK, Bounds, Owned, LogLength = 0 /\ mpc # "undefined" => Fresh,
         LogLength # 0 => Aborted, mpc = "entry", FreeFds # {}
  PROVE  jobs[AcceptedFd] = 0 /\ \A i \in 1..fd_count : FdAt(i) # AcceptedFd
<1>1. AcceptedFd \in Fds /\ sock[AcceptedFd] = "none" BY AcceptedIsFree
<1>2. jobs[AcceptedFd] \in {0, 1} BY <1>1 DEF Owned
<1>3. CASE LogLength = 0
  <2>1. \A i \in 1..fd_count : Live(i) /\ ~Dropped(i) BY DEF Live, Dropped
  <2> QED BY <1>1, <1>2, <1>3, <2>1 DEF Fresh
<1>4. CASE LogLength # 0
  <2>1. fd_count = 1 /\ jobs[AcceptedFd] = 0 BY <1>1, <1>4 DEF Aborted
  <2>2. FdAt(1) \notin Fds BY DEF Bounds
  <2>3. \A i \in 1..fd_count : i = 1 BY <2>1
  <2> QED BY <1>1, <2>1, <2>2, <2>3
<1> QED BY <1>3, <1>4

(* What the steps that matter do, in terms of the entries.                  *)
LEMMA CloseView ==
  ASSUME TypeOK, Pass, ScanError
  PROVE  /\ idx \in 1..fd_count /\ mpc = "entry" /\ mpc' = "drop"
         /\ sock' = [c \in Fds |-> IF c = fd_arr[idx].fd THEN "none" ELSE sock[c]]
         /\ UNCHANGED <<idx, fd_arr, fd_count, jobs, freed, fd_mutex>>
<1>1. mpc = "entry" /\ fd_arr[idx].revents # "none" BY DEF ScanError, Scanning
<1>2. idx \in 1..fd_count BY <1>1, InUse
<1> QED BY <1>1, <1>2 DEF ScanError, arrVars

(* The closed descriptor leaves its entry.                                  *)
LEMMA DropView ==
  ASSUME TypeOK, Pass, DropFd
  PROVE  /\ idx \in 1..fd_count /\ mpc = "drop" /\ mpc' = "scan" /\ fd_count' = fd_count
         /\ fd_arr'[idx].fd \notin Fds
         /\ \A i \in 1..fd_count : i # idx => fd_arr'[i].fd = fd_arr[i].fd
         /\ UNCHANGED <<jobs, sock, freed, fd_mutex>>
<1>0. fd_count \in 0..Len(fd_arr) /\ Len(fd_arr) \in Nat BY DEF TypeOK
<1>1. idx \in 1..fd_count /\ Cleared(idx) BY DropFacts
<1>2. \A i \in 1..fd_count : i \in 1..Len(fd_arr) BY <1>0
<1>3. fd_arr'[idx].fd \notin Fds BY <1>1, FdFacts DEF Cleared
<1>4. \A i \in 1..fd_count : i # idx => fd_arr'[i].fd = fd_arr[i].fd BY <1>1, <1>2 DEF Cleared
<1> QED BY <1>1, <1>3, <1>4 DEF DropFd, NextEntry, netVars

(* What sock_fd_remove does to the descriptors in use.                      *)
LEMMA RemoveView ==
  ASSUME TypeOK, Bounds, Pass, Remove
  PROVE  /\ idx \in 1..fd_count /\ mpc = "remove" /\ mpc' = "scan" /\ fd_count' = fd_count - 1
         /\ \A i \in 1..(fd_count - 1) : i # idx => fd_arr'[i].fd = fd_arr[i].fd
         /\ idx # fd_count => fd_arr'[idx].fd = fd_arr[fd_count].fd
         /\ UNCHANGED <<jobs, sock, freed, fd_mutex>>
<1>0. fd_count \in 0..Len(fd_arr) /\ Len(fd_arr) \in Nat /\ fd_count \in Nat BY DEF TypeOK
<1>1. idx \in 1..fd_count BY RemoveInUse DEF Remove
<1>2. Removed(idx) /\ UNCHANGED <<fd_mutex, freed>> BY <1>1, RemoveFacts DEF Remove
<1>3. \A i \in 1..(fd_count - 1) : i \in 1..Len(fd_arr) /\ i # fd_count BY <1>0
<1>4. \A i \in 1..(fd_count - 1) : i # idx => fd_arr'[i].fd = fd_arr[i].fd BY <1>2, <1>3 DEF Removed
<1>5. idx # fd_count => fd_arr'[idx].fd = fd_arr[fd_count].fd BY <1>2 DEF Removed
<1>6. fd_count' = fd_count - 1 BY <1>2 DEF Removed
<1>7. mpc = "remove" /\ mpc' = "scan" /\ UNCHANGED <<jobs, sock>> BY DEF Remove, NextEntry, netVars
<1> QED BY <1>1, <1>2, <1>4, <1>5, <1>6, <1>7

(* A new last entry.                                                        *)
NewLast(c) ==
  /\ fd_count' = fd_count + 1 /\ fd_arr'[fd_count + 1].fd = c
  /\ \A i \in 1..fd_count : fd_arr'[i].fd = fd_arr[i].fd

(* What register_client does.                                               *)
LEMMA RegisterView ==
  ASSUME TypeOK, Bounds, Register
  PROVE  /\ AcceptedFd \in Fds /\ FreeFds # {} /\ NewLast(AcceptedFd) /\ mpc = "entry" /\ mpc' = "scan"
         /\ UNCHANGED <<jobs, freed, fd_mutex>>
         /\ LogLength = 0 => sock' = [sock EXCEPT ![AcceptedFd] = "idle"]
         /\ LogLength # 0 => sock' = sock /\ exit_code' = "E_FAILURE"
<1>1. AcceptedFd \in Fds BY AcceptedIsFree DEF Register
<1>2. Appended(AcceptedFd) /\ UNCHANGED <<fd_mutex, freed>> BY <1>1, AddFacts DEF Register
<1>3. NewLast(AcceptedFd) BY <1>2 DEF Appended, NewLast
<1> QED BY <1>1, <1>2, <1>3 DEF Register, Scanning, NextEntry

(* What a worker that puts its client back does.                            *)
LEMMA ReturnView ==
  ASSUME TypeOK, Bounds, Pass, NEW c \in Fds, WorkerReturn(c)
  PROVE  /\ jobs[c] > 0 /\ jobs' = [jobs EXCEPT ![c] = @ - 1] /\ ~freed
         /\ UNCHANGED <<mpc, idx, freed>> /\ (mpc = "remove" => idx \in 1..fd_count)
         /\ \A d \in Fds : sock'[d] = "none" <=> sock[d] = "none"
         /\ \/ NewLast(c) /\ UNCHANGED fd_mutex
            \/ UNCHANGED <<fd_arr, fd_count>> /\ fd_mutex' = "stuck"
<1>1. /\ jobs[c] > 0 /\ jobs' = [jobs EXCEPT ![c] = @ - 1] /\ ~freed
      /\ UNCHANGED <<mpc, idx>>
  BY DEF WorkerReturn, JobDone, loopVars
<1>2. mpc = "remove" => idx \in 1..fd_count BY RemoveInUse
<1>3. \A d \in Fds : sock'[d] = "none" <=> sock[d] = "none" BY DEF WorkerReturn, TypeOK
<1>4. CASE sock_fd_add(c)
  <2>1. Appended(c) /\ UNCHANGED <<fd_mutex, freed>> BY <1>4, AddFacts
  <2>2. NewLast(c) BY <2>1 DEF Appended, NewLast
  <2> QED BY <1>1, <1>2, <1>3, <2>1, <2>2
<1>5. CASE sock_fd_add_fails BY <1>1, <1>2, <1>3, <1>5 DEF sock_fd_add_fails
<1> QED BY <1>4, <1>5 DEF WorkerReturn

(* What handle_client_event does up to the removal of the entry.            *)
LEMMA DispatchView ==
  ASSUME TypeOK, Pass, Dispatch
  PROVE  /\ idx \in 1..fd_count /\ fd_arr[idx].fd \in Fds /\ mpc = "entry" /\ mpc' = "remove"
         /\ jobs' = [jobs EXCEPT ![fd_arr[idx].fd] = @ + 1]
         /\ UNCHANGED <<idx, fd_arr, fd_count, sock, freed, fd_mutex>>
<1>1. mpc = "entry" /\ fd_arr[idx].revents # "none" BY DEF Dispatch, Scanning
<1>2. idx \in 1..fd_count BY <1>1, InUse
<1> QED BY <1>1, <1>2 DEF Dispatch, arrVars, netVars

----------------------------------------------------------------------------
(* A client has one owner.                                                  *)
LEMMA OwnedAppend ==
  ASSUME TypeOK, Owned, NEW c \in Fds, NewLast(c),
         \A i \in 1..fd_count : Live(i) => FdAt(i) # c,
         jobs' \in [Fds -> Nat], jobs'[c] = 0, \A d \in Fds : d # c => jobs'[d] = jobs[d],
         mpc' = "remove" => mpc = "remove" /\ idx' = idx /\ idx \in 1..fd_count,
         mpc = "remove" => mpc' = "remove"
  PROVE  Owned'
<1>0. fd_count \in Nat BY DEF TypeOK
<1>1. ASSUME NEW i \in 1..(fd_count + 1) PROVE i \in 1..fd_count \/ i = fd_count + 1 BY <1>0
<1>2. \A i \in 1..fd_count : (Live(i))' <=> Live(i)
  BY DEF Live
<1>3. \A i \in 1..fd_count : fd_arr'[i].fd = FdAt(i) BY DEF NewLast, FdAt
<1>4. fd_arr'[fd_count + 1].fd = c /\ fd_count' = fd_count + 1 BY DEF NewLast
<1>5. \A d \in Fds : jobs'[d] \in {0, 1} BY DEF Owned
<1>6. ASSUME NEW i \in 1..(fd_count + 1), NEW j \in 1..(fd_count + 1), (Live(i))', (Live(j))',
             fd_arr'[i].fd \in Fds, fd_arr'[i].fd = fd_arr'[j].fd
      PROVE  i = j
  <2>1. CASE i \in 1..fd_count /\ j \in 1..fd_count BY <1>2, <1>3, <1>6, <2>1 DEF Owned
  <2>2. CASE i \in 1..fd_count /\ j = fd_count + 1 BY <1>2, <1>3, <1>4, <1>6, <2>2
  <2>3. CASE j \in 1..fd_count /\ i = fd_count + 1 BY <1>2, <1>3, <1>4, <1>6, <2>3
  <2> QED BY <1>1, <2>1, <2>2, <2>3
<1>7. ASSUME NEW i \in 1..(fd_count + 1), (Live(i))', fd_arr'[i].fd \in Fds
      PROVE  jobs'[fd_arr'[i].fd] = 0
  <2>1. CASE i \in 1..fd_count BY <1>2, <1>3, <1>7, <2>1 DEF Owned
  <2>2. CASE i = fd_count + 1 BY <1>4, <2>2
  <2> QED BY <1>1, <2>1, <2>2
<1> QED BY <1>4, <1>5, <1>6, <1>7 DEF Owned, FdAt

(* A client keeps having one owner.                                         *)
LEMMA OwnedStep ==
  ASSUME TypeOK, Bounds, Pass, Owned, LogLength = 0 /\ mpc # "undefined" => Fresh,
         LogLength # 0 => Aborted, ~freed, ~freed', [Next]_vars
  PROVE  Owned'
<1>0. fd_count \in Nat /\ jobs \in [Fds -> Nat] BY DEF TypeOK
<1>1. CASE Quiet
  <2>1. \A i \in 1..fd_count : (Live(i))' <=> Live(i) BY <1>1 DEF Quiet, Live
  <2>2. \A i \in 1..fd_count : fd_arr'[i].fd = FdAt(i) BY <1>1 DEF Quiet, FdAt
  <2>3. fd_count' = fd_count /\ jobs' = jobs BY <1>1 DEF Quiet
  <2> QED BY <2>1, <2>2, <2>3 DEF Owned, FdAt
<1>2. CASE ScanError
  <2>1. mpc # "remove" /\ mpc' # "remove" /\ UNCHANGED <<fd_arr, fd_count, jobs>> BY <1>2, CloseView
  <2> QED BY <2>1 DEF Owned, Live, FdAt
<1>12. CASE DropFd
  <2>1. /\ idx \in 1..fd_count /\ mpc = "drop" /\ mpc' = "scan" /\ fd_count' = fd_count
        /\ fd_arr'[idx].fd \notin Fds /\ jobs' = jobs
        /\ \A i \in 1..fd_count : i # idx => fd_arr'[i].fd = FdAt(i)
    BY <1>12, DropView DEF FdAt
  <2>2. \A i : Live(i) BY <2>1 DEF Live
  <2>3. \A i \in 1..fd_count : fd_arr'[i].fd \in Fds => i # idx /\ fd_arr'[i].fd = FdAt(i) BY <2>1
  <2> QED BY <2>1, <2>2, <2>3 DEF Owned, FdAt
<1>3. CASE Register
  <2>1. /\ AcceptedFd \in Fds /\ FreeFds # {} /\ NewLast(AcceptedFd) /\ mpc = "entry" /\ mpc' = "scan"
        /\ jobs' = jobs
    BY <1>3, RegisterView
  <2>2. jobs[AcceptedFd] = 0 /\ \A i \in 1..fd_count : FdAt(i) # AcceptedFd
    BY <2>1, AcceptedIsUnowned
  <2> QED BY <1>0, <2>1, <2>2, OwnedAppend
<1>4. CASE Dispatch
  <2> DEFINE c == fd_arr[idx].fd
  <2>1. /\ idx \in 1..fd_count /\ c \in Fds /\ mpc = "entry" /\ mpc' = "remove"
        /\ jobs' = [jobs EXCEPT ![c] = @ + 1] /\ UNCHANGED <<idx, fd_arr, fd_count>>
    BY <1>4, DispatchView
  <2>2. \A i : Live(i) BY <2>1 DEF Live
  <2>3. jobs[c] = 0 /\ \A i \in 1..fd_count : FdAt(i) = c => i = idx BY <2>1, <2>2 DEF Owned, FdAt
  <2> HIDE DEF c
  <2>4. \A d \in Fds : jobs'[d] = IF d = c THEN 1 ELSE jobs[d] BY <1>0, <2>1, <2>3
  <2>5. \A i : (Live(i))' => i # idx BY <2>1 DEF Live
  <2>6. \A d \in Fds : jobs'[d] \in {0, 1} BY <2>4 DEF Owned
  <2>7. \A i \in 1..fd_count : (Live(i))' /\ FdAt(i) \in Fds => jobs'[FdAt(i)] = 0
    BY <2>2, <2>3, <2>4, <2>5 DEF Owned
  <2> QED BY <2>1, <2>2, <2>6, <2>7 DEF Owned, FdAt
<1>5. CASE Remove
  <2>1. /\ idx \in 1..fd_count /\ mpc = "remove" /\ mpc' = "scan" /\ fd_count' = fd_count - 1
        /\ \A i \in 1..(fd_count - 1) : i # idx => fd_arr'[i].fd = FdAt(i)
        /\ idx # fd_count => fd_arr'[idx].fd = FdAt(fd_count)
        /\ jobs' = jobs
    BY <1>5, RemoveView DEF FdAt
  <2> DEFINE was(i) == IF i = idx THEN fd_count ELSE i
  <2>2. \A i \in 1..(fd_count - 1) :
          was(i) \in 1..fd_count /\ Live(was(i)) /\ fd_arr'[i].fd = FdAt(was(i))
    BY <1>0, <2>1 DEF Live
  <2>3. \A i, j \in 1..(fd_count - 1) : was(i) = was(j) => i = j BY <1>0
  <2> HIDE DEF was
  <2> QED BY <2>1, <2>2, <2>3 DEF Owned, FdAt
<1>6. CASE CloseAll BY <1>6 DEF CloseAll
<1>7. ASSUME NEW c \in Fds, jobs[c] > 0, jobs' = [jobs EXCEPT ![c] = @ - 1],
             UNCHANGED <<fd_arr, fd_count, mpc, idx>>
      PROVE  Owned'
  <2>1. jobs[c] = 1 BY <1>0, <1>7 DEF Owned
  <2>2. \A d \in Fds : jobs'[d] = IF d = c THEN 0 ELSE jobs[d] BY <1>0, <1>7, <2>1
  <2>3. \A i : (Live(i))' <=> Live(i) BY <1>7 DEF Live
  <2>4. \A d \in Fds : jobs'[d] \in {0, 1} BY <2>2 DEF Owned
  <2>5. \A i \in 1..fd_count : Live(i) /\ FdAt(i) \in Fds => jobs'[FdAt(i)] = 0 BY <2>2 DEF Owned
  <2> QED BY <1>7, <2>3, <2>4, <2>5 DEF Owned, FdAt
<1>8. ASSUME NEW c \in Fds, WorkerClose(c) PROVE Owned'
  BY <1>7, <1>8 DEF WorkerClose, JobDone, arrVars, loopVars
<1>9. ASSUME NEW c \in Fds, WorkerReturn(c) PROVE Owned'
  <2>1. /\ jobs[c] > 0 /\ jobs' = [jobs EXCEPT ![c] = @ - 1]
        /\ UNCHANGED <<mpc, idx>> /\ (mpc = "remove" => idx \in 1..fd_count)
        /\ NewLast(c) \/ UNCHANGED <<fd_arr, fd_count>>
    BY <1>9, ReturnView
  <2>2. CASE UNCHANGED <<fd_arr, fd_count>> BY <1>7, <2>1, <2>2
  <2>3. CASE NewLast(c)
    <3>1. jobs[c] = 1 BY <1>0, <2>1 DEF Owned
    <3>2. jobs' \in [Fds -> Nat] /\ jobs'[c] = 0 /\ \A d \in Fds : d # c => jobs'[d] = jobs[d]
      BY <1>0, <2>1, <3>1
    <3>3. \A i \in 1..fd_count : Live(i) => FdAt(i) # c BY <3>1 DEF Owned
    <3> QED BY <2>1, <2>3, <3>2, <3>3, OwnedAppend
  <2> QED BY <2>1, <2>2, <2>3
<1>10. ASSUME NEW c \in Fds, WorkerUseFreed(c) PROVE Owned' BY <1>10 DEF WorkerUseFreed
<1>11. ASSUME NEW c \in Fds, Send(c) \/ Hangup(c) PROVE Owned'
  <2>1. UNCHANGED <<fd_arr, fd_count, mpc, idx, jobs>> BY <1>11 DEF Send, Hangup, arrVars, loopVars
  <2> QED BY <2>1 DEF Owned, Live, FdAt
<1> QED BY <1>1, <1>2, <1>3, <1>4, <1>5, <1>6, <1>8, <1>9, <1>10, <1>11, <1>12, QuietOrLoud DEF Loud

(* No entry and no job names a closed descriptor.                           *)
LEMMA FreshStep ==
  ASSUME TypeOK, Bounds, Pass, Owned, Fresh, LogLength = 0, ~freed, ~freed',
         mpc' # "undefined", [Next]_vars
  PROVE  Fresh'
<1>0. /\ fd_count \in Nat /\ jobs \in [Fds -> Nat]
      /\ sock \in [Fds -> {"none", "idle", "data", "hup"}]
  BY DEF TypeOK
<1>1. CASE Quiet
  <2>1. \A i \in 1..fd_count : ((Live(i))' <=> Live(i)) /\ ((Dropped(i))' <=> Dropped(i))
    BY <1>1 DEF Quiet, Live, Dropped
  <2>2. \A i \in 1..fd_count : fd_arr'[i].fd = FdAt(i) BY <1>1 DEF Quiet, FdAt
  <2>3. fd_count' = fd_count /\ jobs' = jobs /\ sock' = sock BY <1>1 DEF Quiet
  <2> QED BY <2>1, <2>2, <2>3 DEF Fresh, FdAt
<1>2. CASE ScanError
  <2>1. /\ idx \in 1..fd_count /\ mpc = "entry" /\ mpc' = "drop"
        /\ UNCHANGED <<idx, fd_arr, fd_count, jobs>>
        /\ sock' = [c \in Fds |-> IF c = FdAt(idx) THEN "none" ELSE sock[c]]
    BY <1>2, CloseView DEF FdAt
  <2>2. \A i : Live(i) /\ ~Dropped(i) BY <2>1 DEF Live, Dropped
  <2>3. ASSUME NEW i \in 1..fd_count, ~(Dropped(i))', FdAt(i) \in Fds PROVE sock'[FdAt(i)] # "none"
    <3>1. i # idx BY <2>1, <2>3 DEF Dropped
    <3>2. FdAt(i) # FdAt(idx) BY <2>1, <2>2, <2>3, <3>1 DEF Owned
    <3> QED BY <2>1, <2>2, <2>3, <3>2 DEF Fresh
  <2>4. ASSUME NEW c \in Fds, jobs[c] > 0 PROVE sock'[c] # "none"
    <3>1. c # FdAt(idx) BY <2>1, <2>2, <2>4 DEF Owned
    <3> QED BY <2>1, <2>4, <3>1 DEF Fresh
  <2> QED BY <2>1, <2>3, <2>4 DEF Fresh, FdAt
<1>11. CASE DropFd
  <2>1. /\ mpc = "drop" /\ mpc' = "scan" /\ fd_count' = fd_count
        /\ fd_arr'[idx].fd \notin Fds /\ UNCHANGED <<jobs, sock>>
        /\ \A i \in 1..fd_count : i # idx => fd_arr'[i].fd = FdAt(i)
    BY <1>11, DropView DEF FdAt
  <2>2. \A i : Live(i) BY <2>1 DEF Live
  <2>3. ASSUME NEW i \in 1..fd_count, fd_arr'[i].fd \in Fds PROVE sock'[fd_arr'[i].fd] # "none"
    <3>1. ~Dropped(i) /\ fd_arr'[i].fd = FdAt(i) BY <2>1, <2>3 DEF Dropped
    <3> QED BY <2>1, <2>2, <2>3, <3>1 DEF Fresh
  <2> QED BY <2>1, <2>3 DEF Fresh, FdAt
<1>3. CASE Register
  <2> DEFINE a == AcceptedFd
  <2>1. /\ a \in Fds /\ NewLast(a) /\ mpc = "entry" /\ jobs' = jobs
        /\ sock' = [sock EXCEPT ![a] = "idle"]
    BY <1>3, RegisterView
  <2> HIDE DEF a
  <2>2. \A c \in Fds : sock[c] # "none" => sock'[c] # "none" BY <1>0, <2>1
  <2>3. sock'[a] # "none" BY <1>0, <2>1
  <2>4. \A i : Live(i) /\ ~Dropped(i) BY <2>1 DEF Live, Dropped
  <2>5. ASSUME NEW i \in 1..(fd_count + 1), fd_arr'[i].fd \in Fds PROVE sock'[fd_arr'[i].fd] # "none"
    <3>1. CASE i = fd_count + 1 BY <2>1, <2>3, <3>1 DEF NewLast
    <3>2. CASE i \in 1..fd_count BY <2>1, <2>2, <2>4, <2>5, <3>2 DEF NewLast, Fresh, FdAt
    <3> QED BY <1>0, <3>1, <3>2
  <2>6. fd_count' = fd_count + 1 BY <2>1 DEF NewLast
  <2> QED BY <2>1, <2>2, <2>5, <2>6 DEF Fresh, FdAt
<1>4. CASE Dispatch
  <2> DEFINE c == fd_arr[idx].fd
  <2>1. /\ idx \in 1..fd_count /\ c \in Fds /\ mpc = "entry"
        /\ jobs' = [jobs EXCEPT ![c] = @ + 1] /\ UNCHANGED <<idx, fd_arr, fd_count, sock>>
    BY <1>4, DispatchView
  <2>2. \A i : Live(i) /\ ~Dropped(i) BY <2>1 DEF Live, Dropped
  <2>3. sock[c] # "none" BY <2>1, <2>2 DEF Fresh, FdAt
  <2> HIDE DEF c
  <2>4. \A d \in Fds : d # c => jobs'[d] = jobs[d] BY <1>0, <2>1
  <2>5. \A d \in Fds : jobs'[d] > 0 => sock[d] # "none" BY <2>3, <2>4 DEF Fresh
  <2> QED BY <2>1, <2>2, <2>5 DEF Fresh, FdAt
<1>5. CASE Remove
  <2>1. /\ idx \in 1..fd_count /\ mpc = "remove" /\ fd_count' = fd_count - 1
        /\ \A i \in 1..(fd_count - 1) : i # idx => fd_arr'[i].fd = FdAt(i)
        /\ idx # fd_count => fd_arr'[idx].fd = FdAt(fd_count)
        /\ jobs' = jobs /\ sock' = sock
    BY <1>5, RemoveView DEF FdAt
  <2> DEFINE was(i) == IF i = idx THEN fd_count ELSE i
  <2>2. \A i \in 1..(fd_count - 1) :
          was(i) \in 1..fd_count /\ Live(was(i)) /\ ~Dropped(was(i)) /\ fd_arr'[i].fd = FdAt(was(i))
    BY <1>0, <2>1 DEF Live, Dropped
  <2> HIDE DEF was
  <2> QED BY <2>1, <2>2 DEF Fresh, FdAt
<1>6. CASE CloseAll BY <1>6 DEF CloseAll
<1>7. ASSUME NEW c \in Fds, WorkerClose(c) PROVE Fresh'
  <2>1. /\ jobs[c] > 0 /\ jobs' = [jobs EXCEPT ![c] = @ - 1] /\ sock' = [sock EXCEPT ![c] = "none"]
        /\ UNCHANGED <<fd_arr, fd_count, mpc, idx>>
    BY <1>7 DEF WorkerClose, JobDone, arrVars, loopVars
  <2>2. jobs[c] = 1 BY <1>0, <2>1 DEF Owned
  <2>3. \A d \in Fds : jobs'[d] = IF d = c THEN 0 ELSE jobs[d] BY <1>0, <2>1, <2>2
  <2>4. \A d \in Fds : d # c => sock'[d] = sock[d] BY <1>0, <2>1
  <2>5. \A i : ((Live(i))' <=> Live(i)) /\ ((Dropped(i))' <=> Dropped(i)) BY <2>1 DEF Live, Dropped
  <2>6. \A i \in 1..fd_count : Live(i) /\ ~Dropped(i) /\ FdAt(i) \in Fds => sock'[FdAt(i)] # "none"
    BY <2>2, <2>4 DEF Owned, Fresh
  <2>7. \A d \in Fds : jobs'[d] > 0 => sock'[d] # "none" BY <2>3, <2>4 DEF Fresh
  <2> QED BY <2>1, <2>5, <2>6, <2>7 DEF Fresh, FdAt
<1>8. ASSUME NEW c \in Fds, WorkerReturn(c) PROVE Fresh'
  <2>1. /\ jobs[c] > 0 /\ jobs' = [jobs EXCEPT ![c] = @ - 1]
        /\ UNCHANGED <<mpc, idx>>
        /\ \A d \in Fds : sock'[d] = "none" <=> sock[d] = "none"
        /\ NewLast(c) \/ UNCHANGED <<fd_arr, fd_count>>
    BY <1>8, ReturnView
  <2>2. sock'[c] # "none" BY <2>1 DEF Fresh
  <2>3. \A d \in Fds : d # c => jobs'[d] = jobs[d] BY <1>0, <2>1
  <2>4. \A d \in Fds : jobs'[d] > 0 => sock'[d] # "none" BY <2>1, <2>2, <2>3 DEF Fresh
  <2>5. \A i : ((Live(i))' <=> Live(i)) /\ ((Dropped(i))' <=> Dropped(i)) BY <2>1 DEF Live, Dropped
  <2>6. CASE UNCHANGED <<fd_arr, fd_count>> BY <2>1, <2>4, <2>5, <2>6 DEF Fresh, FdAt
  <2>7. CASE NewLast(c)
    <3>1. fd_count' = fd_count + 1 /\ fd_arr'[fd_count + 1].fd = c BY <2>7 DEF NewLast
    <3>2. ASSUME NEW i \in 1..(fd_count + 1), (Live(i) /\ ~Dropped(i))', fd_arr'[i].fd \in Fds
          PROVE  sock'[fd_arr'[i].fd] # "none"
      <4>1. CASE i = fd_count + 1 BY <2>2, <3>1, <4>1
      <4>2. CASE i \in 1..fd_count BY <2>1, <2>5, <2>7, <3>2, <4>2 DEF NewLast, Fresh, FdAt
      <4> QED BY <1>0, <4>1, <4>2
    <3> QED BY <2>4, <3>1, <3>2 DEF Fresh, FdAt
  <2> QED BY <2>1, <2>6, <2>7
<1>9. ASSUME NEW c \in Fds, WorkerUseFreed(c) PROVE Fresh' BY <1>9 DEF WorkerUseFreed
<1>10. ASSUME NEW c \in Fds, Send(c) \/ Hangup(c) PROVE Fresh'
  <2>1. UNCHANGED <<fd_arr, fd_count, mpc, idx, jobs>> BY <1>10 DEF Send, Hangup, arrVars, loopVars
  <2>2. \A d \in Fds : sock[d] # "none" => sock'[d] # "none" BY <1>0, <1>10 DEF Send, Hangup
  <2> QED BY <2>1, <2>2 DEF Fresh, Live, Dropped, FdAt
<1> QED BY <1>1, <1>2, <1>3, <1>4, <1>5, <1>6, <1>7, <1>8, <1>9, <1>10, <1>11, QuietOrLoud DEF Loud

(* No client is forgotten.                                                  *)
LEMMA KeptStep ==
  ASSUME TypeOK, Bounds, Pass, Owned, Closed, fd_mutex = "free" => Kept, fd_mutex' = "free",
         ~freed, ~freed', [Next]_vars
  PROVE  Kept'
<1>0. /\ fd_count \in Nat /\ jobs \in [Fds -> Nat]
      /\ sock \in [Fds -> {"none", "idle", "data", "hup"}]
  BY DEF TypeOK
<1> DEFINE Held(c) == jobs'[c] > 0 \/ \E i \in 1..fd_count' : (Live(i))' /\ fd_arr'[i].fd = c
<1>h. ASSUME \A c \in Fds : sock'[c] # "none" => Held(c) PROVE Kept' BY <1>h DEF Kept, FdAt
<1> HIDE DEF Held
<1>1. CASE Quiet
  <2>1. \A i \in 1..fd_count : (Live(i))' <=> Live(i) BY <1>1 DEF Quiet, Live
  <2>2. \A i \in 1..fd_count : fd_arr'[i].fd = FdAt(i) BY <1>1 DEF Quiet, FdAt
  <2>3. fd_count' = fd_count /\ jobs' = jobs /\ sock' = sock /\ Kept BY <1>1 DEF Quiet
  <2> QED BY <1>h, <2>1, <2>2, <2>3 DEF Kept, Held
<1>2. CASE ScanError
  <2>1. /\ mpc = "entry" /\ mpc' = "drop" /\ UNCHANGED <<fd_arr, fd_count, jobs>>
        /\ sock' = [c \in Fds |-> IF c = FdAt(idx) THEN "none" ELSE sock[c]]
        /\ Kept
    BY <1>2, CloseView DEF FdAt
  <2>2. \A i : (Live(i))' BY <2>1 DEF Live
  <2>3. \A c \in Fds : sock'[c] # "none" => sock[c] # "none" BY <2>1
  <2> QED BY <1>h, <2>1, <2>2, <2>3 DEF Kept, Held, FdAt
<1>11. CASE DropFd
  <2>1. /\ mpc = "drop" /\ mpc' = "scan" /\ fd_count' = fd_count
        /\ UNCHANGED <<jobs, sock>>
        /\ \A i \in 1..fd_count : i # idx => fd_arr'[i].fd = FdAt(i)
        /\ Kept
    BY <1>11, DropView DEF FdAt
  <2>2. \A i : (Live(i))' BY <2>1 DEF Live
  <2>3. ASSUME NEW c \in Fds, sock'[c] # "none" PROVE Held(c)
    <3>1. c # FdAt(idx) BY <2>1, <2>3 DEF Closed
    <3>2. CASE jobs[c] > 0 BY <2>1, <3>2 DEF Held
    <3>3. CASE \E i \in 1..fd_count : FdAt(i) = c
      <4>1. PICK i \in 1..fd_count : FdAt(i) = c BY <3>3
      <4>2. i # idx /\ fd_arr'[i].fd = c BY <2>1, <3>1, <4>1
      <4> QED BY <2>1, <2>2, <4>2 DEF Held
    <3> QED BY <2>1, <2>3, <3>2, <3>3 DEF Kept
  <2> QED BY <1>h, <2>3
<1>3. CASE Register
  <2> DEFINE a == AcceptedFd
  <2>1. /\ a \in Fds /\ NewLast(a) /\ mpc = "entry" /\ mpc' = "scan" /\ jobs' = jobs
        /\ LogLength = 0 => sock' = [sock EXCEPT ![a] = "idle"]
        /\ LogLength # 0 => sock' = sock
        /\ Kept
    BY <1>3, RegisterView
  <2> HIDE DEF a
  <2>2. \A c \in Fds : c # a => sock'[c] = sock[c] BY <1>0, <2>1
  <2>3. \A i : (Live(i))' BY <2>1 DEF Live
  <2>4. fd_count' = fd_count + 1 /\ fd_arr'[fd_count + 1].fd = a /\ fd_count + 1 \in 1..(fd_count + 1)
    BY <1>0, <2>1 DEF NewLast
  <2>5. Held(a) BY <2>3, <2>4 DEF Held
  <2>6. ASSUME NEW c \in Fds, c # a, sock'[c] # "none" PROVE Held(c)
    <3>1. CASE jobs[c] > 0 BY <2>1, <3>1 DEF Held
    <3>2. CASE \E i \in 1..fd_count : FdAt(i) = c
      <4>1. PICK i \in 1..fd_count : FdAt(i) = c BY <3>2
      <4>2. i \in 1..(fd_count + 1) /\ fd_arr'[i].fd = c BY <1>0, <2>1, <4>1 DEF NewLast, FdAt
      <4> QED BY <2>3, <2>4, <4>2 DEF Held
    <3> QED BY <2>1, <2>2, <2>6, <3>1, <3>2 DEF Kept
  <2> QED BY <1>h, <2>5, <2>6
<1>4. CASE Dispatch
  <2> DEFINE a == fd_arr[idx].fd
  <2>1. /\ idx \in 1..fd_count /\ a \in Fds /\ mpc = "entry" /\ mpc' = "remove"
        /\ jobs' = [jobs EXCEPT ![a] = @ + 1] /\ UNCHANGED <<idx, fd_arr, fd_count, sock>> /\ Kept
    BY <1>4, DispatchView
  <2>2. \A d \in Fds : d # a => jobs'[d] = jobs[d] BY <1>0, <2>1
  <2>3. jobs'[a] > 0 BY <1>0, <2>1
  <2>4. \A i : i # idx => (Live(i))' BY <2>1 DEF Live
  <2>5. ASSUME NEW c \in Fds, c # a, sock[c] # "none" PROVE Held(c)
    <3>1. CASE jobs[c] > 0 BY <2>2, <2>5, <3>1 DEF Held
    <3>2. CASE \E i \in 1..fd_count : FdAt(i) = c
      <4>1. PICK i \in 1..fd_count : FdAt(i) = c BY <3>2
      <4>2. i # idx /\ fd_arr'[i].fd = c BY <2>1, <2>5, <4>1 DEF FdAt
      <4> QED BY <2>1, <2>4, <4>2 DEF Held
    <3> QED BY <2>1, <2>5, <3>1, <3>2 DEF Kept
  <2>6. Held(a) BY <2>3 DEF Held
  <2> HIDE DEF a
  <2> QED BY <1>h, <2>1, <2>5, <2>6
<1>5. CASE Remove
  <2>1. /\ idx \in 1..fd_count /\ mpc = "remove" /\ mpc' = "scan" /\ fd_count' = fd_count - 1
        /\ \A i \in 1..(fd_count - 1) : i # idx => fd_arr'[i].fd = FdAt(i)
        /\ idx # fd_count => fd_arr'[idx].fd = FdAt(fd_count)
        /\ jobs' = jobs /\ sock' = sock /\ Kept
    BY <1>5, RemoveView DEF FdAt
  <2>2. \A i : (Live(i))' BY <2>1 DEF Live
  <2>3. ASSUME NEW c \in Fds, sock[c] # "none" PROVE Held(c)
    <3>1. CASE jobs[c] > 0 BY <2>1, <3>1 DEF Held
    <3>2. CASE \E i \in 1..fd_count : Live(i) /\ FdAt(i) = c
      <4>1. PICK i \in 1..fd_count : Live(i) /\ FdAt(i) = c BY <3>2
      <4>2. i # idx BY <2>1, <4>1 DEF Live
      <4>3. CASE i = fd_count
        <5>1. idx \in 1..(fd_count - 1) /\ fd_arr'[idx].fd = c BY <1>0, <2>1, <4>1, <4>2, <4>3
        <5> QED BY <2>1, <2>2, <5>1 DEF Held
      <4>4. CASE i # fd_count
        <5>1. i \in 1..(fd_count - 1) /\ fd_arr'[i].fd = c BY <1>0, <2>1, <4>1, <4>2, <4>4
        <5> QED BY <2>1, <2>2, <5>1 DEF Held
      <4> QED BY <4>3, <4>4
    <3> QED BY <2>1, <2>3, <3>1, <3>2 DEF Kept
  <2> QED BY <1>h, <2>1, <2>3
<1>6. CASE CloseAll BY <1>6 DEF CloseAll
<1>7. ASSUME NEW c \in Fds, WorkerClose(c) PROVE Kept'
  <2>1. /\ jobs' = [jobs EXCEPT ![c] = @ - 1] /\ sock' = [sock EXCEPT ![c] = "none"]
        /\ UNCHANGED <<fd_arr, fd_count, mpc, idx>> /\ Kept
    BY <1>7 DEF WorkerClose, JobDone, arrVars, loopVars
  <2>2. \A d \in Fds : sock'[d] # "none" => d # c /\ sock[d] # "none" /\ jobs'[d] = jobs[d]
    BY <1>0, <2>1
  <2>3. \A i : (Live(i))' <=> Live(i) BY <2>1 DEF Live
  <2> QED BY <1>h, <2>1, <2>2, <2>3 DEF Kept, Held, FdAt
<1>8. ASSUME NEW c \in Fds, WorkerReturn(c) PROVE Kept'
  <2>1. /\ jobs' = [jobs EXCEPT ![c] = @ - 1]
        /\ UNCHANGED <<mpc, idx>> /\ (mpc = "remove" => idx \in 1..fd_count)
        /\ \A d \in Fds : sock'[d] = "none" <=> sock[d] = "none"
        /\ NewLast(c) /\ Kept
    BY <1>8, ReturnView
  <2>2. \A i : (Live(i))' <=> Live(i) BY <2>1 DEF Live
  <2>3. fd_count' = fd_count + 1 /\ fd_arr'[fd_count + 1].fd = c /\ fd_count + 1 \in 1..(fd_count + 1)
    BY <1>0, <2>1 DEF NewLast
  <2>4. Live(fd_count + 1) BY <1>0, <2>1 DEF Live
  <2>5. Held(c) BY <2>2, <2>3, <2>4 DEF Held
  <2>6. ASSUME NEW d \in Fds, d # c, sock'[d] # "none" PROVE Held(d)
    <3>1. jobs'[d] = jobs[d] /\ sock[d] # "none" BY <1>0, <2>1, <2>6
    <3>2. CASE jobs[d] > 0 BY <3>1, <3>2 DEF Held
    <3>3. CASE \E i \in 1..fd_count : Live(i) /\ FdAt(i) = d
      <4>1. PICK i \in 1..fd_count : Live(i) /\ FdAt(i) = d BY <3>3
      <4>2. i \in 1..(fd_count + 1) /\ fd_arr'[i].fd = d BY <1>0, <2>1, <4>1 DEF NewLast, FdAt
      <4> QED BY <2>2, <2>3, <4>1, <4>2 DEF Held
    <3> QED BY <2>1, <3>1, <3>2, <3>3 DEF Kept
  <2> QED BY <1>h, <2>5, <2>6
<1>9. ASSUME NEW c \in Fds, WorkerUseFreed(c) PROVE Kept' BY <1>9 DEF WorkerUseFreed
<1>10. ASSUME NEW c \in Fds, Send(c) \/ Hangup(c) PROVE Kept'
  <2>1. UNCHANGED <<fd_arr, fd_count, fd_mutex, mpc, idx, jobs>> /\ Kept
    BY <1>10 DEF Send, Hangup, arrVars, loopVars
  <2>2. \A d \in Fds : sock'[d] # "none" => sock[d] # "none" BY <1>0, <1>10 DEF Send, Hangup
  <2>3. \A i : (Live(i))' <=> Live(i) BY <2>1 DEF Live
  <2> QED BY <1>h, <2>1, <2>2, <2>3 DEF Kept, Held, FdAt
<1> QED BY <1>1, <1>2, <1>3, <1>4, <1>5, <1>6, <1>7, <1>8, <1>9, <1>10, <1>11, QuietOrLoud DEF Loud

(* The entry about to be dropped names a closed descriptor.                 *)
LEMMA ClosedStep ==
  ASSUME TypeOK, Bounds, Pass, Closed, [Next]_vars
  PROVE  Closed'
<1>0. sock \in [Fds -> {"none", "idle", "data", "hup"}] BY DEF TypeOK
<1>1. CASE Quiet
  <2>1. ASSUME mpc' = "drop" PROVE mpc = "drop" /\ idx' = idx /\ fd_arr'[idx].fd = FdAt(idx) /\ sock' = sock
    BY <1>1, <2>1, DropInUse DEF Quiet, FdAt
  <2> QED BY <2>1 DEF Closed, FdAt
<1>2. CASE ScanError BY <1>2, CloseView DEF Closed, FdAt
<1>3. CASE DropFd \/ Register \/ Dispatch \/ Remove \/ CloseAll
  <2>1. mpc' # "drop" BY <1>3 DEF DropFd, Register, Dispatch, Remove, CloseAll, NextEntry
  <2> QED BY <2>1 DEF Closed
<1>4. ASSUME NEW c \in Fds, WorkerReturn(c) PROVE Closed'
  <2>1. /\ UNCHANGED <<mpc, idx>> /\ \A d \in Fds : sock'[d] = "none" <=> sock[d] = "none"
        /\ NewLast(c) \/ UNCHANGED fd_arr
    BY <1>4, ReturnView
  <2>2. mpc = "drop" => fd_arr'[idx].fd = FdAt(idx) BY <2>1, DropInUse DEF NewLast, FdAt
  <2> QED BY <2>1, <2>2 DEF Closed, FdAt
<1>5. ASSUME NEW c \in Fds, WorkerClose(c) \/ Send(c) \/ Hangup(c) PROVE Closed'
  <2>1. UNCHANGED <<mpc, idx, fd_arr>> BY <1>5 DEF WorkerClose, Send, Hangup, arrVars, loopVars
  <2>2. \A d \in Fds : sock[d] = "none" => sock'[d] = "none"
    BY <1>0, <1>5 DEF WorkerClose, Send, Hangup
  <2> QED BY <2>1, <2>2 DEF Closed, FdAt
<1>6. ASSUME NEW c \in Fds, WorkerUseFreed(c) PROVE Closed' BY <1>6 DEF WorkerUseFreed, Closed
<1> QED BY <1>1, <1>2, <1>3, <1>4, <1>5, <1>6, QuietOrLoud DEF Loud

(* With a log line the server accepts one client, closes it, and ends.      *)
LEMMA AbortedStep ==
  ASSUME TypeOK, Bounds, Pass, LogLength # 0, Aborted, [Next]_vars
  PROVE  Aborted'
<1>0. /\ fd_count \in Nat /\ idx \in Nat /\ local_fd_count \in Nat
      /\ \A c \in Fds : jobs[c] = 0 /\ sock[c] = "none"
  BY DEF TypeOK, Aborted
<1>1. CASE Snapshot
  BY <1>1, <1>0 DEF Snapshot, Scanning, NextEntry, Aborted, arrVars, loopVars, netVars
<1>2. CASE PollReports BY <1>2, <1>0 DEF PollReports, Aborted, netVars
<1>3. CASE PollTimeout
  BY <1>3, <1>0 DEF PollTimeout, Scanning, NextEntry, Aborted, arrVars, loopVars, netVars
<1>4. CASE PollFails
  BY <1>4, <1>0 DEF PollFails, Scanning, NextEntry, Aborted, arrVars, loopVars, netVars
<1>5. CASE HandleBegin
  BY <1>5, <1>0 DEF HandleBegin, Scanning, NextEntry, Aborted, arrVars, loopVars, netVars
<1>6. CASE FetchEntry
  BY <1>6, <1>0 DEF FetchEntry, Scanning, NextEntry, Aborted, arrVars, loopVars, netVars
<1>7. CASE UseFreedEntry
  BY <1>7, <1>0 DEF UseFreedEntry, Scanning, NextEntry, Aborted, arrVars, loopVars, netVars
<1>8. CASE ScanError
  <2>1. \A c \in Fds : sock'[c] = "none" BY <1>8, <1>0 DEF ScanError
  <2> QED BY <1>8, <1>0, <2>1 DEF ScanError, Scanning, Aborted, arrVars
<1>26. CASE DropFd BY <1>26, <1>0 DEF DropFd, NextEntry, Aborted, netVars
<1>9. CASE ScanSkip
  BY <1>9, <1>0 DEF ScanSkip, Scanning, NextEntry, Aborted, arrVars, loopVars, netVars
<1>10. CASE Register
  <2>1. AcceptedFd \in Fds BY <1>10, AcceptedIsFree DEF Register
  <2>2. fd_count' = fd_count + 1 BY <1>10 DEF Register, sock_fd_add
  <2>3. mpc = "entry" /\ mpc' = "scan" /\ idx' = idx + 1 BY <1>10 DEF Register, Scanning, NextEntry
  <2>4. fd_count = 1 /\ local_fd_count = 1 BY <2>3 DEF Aborted
  <2>5. idx >= 1 BY <2>3 DEF Pass, InPass
  <2>6. UNCHANGED <<jobs, sock, local_fd_count>> /\ exit_code' = "E_FAILURE" BY <1>10 DEF Register
  <2>7. fd_count' = 2 /\ idx' > local_fd_count' BY <1>0, <2>2, <2>3, <2>4, <2>5, <2>6
  <2> QED BY <1>0, <2>3, <2>4, <2>6, <2>7 DEF Aborted
<1>11. CASE NothingToAccept
  BY <1>11, <1>0 DEF NothingToAccept, Scanning, NextEntry, Aborted, arrVars, loopVars, netVars
<1>12. CASE RegisterFails
  <2>1. UNCHANGED fd_count BY <1>12 DEF RegisterFails, sock_fd_add_fails, arrVars
  <2> QED BY <1>12, <1>0, <2>1 DEF RegisterFails, Scanning, NextEntry, Aborted
<1>13. CASE Dispatch
  <2>1. mpc = "entry" /\ fd_arr[idx].revents # "none" /\ FdAt(idx) \in Fds
    BY <1>13 DEF Dispatch, Scanning, FdAt
  <2>2. idx \in 1..fd_count BY <2>1, InUse
  <2>3. idx # 1 BY <2>1 DEF Bounds
  <2>4. fd_count = 1 BY <2>1 DEF Aborted
  <2> QED BY <2>2, <2>3, <2>4
<1>14. CASE DispatchFails
  BY <1>14, <1>0 DEF DispatchFails, Scanning, NextEntry, Aborted, arrVars, loopVars, netVars
<1>15. CASE Remove
  <2>1. idx \in 1..fd_count /\ idx # 1 BY <1>15, RemoveInUse DEF Remove
  <2>2. fd_count = 1 BY <1>15 DEF Remove, Aborted
  <2> QED BY <2>1, <2>2
<1>16. CASE ScanEnd
  BY <1>16, <1>0 DEF ScanEnd, Scanning, NextEntry, Aborted, arrVars, loopVars, netVars
<1>17. CASE CloseAll
  <2>1. \A c \in Fds : sock'[c] = "none" BY <1>17, <1>0 DEF CloseAll
  <2> QED BY <1>17, <1>0, <2>1 DEF CloseAll, Aborted
<1>18. CASE DeliverSignal
  <2>1. mpc' = mpc \/ (mpc = "poll" /\ mpc' = "loop") BY <1>18 DEF DeliverSignal
  <2> QED BY <1>18, <1>0, <2>1 DEF DeliverSignal, Aborted, arrVars, netVars
<1>19. CASE Connect
  BY <1>19, <1>0 DEF Connect, Scanning, NextEntry, Aborted, arrVars, loopVars, netVars
<1>20. ASSUME NEW c \in Fds, WorkerClose(c) PROVE Aborted'
  BY <1>20, <1>0 DEF WorkerClose, JobDone
<1>21. ASSUME NEW c \in Fds, WorkerReturn(c) PROVE Aborted'
  BY <1>21, <1>0 DEF WorkerReturn, JobDone
<1>22. ASSUME NEW c \in Fds, WorkerUseFreed(c) PROVE Aborted'
  BY <1>22, <1>0 DEF WorkerUseFreed, JobDone
<1>23. ASSUME NEW c \in Fds, Send(c) PROVE Aborted'
  BY <1>23, <1>0 DEF Send
<1>24. ASSUME NEW c \in Fds, Hangup(c) PROVE Aborted'
  BY <1>24, <1>0 DEF Hangup
<1>25. CASE UNCHANGED vars BY <1>25, <1>0 DEF vars, Aborted, arrVars, loopVars, netVars
<1> QED
  BY <1>1, <1>2, <1>3, <1>4, <1>5, <1>6, <1>7, <1>8, <1>9, <1>10, <1>11, <1>12, <1>13, <1>14,
     <1>15, <1>16, <1>17, <1>18, <1>19, <1>20, <1>21, <1>22, <1>23, <1>24, <1>25, <1>26
  DEF Next, MainStep, WorkerStep

----------------------------------------------------------------------------
(* The server starts with the listening socket only.                        *)
LEMMA HandlerInit == Init => HandlerInv
<1> SUFFICES ASSUME Init PROVE HandlerInv OBVIOUS
<1> DEFINE slot(i) == [fd |-> IF i = 1 THEN ServerFd ELSE 0, revents |-> "none"]
<1>1. Capacity \in Nat /\ Capacity >= 1 BY HandlerConstants
<1>2. \A i \in 1..Capacity : slot(i) \in Entry BY EntryFacts, FdFacts DEF Revents
<1>3. fd_arr = [i \in 1..Capacity |-> slot(i)] BY DEF Init, sock_fd_arr_init
<1>4. slot(1).fd = ServerFd OBVIOUS
<1> HIDE DEF slot
<1>5. fd_arr \in [1..Capacity -> Entry] BY <1>2, <1>3
<1>6. fd_arr \in Seq(Entry) /\ Len(fd_arr) = Capacity BY <1>1, <1>5
<1>7. 1 \in 1..Capacity BY <1>1
<1>8. FdAt(1) = ServerFd BY <1>3, <1>4, <1>7 DEF FdAt
<1>9. fd_count = 1 /\ jobs = [c \in Fds |-> 0] /\ sock = [c \in Fds |-> "none"] BY DEF Init
<1>10. ArrayTyped BY <1>1, <1>6, <1>9 DEF ArrayTyped
<1>11. FlagsTyped BY DEF Init, SignalInit, SignalTypeOK, FlagsTyped
<1>12. CountsTyped BY HandlerConstants DEF Init, CountsTyped
<1>13. ClientsTyped BY <1>9 DEF ClientsTyped
<1>14. TypeOK BY <1>10, <1>11, <1>12, <1>13, TypeParts
<1>15. Bounds BY <1>8, <1>9, <1>12, FdFacts DEF Bounds, CountsTyped, Init
<1>16. Pass BY DEF Init, Pass, InPass
<1>17. \A i \in 1..fd_count : FdAt(i) \notin Fds BY <1>8, <1>9, FdFacts
<1>18. Owned BY <1>9, <1>17 DEF Owned
<1>19. Fresh BY <1>9, <1>17 DEF Fresh
<1>20. Kept BY <1>9 DEF Kept
<1>21. Aborted BY <1>9 DEF Aborted, Init
<1>22. Closed BY DEF Init, Closed
<1> QED BY <1>14, <1>15, <1>16, <1>18, <1>19, <1>20, <1>21, <1>22 DEF HandlerInv

(* What was freed stays freed.                                              *)
LEMMA FreedStays ==
  ASSUME TypeOK, Bounds, Pass, [Next]_vars, freed
  PROVE  freed'
<1>1. CASE Quiet BY <1>1 DEF Quiet
<1>2. mpc \in {"closed", "undefined"} BY DEF Bounds
<1>3. CASE Loud
  BY <1>2, <1>3 DEF Loud, ScanError, DropFd, Register, Scanning, Dispatch, Remove, CloseAll, WorkerClose,
     WorkerReturn, WorkerUseFreed, Send, Hangup, Listening, arrVars
<1> QED BY <1>1, <1>3, QuietOrLoud

(* So does undefined.                                                       *)
LEMMA UndefinedStays ==
  ASSUME [Next]_vars, mpc = "undefined"
  PROVE  mpc' = "undefined"
<1>1. ~MainStep
  BY DEF MainStep, Snapshot, PollReports, PollTimeout, PollFails, HandleBegin, FetchEntry,
     UseFreedEntry, ScanError, DropFd, ScanSkip, Register, NothingToAccept, RegisterFails,
     Dispatch, DispatchFails, Remove, ScanEnd, CloseAll, Scanning
<1>2. ~DeliverSignal /\ ~Connect /\ \A c \in Fds : ~Send(c) /\ ~Hangup(c) /\ ~WorkerStep(c)
  BY DEF DeliverSignal, Connect, Send, Hangup, Listening, WorkerStep, WorkerClose, WorkerReturn,
     WorkerUseFreed, JobDone
<1> QED BY <1>1, <1>2 DEF Next, vars, loopVars

(* Every step preserves the invariant.                                      *)
LEMMA HandlerStep == HandlerInv /\ [Next]_vars => HandlerInv'
<1> SUFFICES ASSUME HandlerInv, [Next]_vars PROVE HandlerInv' OBVIOUS
<1>1. TypeOK /\ Bounds /\ Pass BY DEF HandlerInv
<1>2. TypeOK'
  <2>1. backlog <= connects BY <1>1 DEF Bounds
  <2>2. (ArrayTyped /\ FlagsTyped /\ CountsTyped /\ ClientsTyped)'
    BY <1>1, <2>1, ArrayStep, FlagsStep, CountsStep, ClientsStep
  <2> QED BY <2>2, TypePartsNext
<1>3. Bounds' BY <1>1, BoundsStep
<1>4. Pass' BY <1>1, PassStep
<1>5. ~freed' => ~freed BY <1>1, FreedStays
<1>6. ASSUME ~freed' PROVE Owned'
  <2>1. Owned /\ (LogLength = 0 /\ mpc # "undefined" => Fresh) /\ (LogLength # 0 => Aborted)
    BY <1>5, <1>6 DEF HandlerInv
  <2> QED BY <1>1, <1>5, <1>6, <2>1, OwnedStep
<1>7. ASSUME LogLength = 0, ~freed', mpc' # "undefined" PROVE Fresh'
  <2>0. mpc # "undefined" BY <1>7, UndefinedStays
  <2>1. Owned /\ Fresh BY <1>5, <1>7, <2>0 DEF HandlerInv
  <2> QED BY <1>1, <1>5, <1>7, <2>1, FreshStep
<1>8. ASSUME LogLength # 0 PROVE Aborted' BY <1>1, <1>8, AbortedStep DEF HandlerInv
<1>9. ASSUME ~freed', fd_mutex' = "free" PROVE Kept'
  <2>1. Owned /\ Closed /\ (fd_mutex = "free" => Kept) BY <1>5, <1>9 DEF HandlerInv
  <2> QED BY <1>1, <1>5, <1>9, <2>1, KeptStep
<1>10. Closed' BY <1>1, ClosedStep DEF HandlerInv
<1> QED BY <1>2, <1>3, <1>4, <1>6, <1>7, <1>8, <1>9, <1>10 DEF HandlerInv

(* Whatever the clients, the workers, signals and failing calls do, the     *)
(* array, the pass of handle_connections over it and the jobs fit together. *)
THEOREM HandlerInvariant == Spec => []HandlerInv
<1>1. Init => HandlerInv BY HandlerInit
<1>2. HandlerInv /\ [Next]_vars => HandlerInv' BY HandlerStep
<1> QED BY <1>1, <1>2, PTL DEF Spec

(* A set without two different members has at most one.                     *)
LEMMA AtMostOne ==
  ASSUME NEW S, \A x, y \in S : x = y
  PROVE  Cardinality(S) \in {0, 1} /\ (Cardinality(S) = 1 => S # {})
<1>1. CASE S = {} BY <1>1, FS_EmptySet
<1>2. CASE S # {}
  <2>1. PICK x \in S : TRUE BY <1>2
  <2>2. S = {x} BY <2>1
  <2>3. Cardinality(S) = 1 BY <2>2, FS_Singleton
  <2> QED BY <1>2, <2>3
<1> QED BY <1>1, <1>2

(* EntriesOf in terms of the proof's Live and FdAt.                         *)
LEMMA EntriesAre ==
  \A c, i : i \in EntriesOf(c) <=> i \in 1..fd_count /\ Live(i) /\ FdAt(i) = c
BY DEF EntriesOf, Live, FdAt

(* The invariant implies the property.                                      *)
LEMMA InvOneOwner == HandlerInv => OneOwner
<1> SUFFICES ASSUME HandlerInv PROVE OneOwner OBVIOUS
<1>1. TypeOK BY DEF HandlerInv
<1>2. ASSUME ~freed, NEW c \in Fds PROVE Cardinality(EntriesOf(c)) + jobs[c] <= 1
  <2>1. Owned BY <1>2 DEF HandlerInv
  <2>2. \A i, j \in EntriesOf(c) : i = j BY <2>1, EntriesAre DEF Owned
  <2>3. EntriesOf(c) # {} => jobs[c] = 0 BY <2>1, EntriesAre DEF Owned
  <2>4. jobs[c] \in {0, 1} BY <2>1 DEF Owned
  <2>5. Cardinality(EntriesOf(c)) \in {0, 1} /\ (Cardinality(EntriesOf(c)) = 1 => EntriesOf(c) # {})
    BY <2>2, AtMostOne
  <2> QED BY <2>3, <2>4, <2>5
<1> QED BY <1>1, <1>2 DEF OneOwner

(* A client has one entry or one job, never both and never two of them,     *)
(* although a worker may put it back before handle_client_event has called  *)
(* sock_fd_remove, and whatever that call moves into the free slot.         *)
THEOREM HandlerOneOwner == Spec => []OneOwner
BY HandlerInvariant, InvOneOwner, PTL

(* The invariant implies the property.                                      *)
LEMMA InvNoClientLost == HandlerInv => NoClientLost
<1> SUFFICES ASSUME HandlerInv, ~freed, fd_mutex = "free", NEW c \in Fds, sock[c] # "none"
             PROVE  EntriesOf(c) # {} \/ jobs[c] > 0
  BY DEF NoClientLost
<1>1. Kept BY DEF HandlerInv
<1> QED BY <1>1, EntriesAre DEF Kept

(* As long as no error path has kept fd_mutex, every client that is not     *)
(* closed has an entry or a job: neither the swap of sock_fd_remove nor the *)
(* growth of sock_fd_add drops one.                                         *)
THEOREM HandlerNoClientLost == Spec => []NoClientLost
BY HandlerInvariant, InvNoClientLost, PTL

(* The invariant implies the property.                                      *)
LEMMA InvPollsOnlyOpen == HandlerInv => PollsOnlyOpen
<1> SUFFICES ASSUME HandlerInv, mpc \in {"loop", "poll", "handle"}, NEW i \in 1..fd_count,
                    FdAt(i) \in Fds
             PROVE  sock[FdAt(i)] # "none"
  BY DEF PollsOnlyOpen, FdAt
<1>1. ~freed BY DEF HandlerInv, Bounds
<1>2. Live(i) /\ ~Dropped(i) BY DEF Live, Dropped
<1>3. CASE LogLength = 0 BY <1>1, <1>2, <1>3 DEF HandlerInv, Fresh
<1>4. CASE LogLength # 0
  <2>1. fd_count = 1 BY <1>4 DEF HandlerInv, Aborted
  <2>2. i = 1 BY <2>1
  <2> QED BY <2>2 DEF HandlerInv, Bounds
<1> QED BY <1>3, <1>4

(* poll is never given a closed descriptor, whatever snprintf returns: an   *)
(* entry whose socket failed has lost its descriptor by then, and the entry *)
(* that register_client leaves behind ends the loop with its pass.          *)
THEOREM HandlerPollsOnlyOpen == Spec => []PollsOnlyOpen
BY HandlerInvariant, InvPollsOnlyOpen, PTL
=============================================================================
