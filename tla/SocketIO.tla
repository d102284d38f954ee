------------------------------ MODULE SocketIO ------------------------------
(***************************************************************************)
(* libs/Networking/common, socket_io.c: send_all_data and recv_all_data     *)
(* (and the one-call send_data and recv_data) at the two ends of a TCP      *)
(* connection.                                                              *)
(*                                                                         *)
(* The sender sends Messages one after the other and the receiver receives  *)
(* as many bytes for each.  A byte is its place: the message and the index. *)
(* The kernel holds up to WireSize bytes on the way; send and recv transfer *)
(* as many as they like of what they are asked for.  A call that finds no   *)
(* room, or nothing to read, blocks, or fails with EAGAIN on a non-blocking *)
(* socket; a signal interrupts it (EINTR: the handlers are installed        *)
(* without SA_RESTART).  To the code each of these is the same -1.          *)
(*                                                                         *)
(* Callers are told E_FAILURE and not how far the transfer got; they may    *)
(* repeat the call or close the socket.  A send to a socket that the other  *)
(* end has closed may still be taken by the kernel, fail with ECONNRESET,   *)
(* or raise SIGPIPE, which nothing in the repository handles: the sender's  *)
(* process ends.                                                            *)
(*                                                                         *)
(* send_data and recv_data take no length and ask for sizeof(buffer_p), the *)
(* size of a pointer; their buffers are taken to have that many bytes.      *)
(***************************************************************************)
EXTENDS Integers, Sequences

CONSTANTS
  Messages,    \* <<[api, len], ...>>
  PointerSize, \* sizeof(buffer_p)
  MAX_BYTES,   \* most bytes of one send or recv
  WireSize,    \* bound: bytes in the kernel's buffers
  MaxErrors    \* bound: calls interrupted or failed for another reason

Message == [api : {"all"}, len : Nat \ {0}] \union [api : {"data"}, len : {PointerSize}]

ASSUME SocketConstants ==
  /\ PointerSize \in Nat \ {0} /\ Messages \in Seq(Message)
  /\ MAX_BYTES \in Nat \ {0} /\ WireSize \in Nat \ {0} /\ MaxErrors \in Nat

VARIABLES
  nonblocking,            \* set_fd_non_blocking was called on both sockets
  wire,                   \* bytes sent and not yet received
  spc, sidx, sent,        \* the sender: its state, its message, total_bytes_sent
  rpc, ridx, buffer,      \* the receiver: its state, its message, its buffer
  sres, rres,             \* what the last call of each returned
  errors,                 \* calls failed so far
  cut                     \* history: a message was cut by a repeated call or
                          \* by a short transfer nobody noticed

sendVars == <<spc, sidx, sent, sres>>
recvVars == <<rpc, ridx, buffer, rres>>
vars == <<nonblocking, wire, sendVars, recvVars, errors, cut>>

Bytes   == (1..Len(Messages)) \X (Nat \ {0})
Results == {"none", "E_SUCCESS", "E_FAILURE", "E_CONNECTION_CLOSED", "printed"}

TypeOK ==
  /\ nonblocking \in BOOLEAN /\ cut \in BOOLEAN /\ errors \in 0..MaxErrors
  /\ wire \in Seq(Bytes) /\ Len(wire) <= WireSize
  /\ spc \in {"idle", "busy", "closed", "killed"} /\ rpc \in {"idle", "busy", "closed"}
  /\ sidx \in 1..(Len(Messages) + 1) /\ ridx \in 1..(Len(Messages) + 1)
  /\ sent \in Nat /\ buffer \in Seq(Bytes)
  /\ sres \in Results /\ rres \in Results

Init ==
  /\ nonblocking \in BOOLEAN
  /\ wire = <<>> /\ errors = 0 /\ cut = FALSE
  /\ spc = "idle" /\ sidx = 1 /\ sent = 0 /\ sres = "none"
  /\ rpc = "idle" /\ ridx = 1 /\ buffer = <<>> /\ rres = "none"

----------------------------------------------------------------------------
(* Mutant: a full chunk is asked for whatever remains.                      *)
calculate_chunk_max(bytes_to_process, bytes_processed) == MAX_BYTES

calculate_chunk(bytes_to_process, bytes_processed) ==
  IF MAX_BYTES < bytes_to_process - bytes_processed
    THEN MAX_BYTES ELSE bytes_to_process - bytes_processed

(* The n bytes of message m that start behind the first pos.                *)
BytesAt(m, pos, n) == [i \in 1..n |-> <<m, pos + i>>]

(* Mutant: the bytes sent are not skipped.                                  *)
SendPosition_start == 0

(* position = byte_buffer + total_bytes_sent                                *)
SendPosition == sent

Room     == WireSize - Len(wire)
Want(len, done, api) == IF api = "data" THEN len ELSE calculate_chunk(len, done)
Smaller(m, n) == IF m < n THEN m ELSE n

----------------------------------------------------------------------------
(* A call of send_all_data or send_data.  After a failure it is a repeated  *)
(* call: it starts the message again.                                       *)
SendCall ==
  /\ spc = "idle" /\ sidx <= Len(Messages)
  /\ spc' = "busy" /\ sent' = 0
  /\ cut' = (cut \/ sent > 0)
  /\ UNCHANGED <<nonblocking, wire, sidx, sres, recvVars, errors>>

SendReturns(result) ==
  /\ spc' = "idle" /\ sres' = result

(* send takes n bytes; send_all_data goes on until it has sent all,         *)
(* send_data is content with what it got.  Behind a receiver that has       *)
(* closed its socket the bytes stay on the wire.                            *)
SendSome ==
  /\ spc = "busy" /\ Room > 0
  /\ LET msg == Messages[sidx] IN
     \E n \in 1..Smaller(Room, Want(msg.len, sent, msg.api)) :
       /\ wire' = wire \o BytesAt(sidx, SendPosition, n)
       /\ IF msg.api = "data" \/ sent + n >= msg.len
            THEN SendReturns("E_SUCCESS") /\ sidx' = sidx + 1 /\ sent' = 0
            ELSE sent' = sent + n /\ UNCHANGED <<spc, sidx, sres>>
       /\ cut' = (cut \/ (msg.api = "data" /\ n < msg.len))
  /\ UNCHANGED <<nonblocking, recvVars, errors>>

(* send returns -1: EAGAIN, ECONNRESET, EINTR or another error.  (It never  *)
(* returns 0 when asked to send something: the code for that is not         *)
(* reached.)                                                                *)
SendFails ==
  /\ spc = "busy"
  /\ \/ nonblocking /\ Room = 0 /\ UNCHANGED errors
     \/ rpc = "closed" /\ UNCHANGED errors
     \/ errors < MaxErrors /\ errors' = errors + 1
  /\ SendReturns("E_FAILURE")
  /\ UNCHANGED <<nonblocking, wire, sidx, sent, recvVars, cut>>

SendKilled ==
  /\ spc = "busy" /\ rpc = "closed"
  /\ spc' = "killed"
  /\ UNCHANGED <<nonblocking, wire, sidx, sent, sres, recvVars, errors, cut>>

SenderCloses ==
  /\ spc = "idle" /\ spc' = "closed"
  /\ UNCHANGED <<nonblocking, wire, sidx, sent, sres, recvVars, errors, cut>>

----------------------------------------------------------------------------
(* A message has been received and not yet been used.                       *)
Pending == rres = "E_SUCCESS" /\ buffer # <<>>

RecvCall ==
  /\ rpc = "idle" /\ ridx <= Len(Messages) /\ ~Pending
  /\ rpc' = "busy" /\ buffer' = <<>>
  /\ cut' = (cut \/ buffer # <<>>)
  /\ UNCHANGED <<nonblocking, wire, ridx, rres, sendVars, errors>>

RecvReturns(result) == rpc' = "idle" /\ rres' = result

(* recv delivers n bytes at the position behind those already received.     *)
RecvSome ==
  /\ rpc = "busy" /\ wire # <<>>
  /\ LET msg == Messages[ridx] IN
     \E n \in 1..Smaller(Len(wire), Want(msg.len, Len(buffer), msg.api)) :
       /\ buffer' = buffer \o SubSeq(wire, 1, n)
       /\ wire' = SubSeq(wire, n + 1, Len(wire))
       /\ IF msg.api = "data" \/ Len(buffer) + n >= msg.len
            THEN RecvReturns("E_SUCCESS") ELSE UNCHANGED <<rpc, rres>>
       /\ cut' = (cut \/ (msg.api = "data" /\ n < msg.len))
  /\ UNCHANGED <<nonblocking, ridx, sendVars, errors>>

RecvFails ==
  /\ rpc = "busy"
  /\ \/ nonblocking /\ wire = <<>> /\ spc \notin {"closed", "killed"} /\ UNCHANGED errors
     \/ errors < MaxErrors /\ errors' = errors + 1
  /\ RecvReturns("E_FAILURE")
  /\ UNCHANGED <<nonblocking, wire, ridx, buffer, sendVars, cut>>

(* Mutants: a hang-up ends the loop as if all had come; the loop goes on.   *)
RecvHangup_success ==
  /\ rpc = "busy" /\ wire = <<>> /\ spc \in {"closed", "killed"}
  /\ RecvReturns("E_SUCCESS")
  /\ UNCHANGED <<nonblocking, wire, ridx, buffer, sendVars, errors, cut>>

RecvHangup_goes_on ==
  /\ rpc = "busy" /\ wire = <<>> /\ spc \in {"closed", "killed"}
  /\ UNCHANGED vars

(* recv returns 0.  recv_data returns what fprintf printed.                 *)
RecvHangup ==
  /\ rpc = "busy" /\ wire = <<>> /\ spc \in {"closed", "killed"}
  /\ RecvReturns(IF Messages[ridx].api = "data" THEN "printed" ELSE "E_CONNECTION_CLOSED")
  /\ UNCHANGED <<nonblocking, wire, ridx, buffer, sendVars, errors, cut>>

(* The caller uses the message it received and turns to the next ...        *)
Consume ==
  /\ rpc = "idle" /\ Pending
  /\ ridx' = ridx + 1 /\ buffer' = <<>>
  /\ UNCHANGED <<nonblocking, wire, rpc, rres, sendVars, errors, cut>>

(* ... or closes the socket.                                                *)
ReceiverCloses ==
  /\ rpc = "idle" /\ rpc' = "closed"
  /\ UNCHANGED <<nonblocking, wire, ridx, buffer, rres, sendVars, errors, cut>>

----------------------------------------------------------------------------
SendStep == SendSome \/ SendFails \/ SendKilled
RecvStep == RecvSome \/ RecvFails \/ RecvHangup

Next ==
  \/ SendStep \/ SendCall \/ SenderCloses
  \/ RecvStep \/ RecvCall \/ Consume \/ ReceiverCloses

Spec == Init /\ [][Next]_vars

(* The two processes run; their calls are their own affair.                 *)
FairSpec == Spec /\ WF_vars(SendStep) /\ WF_vars(RecvStep)

----------------------------------------------------------------------------
(* The byte behind b in the messages one after the other.                   *)
Following(b) ==
  IF b[2] < Messages[b[1]].len THEN <<b[1], b[2] + 1>> ELSE <<b[1] + 1, 1>>

(* What the receiver has got of its message, what is on the way, and the    *)
(* byte that the sender comes to next.                                      *)
Stream == buffer \o wire \o <<<<sidx, sent + 1>>>>

(* However send and recv cut the stream into pieces, the buffer and what is *)
(* on the way are the bytes from the receiver's message on up to where the  *)
(* sender is, each once and in their order: each message arrives in its own *)
(* buffer.  It holds as long as no failed call that had already transferred *)
(* something was repeated, and no short transfer of send_data or recv_data  *)
(* happened.                                                                *)
StreamIntact ==
  ~cut =>
    /\ Stream[1] = <<ridx, 1>>
    /\ \A i \in 1..(Len(Stream) - 1) : Stream[i + 1] = Following(Stream[i])

(* recv never writes behind the buffer of bytes_to_recv bytes, and send     *)
(* never reads behind its own, although a chunk may be larger than either.  *)
WithinBuffer ==
  /\ TypeOK
  /\ ridx <= Len(Messages) => Len(buffer) <= Messages[ridx].len
  /\ \A i \in DOMAIN wire : wire[i][2] <= Messages[wire[i][1]].len

(* E_SUCCESS of recv_all_data means that all the bytes asked for are there; *)
(* E_CONNECTION_CLOSED that the other end is gone, nothing is on the way    *)
(* and the message is not complete.                                         *)
ResultsTell ==
  (rpc = "idle" /\ ridx <= Len(Messages) /\ Messages[ridx].api = "all") =>
    /\ Pending => Len(buffer) = Messages[ridx].len
    /\ rres = "E_CONNECTION_CLOSED" =>
         spc \in {"closed", "killed"} /\ wire = <<>> /\ Len(buffer) < Messages[ridx].len

(* A receiver learns that the other end is gone: its call ends.             *)
HangupNoticed ==
  (rpc = "busy" /\ spc \in {"closed", "killed"}) ~> rpc # "busy"
=============================================================================
