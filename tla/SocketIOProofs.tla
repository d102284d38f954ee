--------------------------- MODULE SocketIOProofs ---------------------------
(***************************************************************************)
(* What holds of send_all_data and recv_all_data for every list of messages,*)
(* every chunk size and every size of the kernel's buffers.                 *)
(*                                                                         *)
(* That the bytes follow one another is not enough to prove it: to see that *)
(* a whole message is in the buffer when its length is reached takes an     *)
(* induction over the bytes.  InPlace says the same of every two bytes: how *)
(* far apart they are in the stream tells the later one from the earlier.   *)
(***************************************************************************)
EXTENDS SocketIO, TLAPS

LenOf(m) == Messages[m].len
ApiOf(m) == Messages[m].api

(* The sender is inside its message, and send_data never in the middle.     *)
Sender ==
  /\ spc = "busy" => sidx <= Len(Messages)
  /\ sidx <= Len(Messages) => sent < LenOf(sidx) /\ (ApiOf(sidx) = "data" => sent = 0)
  /\ sidx > Len(Messages) => sent = 0

(* So is the receiver; a message it has received is whole.                  *)
Receiver ==
  /\ rpc = "busy" =>
       /\ ridx <= Len(Messages) /\ Len(buffer) < LenOf(ridx)
       /\ ApiOf(ridx) = "data" => buffer = <<>>
  /\ ridx <= Len(Messages) => Len(buffer) <= LenOf(ridx)
  /\ ridx > Len(Messages) => buffer = <<>>
  /\ rpc = "idle" /\ Pending /\ (ApiOf(ridx) = "all" \/ ~cut) => Len(buffer) = LenOf(ridx)

OnWire == \A i \in 1..Len(wire) : wire[i][2] <= LenOf(wire[i][1])

HungUp ==
  rpc = "idle" /\ rres = "E_CONNECTION_CLOSED" =>
    /\ spc \in {"closed", "killed"} /\ wire = <<>>
    /\ ridx <= Len(Messages) /\ Len(buffer) < LenOf(ridx)

Byte(m, p) == <<m, p>>
MsgOf(b)   == b[1]
PosOf(b)   == b[2]

(* c is d bytes behind b, as far as b's message and the first byte of the   *)
(* next one reach.                                                          *)
Ahead(b, c, d) ==
  /\ PosOf(b) + d <= LenOf(MsgOf(b)) => c = Byte(MsgOf(b), PosOf(b) + d)
  /\ PosOf(b) + d = LenOf(MsgOf(b)) + 1 => c = Byte(MsgOf(b) + 1, 1)

InOrder(s) == \A i, j \in 1..Len(s) : i < j => Ahead(s[i], s[j], j - i)

InPlace == ~cut => Stream[1] = Byte(ridx, 1) /\ InOrder(Stream)

SockInv == TypeOK /\ Sender /\ Receiver /\ OnWire /\ HungUp /\ InPlace

----------------------------------------------------------------------------
(* The length and the kind of a message.                                    *)
LEMMA MessageFacts ==
  ASSUME NEW m \in 1..Len(Messages)
  PROVE  LenOf(m) \in Nat \ {0} /\ ApiOf(m) \in {"all", "data"}
<1>1. Messages[m] \in Message BY SocketConstants
<1>2. CASE Messages[m] \in [api : {"all"}, len : Nat \ {0}] BY <1>2 DEF LenOf, ApiOf
<1>3. CASE Messages[m] \in [api : {"data"}, len : {PointerSize}]
  BY <1>3, SocketConstants DEF LenOf, ApiOf
<1> QED BY <1>1, <1>2, <1>3 DEF Message

(* A chunk is never empty and never reaches behind the message.             *)
LEMMA ChunkFits ==
  ASSUME NEW len \in Nat, NEW done \in Nat, done < len
  PROVE  calculate_chunk(len, done) \in 1..(len - done)
BY SocketConstants DEF calculate_chunk

(* A byte is its message and its place.                                     *)
LEMMA ByteFacts ==
  ASSUME NEW m, NEW p
  PROVE  /\ MsgOf(Byte(m, p)) = m /\ PosOf(Byte(m, p)) = p
         /\ \A q, k : Byte(m, p) = Byte(q, k) => m = q /\ p = k
BY DEF MsgOf, PosOf, Byte

(* The first L bytes of s and t are the same, and of messages we know;      *)
(* behind them t has the n bytes that follow <<m, p>>, and the byte the     *)
(* sender comes to next.                                                    *)
SameFront(s, t, L) == \A i \in 1..(L - 1) : t[i] = s[i]
KnownFront(s, L)   == \A i \in 1..(L - 1) : MsgOf(s[i]) \in 1..Len(Messages) /\ PosOf(s[i]) \in Nat
NewBytes(t, L, n, m, p) == \A k \in 1..n : t[L - 1 + k] = Byte(m, p + k)
NewCursor(c, m, p) ==
  c = IF p = LenOf(m) THEN Byte(m + 1, 1) ELSE Byte(m, p + 1)

(* The stream stays in order when the sender goes on by n bytes.            *)
LEMMA SenderGoesOn ==
  ASSUME NEW s, NEW t, NEW n \in Nat \ {0}, NEW L \in Nat \ {0},
         NEW m \in 1..Len(Messages), NEW p \in Nat,
         L = Len(s), Len(t) = L + n, p + n <= LenOf(m), s[L] = Byte(m, p + 1),
         KnownFront(s, L), SameFront(s, t, L),
         NewBytes(t, L, n, m, p), NewCursor(t[L + n], m, p + n),
         InOrder(s)
  PROVE  InOrder(t)
<1> SUFFICES ASSUME NEW i \in 1..(L + n), NEW j \in 1..(L + n), i < j
             PROVE  Ahead(t[i], t[j], j - i)
  BY DEF InOrder
<1>0. LenOf(m) \in Nat BY MessageFacts
<1>1. ASSUME NEW x \in L..(L + n - 1) PROVE t[x] = Byte(m, p + (x - L + 1))
  <2>1. x - L + 1 \in 1..n /\ L - 1 + (x - L + 1) = x OBVIOUS
  <2> QED BY <2>1 DEF NewBytes
<1>2. CASE j <= L
  <2>1. t[j] = s[j] 
    <3>1. CASE j = L BY <3>1, <1>1
    <3>2. CASE j < L BY <3>2, SMTT(30) DEF SameFront
    <3> QED BY <3>1, <3>2, <1>2
  <2>2. t[i] = s[i] BY <1>2 DEF SameFront
  <2> QED BY <1>2, <2>1, <2>2 DEF InOrder
<1>3. CASE j > L /\ i >= L
  <2>0. i \in L..(L + n - 1) BY <1>3
  <2>1. t[i] = Byte(m, p + (i - L + 1)) BY <1>1, <2>0
  <2>2. MsgOf(t[i]) = m /\ PosOf(t[i]) + (j - i) = p + (j - L + 1) BY <2>1, ByteFacts
  <2>3. CASE j < L + n
    <3>0. j \in L..(L + n - 1) BY <1>3, <2>3
    <3>1. t[j] = Byte(m, p + (j - L + 1)) BY <1>1, <3>0
    <3>2. p + (j - L + 1) # LenOf(m) + 1 BY <1>0, <2>3
    <3> QED BY <3>1, <3>2, <2>2 DEF Ahead
  <2>4. CASE j = L + n
    <3>1. p + (j - L + 1) = p + n + 1 BY <2>4
    <3>2. p + n = LenOf(m) => t[j] = Byte(m + 1, 1) BY <2>4 DEF NewCursor
    <3>3. p + n # LenOf(m) => t[j] = Byte(m, p + n + 1) BY <2>4 DEF NewCursor
    <3>4. p + n + 1 <= LenOf(m) => p + n # LenOf(m) BY <1>0
    <3>5. p + n + 1 = LenOf(m) + 1 => p + n = LenOf(m) BY <1>0
    <3> QED BY <2>2, <3>1, <3>2, <3>3, <3>4, <3>5 DEF Ahead
  <2> QED BY <2>3, <2>4
<1>4. CASE j > L /\ i < L
  <2> DEFINE q == MsgOf(s[i])
             k == PosOf(s[i])
  <2>0. i \in 1..(L - 1) /\ i \in 1..Len(s) /\ L \in 1..Len(s) /\ i < L BY <1>4
  <2>1. t[i] = s[i] /\ Ahead(s[i], s[L], L - i)
    <3>1. t[i] = s[i] BY <2>0 DEF SameFront
    <3>2. Ahead(s[i], s[L], L - i) BY <2>0 DEF InOrder
    <3> QED BY <3>1, <3>2
  <2>2. q \in 1..Len(Messages) /\ k \in Nat BY <1>4 DEF KnownFront
  <2>3. LenOf(q) \in Nat BY <2>2, MessageFacts
  <2> HIDE DEF q, k
  <2>4. ASSUME k + (j - i) <= LenOf(q) + 1
        PROVE  q = m /\ k + (j - i) = p + (j - L + 1)
    <3>1. k + (L - i) <= LenOf(q) BY <1>4, <2>2, <2>3, <2>4
    <3>2. s[L] = Byte(q, k + (L - i)) BY <3>1, <2>1 DEF Ahead, q, k
    <3>3. q = m /\ k + (L - i) = p + 1 BY <3>2, ByteFacts
    <3> QED BY <3>3, <2>2
  <2>5. CASE j < L + n
    <3>0. j \in L..(L + n - 1) BY <1>4, <2>5
    <3>1. t[j] = Byte(m, p + (j - L + 1)) BY <1>1, <3>0
    <3>2. k + (j - i) <= LenOf(q) => t[j] = Byte(q, k + (j - i)) BY <3>1, <2>2, <2>3, <2>4, SMTT(30)
    <3>3. k + (j - i) # LenOf(q) + 1 BY <2>2, <2>3, <2>4, <2>5, <1>0, SMTT(30)
    <3> QED BY <3>2, <3>3, <2>1 DEF Ahead, q, k
  <2>6. CASE j = L + n
    <3>0. p + (j - L + 1) = p + n + 1 BY <2>6
    <3>1. ASSUME k + (j - i) <= LenOf(q) PROVE t[j] = Byte(q, k + (j - i))
      <4>1. q = m /\ k + (j - i) = p + n + 1 BY <2>2, <2>3, <2>4, <3>0, <3>1, SMTT(30)
      <4>2. p + n # LenOf(m) BY <4>1, <3>1, <1>0
      <4> QED BY <4>1, <4>2, <2>6 DEF NewCursor
    <3>2. ASSUME k + (j - i) = LenOf(q) + 1 PROVE t[j] = Byte(q + 1, 1)
      <4>1. q = m /\ k + (j - i) = p + n + 1 BY <2>2, <2>3, <2>4, <3>0, <3>2, SMTT(30)
      <4>2. p + n = LenOf(m) BY <4>1, <3>2, <1>0
      <4> QED BY <4>1, <4>2, <2>6 DEF NewCursor
    <3> QED BY <3>1, <3>2, <2>1 DEF Ahead, q, k
  <2> QED BY <2>5, <2>6
<1> QED BY <1>2, <1>3, <1>4

(* ... and when the receiver takes its message out at the front, and then   *)
(* starts with the first byte of the next one.                              *)
LEMMA ReceiverGoesOn ==
  ASSUME NEW s, NEW t, NEW r \in 1..Len(Messages), NEW L \in Nat,
         s[1] = Byte(r, 1), L = Len(s), L > LenOf(r), Len(t) = L - LenOf(r),
         \A i \in 1..(L - LenOf(r)) : t[i] = s[i + LenOf(r)],
         InOrder(s)
  PROVE  t[1] = Byte(r + 1, 1) /\ InOrder(t)
<1> DEFINE l == LenOf(r)
<1>1. l \in Nat \ {0} BY MessageFacts
<1> HIDE DEF l
<1>2. t[1] = Byte(r + 1, 1)
  <2>1. 1 \in 1..L /\ 1 + l \in 1..L /\ 1 < 1 + l /\ (1 + l) - 1 = l BY <1>1 DEF l
  <2>2. Ahead(s[1], s[1 + l], l) BY <2>1 DEF InOrder
  <2>3. MsgOf(s[1]) = r /\ PosOf(s[1]) = 1 BY ByteFacts
  <2>4. s[1 + l] = Byte(r + 1, 1) BY <2>2, <2>3, <1>1 DEF Ahead, l
  <2>5. t[1] = s[1 + l] BY <1>1 DEF l
  <2> QED BY <2>4, <2>5
<1>3. ASSUME NEW i \in 1..(L - l), NEW j \in 1..(L - l), i < j
      PROVE  Ahead(t[i], t[j], j - i)
  <2>1. t[i] = s[i + l] /\ t[j] = s[j + l] BY DEF l
  <2>2. /\ i + l \in 1..L /\ j + l \in 1..L /\ i + l < j + l
        /\ (j + l) - (i + l) = j - i BY <1>1, <1>3 DEF l
  <2> QED BY <2>1, <2>2 DEF InOrder
<1> QED BY <1>2, <1>3 DEF InOrder, l

Place == Nat \X Nat

(* Two sequences of bytes one behind the other.                             *)
LEMMA Concat ==
  ASSUME NEW u \in Seq(Place), NEW v \in Seq(Place)
  PROVE  /\ u \o v \in Seq(Place) /\ Len(u \o v) = Len(u) + Len(v)
         /\ \A i \in 1..Len(u) : (u \o v)[i] = u[i]
         /\ \A i \in 1..Len(v) : (u \o v)[Len(u) + i] = v[i]
OBVIOUS

(* Where the bytes of the stream lie.                                       *)
LEMMA StreamAt ==
  ASSUME NEW b \in Seq(Place), NEW w \in Seq(Place), NEW c \in Place
  PROVE  LET s == b \o w \o <<c>> IN
         /\ Len(s) = Len(b) + Len(w) + 1
         /\ \A i \in 1..Len(b) : s[i] = b[i]
         /\ \A i \in 1..Len(w) : s[Len(b) + i] = w[i]
         /\ s[Len(b) + Len(w) + 1] = c
<1> DEFINE bw   == b \o w
           last == <<c>>
<1>1. bw \in Seq(Place) /\ Len(bw) = Len(b) + Len(w) BY Concat
<1>2. \A i \in 1..Len(b) : bw[i] = b[i] BY Concat
<1>3. \A i \in 1..Len(w) : bw[Len(b) + i] = w[i] BY Concat
<1>4. last \in Seq(Place) /\ Len(last) = 1 /\ last[1] = c OBVIOUS
<1> HIDE DEF bw, last
<1>5. Len(bw \o last) = Len(bw) + 1
  <2>1. Len(bw \o last) = Len(bw) + Len(last) BY <1>1, <1>4, Concat, Zenon
  <2> QED BY <1>4, <2>1
<1>6. \A i \in 1..Len(bw) : (bw \o last)[i] = bw[i] BY <1>1, <1>4, Concat
<1>7. (bw \o last)[Len(bw) + 1] = c
  <2>1. \A i \in 1..Len(last) : (bw \o last)[Len(bw) + i] = last[i] BY <1>1, <1>4, Concat
  <2>2. 1 \in 1..Len(last) BY <1>4
  <2>3. (bw \o last)[Len(bw) + 1] = last[1] BY <2>1, <2>2, Zenon
  <2> QED BY <1>4, <2>3
<1>8. Len(b) \in Nat /\ Len(w) \in Nat OBVIOUS
<1>9. \A i \in 1..Len(b) : (bw \o last)[i] = b[i] BY <1>1, <1>2, <1>6, <1>8
<1>10. \A i \in 1..Len(w) : (bw \o last)[Len(b) + i] = w[i] BY <1>1, <1>3, <1>6, <1>8
<1>11. Len(bw \o last) = Len(b) + Len(w) + 1 BY <1>1, <1>5
<1>12. (bw \o last)[Len(b) + Len(w) + 1] = c BY <1>1, <1>7
<1> QED BY <1>9, <1>10, <1>11, <1>12 DEF bw, last

----------------------------------------------------------------------------
(* A byte of the messages has a place in one of them.                       *)
LEMMA BytePlace ==
  /\ \A m \in 1..Len(Messages), p \in Nat \ {0} : Byte(m, p) \in Bytes
  /\ \A b \in Bytes : MsgOf(b) \in 1..Len(Messages) /\ PosOf(b) \in Nat \ {0}
  /\ \A m, p \in Nat : Byte(m, p) \in Place
  /\ \A b \in Bytes : b \in Place
<1>1. Len(Messages) \in Nat BY SocketConstants
<1> QED BY <1>1 DEF Bytes, Byte, MsgOf, PosOf, Place

(* Bytes are places in the stream.                                          *)
LEMMA BytesArePlaces ==
  ASSUME NEW s \in Seq(Bytes)
  PROVE  s \in Seq(Place)
<1>1. \A i \in 1..Len(s) : s[i] \in Place BY BytePlace
<1> QED BY <1>1

(* Joining two sequences of bytes.                                          *)
LEMMA ConcatBytes ==
  ASSUME NEW u \in Seq(Bytes), NEW v \in Seq(Bytes)
  PROVE  u \o v \in Seq(Bytes) /\ Len(u \o v) = Len(u) + Len(v)
OBVIOUS

(* The bytes that one call of send hands over.                              *)
LEMMA BytesAtFacts ==
  ASSUME NEW m \in 1..Len(Messages), NEW pos \in Nat, NEW n \in Nat
  PROVE  /\ BytesAt(m, pos, n) \in Seq(Bytes) /\ Len(BytesAt(m, pos, n)) = n
         /\ \A i \in 1..n : BytesAt(m, pos, n)[i] = Byte(m, pos + i)
<1> DEFINE f == [i \in 1..n |-> Byte(m, pos + i)]
<1>1. f = BytesAt(m, pos, n) BY DEF BytesAt, Byte
<1>2. \A i \in 1..n : Byte(m, pos + i) \in Bytes BY BytePlace
<1>3. f \in [1..n -> Bytes] BY <1>2
<1>4. f \in Seq(Bytes) /\ Len(f) = n BY <1>3
<1>5. \A i \in 1..n : f[i] = Byte(m, pos + i) OBVIOUS
<1> QED BY <1>1, <1>4, <1>5

(* A step of send takes at least a byte, and none behind the message or     *)
(* behind the room there is.                                                *)
Sends(n) ==
  /\ sent + n <= LenOf(sidx) /\ Len(wire) + n <= WireSize
  /\ wire' = wire \o BytesAt(sidx, sent, n)
  /\ \/ /\ ApiOf(sidx) = "data" \/ sent + n = LenOf(sidx)
        /\ spc' = "idle" /\ sres' = "E_SUCCESS" /\ sidx' = sidx + 1 /\ sent' = 0
     \/ /\ ApiOf(sidx) # "data" /\ sent + n < LenOf(sidx)
        /\ sent' = sent + n /\ UNCHANGED <<spc, sidx, sres>>
  /\ cut' = (cut \/ (ApiOf(sidx) = "data" /\ n < LenOf(sidx)))

(* What a send that the kernel accepts some of does.                        *)
LEMMA SendSomeFacts ==
  ASSUME TypeOK, Sender, SendSome
  PROVE  /\ spc = "busy" /\ sidx \in 1..Len(Messages)
         /\ \E n \in Nat \ {0} : Sends(n)
         /\ UNCHANGED <<nonblocking, recvVars, errors>>
<1>1. /\ sent \in Nat /\ Len(wire) \in Nat /\ WireSize \in Nat /\ sidx \in Nat \ {0}
      /\ Len(Messages) \in Nat
  BY SocketConstants DEF TypeOK
<1>2. spc = "busy" /\ sidx \in 1..Len(Messages) BY <1>1 DEF Sender, SendSome
<1>3. LenOf(sidx) \in Nat \ {0} /\ ApiOf(sidx) \in {"all", "data"} BY <1>2, MessageFacts
<1>4. sent < LenOf(sidx) /\ (ApiOf(sidx) = "data" => sent = 0) BY <1>1, <1>2 DEF Sender
<1>5. PICK n \in 1..Smaller(Room, Want(LenOf(sidx), sent, ApiOf(sidx))) :
        /\ wire' = wire \o BytesAt(sidx, SendPosition, n)
        /\ IF ApiOf(sidx) = "data" \/ sent + n >= LenOf(sidx)
             THEN SendReturns("E_SUCCESS") /\ sidx' = sidx + 1 /\ sent' = 0
             ELSE sent' = sent + n /\ UNCHANGED <<spc, sidx, sres>>
        /\ cut' = (cut \/ (ApiOf(sidx) = "data" /\ n < LenOf(sidx)))
  BY DEF SendSome, LenOf, ApiOf
<1>6. Want(LenOf(sidx), sent, ApiOf(sidx)) \in 1..(LenOf(sidx) - sent)
  <2>1. CASE ApiOf(sidx) = "data" BY <2>1, <1>3, <1>4 DEF Want
  <2>2. CASE ApiOf(sidx) # "data"
    <3>1. calculate_chunk(LenOf(sidx), sent) \in 1..(LenOf(sidx) - sent) BY <1>1, <1>3, <1>4, ChunkFits
    <3> QED BY <2>2, <3>1 DEF Want
  <2> QED BY <2>1, <2>2
<1> DEFINE w == Want(LenOf(sidx), sent, ApiOf(sidx))
<1> HIDE DEF w
<1>7. w \in 1..(LenOf(sidx) - sent) /\ n \in 1..Smaller(Room, w) BY <1>5, <1>6 DEF w
<1>8. n \in Nat \ {0} /\ sent + n <= LenOf(sidx) /\ Len(wire) + n <= WireSize
  BY <1>1, <1>3, <1>7 DEF Smaller, Room
<1>9. Sends(n)
  <2>1. CASE ApiOf(sidx) = "data" \/ sent + n >= LenOf(sidx)
    <3>1. ApiOf(sidx) = "data" \/ sent + n = LenOf(sidx) BY <1>1, <1>3, <1>8, <2>1
    <3>2. spc' = "idle" /\ sres' = "E_SUCCESS" /\ sidx' = sidx + 1 /\ sent' = 0
      BY <1>5, <2>1 DEF SendReturns
    <3> QED BY <1>5, <1>8, <3>1, <3>2 DEF Sends, SendPosition
  <2>2. CASE ~(ApiOf(sidx) = "data" \/ sent + n >= LenOf(sidx))
    <3>1. ApiOf(sidx) # "data" /\ sent + n < LenOf(sidx) BY <1>1, <1>3, <1>8, <2>2
    <3>2. sent' = sent + n /\ UNCHANGED <<spc, sidx, sres>> BY <1>5, <2>2
    <3> QED BY <1>5, <1>8, <3>1, <3>2 DEF Sends, SendPosition
  <2> QED BY <2>1, <2>2
<1> QED BY <1>2, <1>8, <1>9 DEF SendSome

(* A step of recv delivers at least a byte, and none behind the buffer.     *)
Receives(n) ==
  /\ n <= Len(wire) /\ Len(buffer) + n <= LenOf(ridx)
  /\ buffer' = buffer \o SubSeq(wire, 1, n)
  /\ wire' = SubSeq(wire, n + 1, Len(wire))
  /\ \/ /\ ApiOf(ridx) = "data" \/ Len(buffer) + n = LenOf(ridx)
        /\ rpc' = "idle" /\ rres' = "E_SUCCESS"
     \/ /\ ApiOf(ridx) # "data" /\ Len(buffer) + n < LenOf(ridx)
        /\ UNCHANGED <<rpc, rres>>
  /\ cut' = (cut \/ (ApiOf(ridx) = "data" /\ n < LenOf(ridx)))

(* What a recv that returns some bytes does.                                *)
LEMMA RecvSomeFacts ==
  ASSUME TypeOK, Receiver, RecvSome
  PROVE  /\ rpc = "busy" /\ ridx \in 1..Len(Messages)
         /\ \E n \in Nat \ {0} : Receives(n)
         /\ UNCHANGED <<nonblocking, ridx, sendVars, errors>>
<1>1. Len(buffer) \in Nat /\ Len(wire) \in Nat /\ ridx \in Nat \ {0} /\ Len(Messages) \in Nat
  BY SocketConstants DEF TypeOK
<1>2. rpc = "busy" /\ ridx \in 1..Len(Messages) BY <1>1 DEF Receiver, RecvSome
<1>3. LenOf(ridx) \in Nat \ {0} /\ ApiOf(ridx) \in {"all", "data"} BY <1>2, MessageFacts
<1>4. Len(buffer) < LenOf(ridx) /\ (ApiOf(ridx) = "data" => Len(buffer) = 0) BY <1>1, <1>2 DEF Receiver
<1>5. PICK n \in 1..Smaller(Len(wire), Want(LenOf(ridx), Len(buffer), ApiOf(ridx))) :
        /\ buffer' = buffer \o SubSeq(wire, 1, n)
        /\ wire' = SubSeq(wire, n + 1, Len(wire))
        /\ IF ApiOf(ridx) = "data" \/ Len(buffer) + n >= LenOf(ridx)
             THEN RecvReturns("E_SUCCESS") ELSE UNCHANGED <<rpc, rres>>
        /\ cut' = (cut \/ (ApiOf(ridx) = "data" /\ n < LenOf(ridx)))
  BY DEF RecvSome, LenOf, ApiOf
<1>6. Want(LenOf(ridx), Len(buffer), ApiOf(ridx)) \in 1..(LenOf(ridx) - Len(buffer))
  <2>1. CASE ApiOf(ridx) = "data" BY <2>1, <1>3, <1>4 DEF Want
  <2>2. CASE ApiOf(ridx) # "data"
    <3>1. calculate_chunk(LenOf(ridx), Len(buffer)) \in 1..(LenOf(ridx) - Len(buffer))
      BY <1>1, <1>3, <1>4, ChunkFits
    <3> QED BY <2>2, <3>1 DEF Want
  <2> QED BY <2>1, <2>2
<1> DEFINE w == Want(LenOf(ridx), Len(buffer), ApiOf(ridx))
<1> HIDE DEF w
<1>7. w \in 1..(LenOf(ridx) - Len(buffer)) /\ n \in 1..Smaller(Len(wire), w) BY <1>5, <1>6 DEF w
<1>8. n \in Nat \ {0} /\ n <= Len(wire) /\ Len(buffer) + n <= LenOf(ridx)
  BY <1>1, <1>3, <1>7 DEF Smaller
<1>9. Receives(n)
  <2>1. CASE ApiOf(ridx) = "data" \/ Len(buffer) + n >= LenOf(ridx)
    <3>1. ApiOf(ridx) = "data" \/ Len(buffer) + n = LenOf(ridx) BY <1>1, <1>3, <1>8, <2>1
    <3>2. rpc' = "idle" /\ rres' = "E_SUCCESS" BY <1>5, <2>1 DEF RecvReturns
    <3> QED BY <1>5, <1>8, <3>1, <3>2 DEF Receives
  <2>2. CASE ~(ApiOf(ridx) = "data" \/ Len(buffer) + n >= LenOf(ridx))
    <3>1. ApiOf(ridx) # "data" /\ Len(buffer) + n < LenOf(ridx) BY <1>1, <1>3, <1>8, <2>2
    <3>2. UNCHANGED <<rpc, rres>> BY <1>5, <2>2
    <3> QED BY <1>5, <1>8, <3>1, <3>2 DEF Receives
  <2> QED BY <2>1, <2>2
<1> QED BY <1>2, <1>8, <1>9 DEF RecvSome

----------------------------------------------------------------------------
(* The other steps leave the stream where it is, or start a call.           *)
LEMMA TypeStep ==
  ASSUME TypeOK, Sender, Receiver, [Next]_vars
  PROVE  TypeOK'
<1> USE DEF TypeOK, Results, sendVars, recvVars
<1>0. /\ Len(Messages) \in Nat /\ MaxErrors \in Nat /\ WireSize \in Nat
      /\ <<>> \in Seq(Bytes) /\ Len(<<>>) = 0
  BY SocketConstants
<1>1. CASE SendSome
  <2>1. PICK n \in Nat \ {0} : Sends(n) BY <1>1, SendSomeFacts
  <2>2. sidx \in 1..Len(Messages) /\ UNCHANGED <<nonblocking, recvVars, errors>> BY <1>1, SendSomeFacts
  <2>3. wire' \in Seq(Bytes) /\ Len(wire') = Len(wire) + n
    <3>1. BytesAt(sidx, sent, n) \in Seq(Bytes) /\ Len(BytesAt(sidx, sent, n)) = n BY <2>2, BytesAtFacts
    <3>2. wire' = wire \o BytesAt(sidx, sent, n) BY <2>1 DEF Sends
    <3>3. /\ wire \o BytesAt(sidx, sent, n) \in Seq(Bytes)
          /\ Len(wire \o BytesAt(sidx, sent, n)) = Len(wire) + Len(BytesAt(sidx, sent, n))
      BY <3>1, ConcatBytes, Zenon
    <3> QED BY <3>1, <3>2, <3>3
  <2>4. Len(wire') <= WireSize BY <2>1, <2>3 DEF Sends
  <2>5. cut' \in BOOLEAN BY <2>1 DEF Sends
  <2>6. spc' \in {"idle", "busy", "closed", "killed"} /\ sres' \in Results BY <2>1 DEF Sends
  <2>7. sidx' \in 1..(Len(Messages) + 1) /\ sent' \in Nat BY <1>0, <2>1, <2>2 DEF Sends
  <2> QED BY <2>2, <2>3, <2>4, <2>5, <2>6, <2>7
<1>2. CASE RecvSome
  <2>1. PICK n \in Nat \ {0} : Receives(n) BY <1>2, RecvSomeFacts
  <2>2. UNCHANGED <<nonblocking, ridx, sendVars, errors>> BY <1>2, RecvSomeFacts
  <2>3. SubSeq(wire, 1, n) \in Seq(Bytes) /\ wire' \in Seq(Bytes) /\ Len(wire') <= WireSize
    BY <1>0, <2>1 DEF Receives
  <2>4. buffer' \in Seq(Bytes)
    <3> DEFINE more == SubSeq(wire, 1, n)
    <3> HIDE DEF more
    <3>1. buffer \in Seq(Bytes) /\ more \in Seq(Bytes) /\ buffer' = buffer \o more
      BY <2>1, <2>3 DEF more, Receives
    <3> QED BY <3>1
  <2>5. cut' \in BOOLEAN BY <2>1 DEF Receives
  <2>6. rpc' \in {"idle", "busy", "closed"} /\ rres' \in Results BY <2>1 DEF Receives
  <2> QED BY <2>2, <2>3, <2>4, <2>5, <2>6
<1>3. CASE SendCall BY <1>0, <1>3 DEF SendCall
<1>4. CASE SendFails
  <2>1. errors' \in 0..MaxErrors BY <1>0, <1>4 DEF SendFails
  <2> QED BY <1>4, <2>1 DEF SendFails, SendReturns
<1>5. CASE SendKilled BY <1>5 DEF SendKilled
<1>6. CASE SenderCloses BY <1>6 DEF SenderCloses
<1>7. CASE RecvCall BY <1>0, <1>7 DEF RecvCall
<1>8. CASE RecvFails
  <2>1. errors' \in 0..MaxErrors BY <1>0, <1>8 DEF RecvFails
  <2> QED BY <1>8, <2>1 DEF RecvFails, RecvReturns
<1>9. CASE RecvHangup BY <1>9 DEF RecvHangup, RecvReturns
<1>10. CASE Consume
  <2>1. ridx <= Len(Messages) BY <1>0, <1>10 DEF Consume, Pending, Receiver
  <2> QED BY <1>0, <1>10, <2>1 DEF Consume
<1>11. CASE ReceiverCloses BY <1>11 DEF ReceiverCloses
<1>12. CASE UNCHANGED vars BY <1>12 DEF vars
<1> QED BY <1>1, <1>2, <1>3, <1>4, <1>5, <1>6, <1>7, <1>8, <1>9, <1>10, <1>11, <1>12
        DEF Next, SendStep, RecvStep

(* The sender's counters stay within its message.                           *)
LEMMA SenderStep ==
  ASSUME TypeOK, Sender, Receiver, [Next]_vars
  PROVE  Sender'
<1>0. Len(Messages) \in Nat /\ sidx \in 1..(Len(Messages) + 1) /\ sent \in Nat
  BY SocketConstants DEF TypeOK
<1>1. CASE SendSome
  <2>1. PICK n \in Nat \ {0} : Sends(n) BY <1>1, SendSomeFacts
  <2>2. spc = "busy" /\ sidx \in 1..Len(Messages) BY <1>1, SendSomeFacts
  <2>3. CASE sidx' = sidx
    BY <1>0, <2>1, <2>2, <2>3 DEF Sends, Sender
  <2>4. CASE sidx' = sidx + 1 /\ sent' = 0 /\ spc' = "idle"
    <3>1. sidx' <= Len(Messages) => LenOf(sidx') > 0 BY <1>0, <2>4, MessageFacts
    <3> QED BY <2>4, <3>1 DEF Sender
  <2> QED BY <2>1, <2>3, <2>4 DEF Sends
<1>2. CASE SendCall
  <2>1. sidx \in 1..Len(Messages) /\ sidx' = sidx /\ sent' = 0 /\ spc' = "busy" BY <1>0, <1>2 DEF SendCall
  <2>2. LenOf(sidx) > 0 BY <2>1, MessageFacts
  <2> QED BY <2>1, <2>2 DEF Sender
<1>3. ASSUME UNCHANGED <<sidx, sent>>, spc' = "busy" => spc = "busy" PROVE Sender'
  BY <1>3 DEF Sender
<1>4. CASE SendFails BY <1>3, <1>4 DEF SendFails, SendReturns
<1>5. CASE SendKilled BY <1>3, <1>5 DEF SendKilled
<1>6. CASE SenderCloses BY <1>3, <1>6 DEF SenderCloses
<1>7. CASE UNCHANGED sendVars BY <1>3, <1>7 DEF sendVars
<1>8. CASE UNCHANGED vars BY <1>7, <1>8 DEF vars
<1>9. CASE RecvStep \/ RecvCall \/ Consume \/ ReceiverCloses
  BY <1>7, <1>9 DEF RecvStep, RecvSome, RecvFails, RecvHangup, RecvCall, Consume, ReceiverCloses
<1> QED BY <1>1, <1>2, <1>4, <1>5, <1>6, <1>8, <1>9 DEF Next, SendStep

(* What a step of recv takes off the wire and puts into the buffer.         *)
LEMMA ReceivedBytes ==
  ASSUME TypeOK, NEW n \in Nat \ {0}, Receives(n)
  PROVE  /\ Len(buffer') = Len(buffer) + n /\ Len(wire') = Len(wire) - n
         /\ \A i \in 1..Len(buffer) : buffer'[i] = buffer[i]
         /\ \A i \in 1..n : buffer'[Len(buffer) + i] = wire[i]
         /\ \A i \in 1..(Len(wire) - n) : wire'[i] = wire[n + i]
<1> DEFINE more == SubSeq(wire, 1, n)
<1>0. buffer \in Seq(Bytes) /\ wire \in Seq(Bytes) /\ n <= Len(wire) BY DEF TypeOK, Receives
<1>1. more \in Seq(Bytes) /\ Len(more) = n /\ \A i \in 1..n : more[i] = wire[i] BY <1>0
<1>2. wire' = SubSeq(wire, n + 1, Len(wire)) BY DEF Receives
<1>3. Len(wire') = Len(wire) - n BY <1>0, <1>2
<1>4. \A i \in 1..(Len(wire) - n) : wire'[i] = wire[n + i] BY <1>0, <1>2
<1> HIDE DEF more
<1>5. buffer' = buffer \o more BY DEF Receives, more
<1>6. buffer \in Seq(Place) /\ more \in Seq(Place) BY <1>0, <1>1, BytesArePlaces
<1>7. Len(buffer \o more) = Len(buffer) + Len(more) BY <1>6, Concat, Zenon
<1>8. \A i \in 1..Len(buffer) : (buffer \o more)[i] = buffer[i] BY <1>6, Concat, Zenon
<1>9. \A i \in 1..Len(more) : (buffer \o more)[Len(buffer) + i] = more[i] BY <1>6, Concat, Zenon
<1> QED BY <1>1, <1>3, <1>4, <1>5, <1>7, <1>8, <1>9

(* The receiver's counters stay within its buffer.                          *)
LEMMA ReceiverStep ==
  ASSUME TypeOK, Sender, Receiver, [Next]_vars
  PROVE  Receiver'
<1>0. /\ Len(Messages) \in Nat /\ ridx \in 1..(Len(Messages) + 1) /\ Len(buffer) \in Nat
      /\ cut \in BOOLEAN /\ Len(<<>>) = 0
  BY SocketConstants DEF TypeOK
<1>1. CASE RecvSome
  <2>1. PICK n \in Nat \ {0} : Receives(n) BY <1>1, RecvSomeFacts
  <2>2. ridx \in 1..Len(Messages) /\ ridx' = ridx BY <1>1, RecvSomeFacts
  <2>3. Len(buffer') = Len(buffer) + n BY <2>1, ReceivedBytes
  <2>4. LenOf(ridx) \in Nat /\ Len(buffer') <= LenOf(ridx) BY <2>1, <2>2, <2>3, MessageFacts DEF Receives
  <2>5. rpc' = "busy" => Len(buffer') < LenOf(ridx) /\ ApiOf(ridx) # "data" BY <2>1, <2>3 DEF Receives
  <2>6. ApiOf(ridx) = "data" => Len(buffer) = 0
    BY <1>0, <1>1 DEF Receiver, RecvSome
  <2>7. ASSUME rpc' = "idle", ApiOf(ridx) = "all" \/ ~cut' PROVE Len(buffer') = LenOf(ridx)
    <3>1. CASE ApiOf(ridx) # "data"
      <4>1. rpc = "busy" BY <1>1 DEF RecvSome
      <4> QED BY <2>1, <2>3, <2>7, <3>1, <4>1 DEF Receives
    <3>2. CASE ApiOf(ridx) = "data"
      <4>1. ~(n < LenOf(ridx)) BY <2>1, <2>7, <3>2 DEF Receives
      <4> QED BY <2>3, <2>4, <2>6, <3>2, <4>1
    <3> QED BY <3>1, <3>2
  <2>8. ~(ridx' > Len(Messages)) BY <1>0, <2>2
  <2> QED BY <2>2, <2>4, <2>5, <2>7, <2>8 DEF Receiver
<1>2. CASE RecvCall
  <2>1. ridx \in 1..Len(Messages) /\ ridx' = ridx /\ buffer' = <<>> /\ rpc' = "busy" BY <1>0, <1>2 DEF RecvCall
  <2>2. LenOf(ridx) \in Nat \ {0} BY <2>1, MessageFacts
  <2> QED BY <1>0, <2>1, <2>2 DEF Receiver
<1>3. CASE RecvFails
  <2>1. UNCHANGED <<ridx, buffer>> /\ rpc' = "idle" /\ rres' = "E_FAILURE" BY <1>3 DEF RecvFails, RecvReturns
  <2> QED BY <2>1 DEF Receiver, Pending
<1>4. CASE RecvHangup
  <2>1. UNCHANGED <<ridx, buffer>> /\ rpc' = "idle" /\ rres' # "E_SUCCESS" BY <1>4 DEF RecvHangup, RecvReturns
  <2> QED BY <2>1 DEF Receiver, Pending
<1>5. CASE Consume
  <2>1. ridx <= Len(Messages) BY <1>0, <1>5 DEF Consume, Pending, Receiver
  <2>2. ridx' = ridx + 1 /\ buffer' = <<>> /\ rpc' = "idle" BY <1>5 DEF Consume
  <2>3. ridx' <= Len(Messages) => LenOf(ridx') \in Nat BY <1>0, <2>2, MessageFacts
  <2> QED BY <1>0, <2>1, <2>2, <2>3 DEF Receiver, Pending
<1>6. CASE ReceiverCloses
  <2>1. UNCHANGED <<ridx, buffer>> /\ rpc' = "closed" BY <1>6 DEF ReceiverCloses
  <2> QED BY <2>1 DEF Receiver
<1>7. ASSUME UNCHANGED recvVars, ~cut' => ~cut PROVE Receiver'
  BY <1>7 DEF Receiver, Pending, recvVars
<1>8. CASE SendSome
  <2>1. PICK n \in Nat \ {0} : Sends(n) BY <1>8, SendSomeFacts
  <2>2. ~cut' => ~cut BY <2>1 DEF Sends
  <2> QED BY <1>7, <1>8, <2>2 DEF SendSome
<1>9. CASE SendCall BY <1>7, <1>9 DEF SendCall
<1>10. CASE SendFails \/ SendKilled \/ SenderCloses
  BY <1>7, <1>10 DEF SendFails, SendKilled, SenderCloses
<1>11. CASE UNCHANGED vars BY <1>7, <1>11 DEF vars
<1> QED BY <1>1, <1>2, <1>3, <1>4, <1>5, <1>6, <1>8, <1>9, <1>10, <1>11
        DEF Next, SendStep, RecvStep

(* Every byte on the wire is a byte of its message.                         *)
LEMMA OnWireStep ==
  ASSUME TypeOK, Sender, Receiver, OnWire, [Next]_vars
  PROVE  OnWire'
<1>0. wire \in Seq(Bytes) /\ Len(wire) \in Nat /\ sent \in Nat BY DEF TypeOK
<1>1. CASE SendSome
  <2>1. PICK n \in Nat \ {0} : Sends(n) BY <1>1, SendSomeFacts
  <2>2. sidx \in 1..Len(Messages) BY <1>1, SendSomeFacts
  <2> DEFINE more == BytesAt(sidx, sent, n)
  <2>3. more \in Seq(Bytes) /\ Len(more) = n /\ \A i \in 1..n : more[i] = Byte(sidx, sent + i)
    BY <1>0, <2>2, BytesAtFacts
  <2> HIDE DEF more
  <2>4. wire' = wire \o more BY <2>1 DEF Sends, more
  <2>5. wire \in Seq(Place) /\ more \in Seq(Place) BY <1>0, <2>3, BytesArePlaces
  <2>6. /\ Len(wire') = Len(wire) + Len(more)
        /\ \A i \in 1..Len(wire) : wire'[i] = wire[i]
        /\ \A i \in 1..Len(more) : wire'[Len(wire) + i] = more[i]
    BY <2>4, <2>5, Concat, Zenon
  <2>7. LenOf(sidx) \in Nat /\ sent + n <= LenOf(sidx) BY <2>1, <2>2, MessageFacts DEF Sends
  <2>8. SUFFICES ASSUME NEW i \in 1..(Len(wire) + n) PROVE PosOf(wire'[i]) <= LenOf(MsgOf(wire'[i]))
    BY <2>3, <2>6 DEF OnWire, PosOf, MsgOf
  <2>9. CASE i <= Len(wire)
    BY <1>0, <2>6, <2>9 DEF OnWire, PosOf, MsgOf
  <2>10. CASE i > Len(wire)
    <3>1. i - Len(wire) \in 1..n /\ Len(wire) + (i - Len(wire)) = i BY <1>0, <2>10
    <3>2. wire'[i] = Byte(sidx, sent + (i - Len(wire))) BY <2>3, <2>6, <3>1
    <3>3. MsgOf(wire'[i]) = sidx /\ PosOf(wire'[i]) = sent + (i - Len(wire)) BY <3>2, ByteFacts
    <3> QED BY <1>0, <2>7, <3>1, <3>3
  <2> QED BY <1>0, <2>9, <2>10
<1>2. CASE RecvSome
  <2>1. PICK n \in Nat \ {0} : Receives(n) BY <1>2, RecvSomeFacts
  <2>2. /\ Len(wire') = Len(wire) - n
        /\ \A i \in 1..(Len(wire) - n) : wire'[i] = wire[n + i]
    BY <2>1, ReceivedBytes
  <2>3. ASSUME NEW i \in 1..(Len(wire) - n) PROVE wire'[i][2] <= LenOf(wire'[i][1])
    <3>1. n + i \in 1..Len(wire) BY <1>0
    <3> QED BY <2>2, <3>1 DEF OnWire
  <2> QED BY <2>2, <2>3 DEF OnWire
<1>3. CASE UNCHANGED wire BY <1>3 DEF OnWire
<1>4. CASE SendCall \/ SendFails \/ SendKilled \/ SenderCloses
  BY <1>3, <1>4 DEF SendCall, SendFails, SendKilled, SenderCloses
<1>5. CASE RecvCall \/ RecvFails \/ RecvHangup \/ Consume \/ ReceiverCloses
  BY <1>3, <1>5 DEF RecvCall, RecvFails, RecvHangup, Consume, ReceiverCloses
<1>6. CASE UNCHANGED vars BY <1>3, <1>6 DEF vars
<1> QED BY <1>1, <1>2, <1>4, <1>5, <1>6 DEF Next, SendStep, RecvStep

(* E_CONNECTION_CLOSED is returned only for a message cut short.            *)
LEMMA HungUpStep ==
  ASSUME TypeOK, Sender, Receiver, HungUp, [Next]_vars
  PROVE  HungUp'
<1>1. CASE SendSome BY <1>1 DEF SendSome, recvVars, HungUp
<1>2. CASE SendCall BY <1>2 DEF SendCall, recvVars, HungUp
<1>3. CASE SendFails BY <1>3 DEF SendFails, recvVars, HungUp
<1>4. CASE SendKilled BY <1>4 DEF SendKilled, recvVars, HungUp
<1>5. CASE SenderCloses BY <1>5 DEF SenderCloses, recvVars, HungUp
<1>6. CASE RecvSome
  <2>1. PICK n \in Nat \ {0} : Receives(n) BY <1>6, RecvSomeFacts
  <2>2. rpc = "busy" BY <1>6 DEF RecvSome
  <2>3. rpc' = "idle" => rres' = "E_SUCCESS" BY <2>1, <2>2 DEF Receives
  <2> QED BY <2>3 DEF HungUp
<1>7. CASE RecvCall BY <1>7 DEF RecvCall, HungUp
<1>8. CASE RecvFails BY <1>8 DEF RecvFails, RecvReturns, HungUp
<1>9. CASE RecvHangup
  <2>1. /\ spc \in {"closed", "killed"} /\ wire = <<>> /\ rpc = "busy"
        /\ UNCHANGED <<spc, wire, ridx, buffer>>
    BY <1>9 DEF RecvHangup, sendVars
  <2>2. ridx <= Len(Messages) /\ Len(buffer) < LenOf(ridx) BY <2>1 DEF Receiver
  <2> QED BY <2>1, <2>2 DEF HungUp
<1>10. CASE Consume BY <1>10 DEF Consume, Pending, HungUp
<1>11. CASE ReceiverCloses BY <1>11 DEF ReceiverCloses, HungUp
<1>12. CASE UNCHANGED vars BY <1>12 DEF vars, sendVars, recvVars, HungUp
<1> QED BY <1>1, <1>2, <1>3, <1>4, <1>5, <1>6, <1>7, <1>8, <1>9, <1>10, <1>11, <1>12
        DEF Next, SendStep, RecvStep

----------------------------------------------------------------------------
(* s is b, then w, then c.                                                  *)
Joined(s, b, w, c) ==
  /\ Len(s) = Len(b) + Len(w) + 1
  /\ \A i \in 1..Len(b) : s[i] = b[i]
  /\ \A i \in 1..Len(w) : s[Len(b) + i] = w[i]
  /\ s[Len(b) + Len(w) + 1] = c

(* The stream is the buffer, the wire and the next byte to send.            *)
LEMMA StreamJoined ==
  ASSUME TypeOK
  PROVE  /\ Joined(Stream, buffer, wire, Byte(sidx, sent + 1))
         /\ Len(buffer) \in Nat /\ Len(wire) \in Nat
         /\ KnownFront(Stream, Len(Stream))
<1>1. buffer \in Seq(Place) /\ wire \in Seq(Place) BY BytesArePlaces DEF TypeOK
<1>2. Byte(sidx, sent + 1) \in Place
  <2>1. sidx \in Nat /\ sent + 1 \in Nat BY SocketConstants DEF TypeOK
  <2> QED BY <2>1, BytePlace
<1>3. Joined(Stream, buffer, wire, Byte(sidx, sent + 1))
  BY <1>1, <1>2, StreamAt DEF Joined, Stream, Byte
<1>4. Len(buffer) \in Nat /\ Len(wire) \in Nat BY <1>1
<1>5. ASSUME NEW i \in 1..(Len(Stream) - 1)
      PROVE  MsgOf(Stream[i]) \in 1..Len(Messages) /\ PosOf(Stream[i]) \in Nat
  <2>0. Len(Stream) = Len(buffer) + Len(wire) + 1 BY <1>3 DEF Joined
  <2>1. CASE i <= Len(buffer)
    <3>1. i \in 1..Len(buffer) BY <1>4, <2>1, <2>0
    <3>2. Stream[i] = buffer[i] BY <1>3, <3>1 DEF Joined
    <3>3. buffer[i] \in Bytes BY <3>1 DEF TypeOK
    <3> QED BY <3>2, <3>3, BytePlace
  <2>2. CASE i > Len(buffer)
    <3>1. i - Len(buffer) \in 1..Len(wire) /\ Len(buffer) + (i - Len(buffer)) = i BY <1>4, <2>2, <2>0
    <3>2. Stream[i] = wire[i - Len(buffer)] BY <1>3, <3>1 DEF Joined
    <3>3. wire[i - Len(buffer)] \in Bytes BY <3>1 DEF TypeOK
    <3> QED BY <3>2, <3>3, BytePlace
  <2> QED BY <1>4, <2>0, <2>1, <2>2
<1> QED BY <1>3, <1>4, <1>5 DEF KnownFront

(* The same of the next state.                                              *)
LEMMA StreamJoinedNext ==
  ASSUME TypeOK'
  PROVE  /\ Joined(Stream', buffer', wire', Byte(sidx', sent' + 1))
         /\ Len(buffer') \in Nat /\ Len(wire') \in Nat
<1>1. buffer' \in Seq(Place) /\ wire' \in Seq(Place) BY BytesArePlaces DEF TypeOK
<1>2. Byte(sidx', sent' + 1) \in Place
  <2>0. Len(Messages) \in Nat BY SocketConstants
  <2>1. (sidx \in 1..(Len(Messages) + 1) /\ sent \in Nat)' BY DEF TypeOK
  <2>2. sidx' \in 1..(Len(Messages) + 1) BY <2>1
  <2>3. sidx' \in Nat BY <2>0, <2>2
  <2>4. \A x \in Nat : x + 1 \in Nat OBVIOUS
  <2>5. sent' \in Nat BY DEF TypeOK
  <2>6. sent' + 1 \in Nat BY <2>4, <2>5, Zenon
  <2> QED BY <2>3, <2>6, BytePlace
<1> QED BY <1>1, <1>2, StreamAt DEF Joined, Stream, Byte

(* The sender's step.                                                       *)
LEMMA InPlaceSend ==
  ASSUME TypeOK, TypeOK', Sender, InPlace, SendSome, ~cut'
  PROVE  Stream'[1] = Byte(ridx', 1) /\ InOrder(Stream')
<1>1. PICK n \in Nat \ {0} : Sends(n) BY SendSomeFacts
<1>2. sidx \in 1..Len(Messages) /\ ridx' = ridx /\ buffer' = buffer BY SendSomeFacts DEF recvVars
<1>3. LenOf(sidx) \in Nat /\ sent \in Nat /\ sent + n <= LenOf(sidx)
  BY <1>1, <1>2, MessageFacts DEF TypeOK, Sends
<1>4. Stream[1] = Byte(ridx, 1) /\ InOrder(Stream) BY <1>1 DEF Sends, InPlace
<1> DEFINE L == Len(Stream)
           m == sidx
           p == sent
<1>5. /\ Joined(Stream, buffer, wire, Byte(m, p + 1)) /\ KnownFront(Stream, L)
      /\ Len(buffer) \in Nat /\ Len(wire) \in Nat
  BY StreamJoined
<1>6. L = Len(buffer) + Len(wire) + 1 /\ Stream[L] = Byte(m, p + 1) BY <1>5 DEF Joined
<1>7. Joined(Stream', buffer, wire', Byte(sidx', sent' + 1)) BY <1>2, StreamJoinedNext
<1>8. /\ Len(wire') = Len(wire) + n
      /\ \A i \in 1..Len(wire) : wire'[i] = wire[i]
      /\ \A i \in 1..n : wire'[Len(wire) + i] = Byte(m, p + i)
  <2> DEFINE more == BytesAt(m, p, n)
  <2>1. more \in Seq(Bytes) /\ Len(more) = n /\ \A i \in 1..n : more[i] = Byte(m, p + i)
    BY <1>2, <1>3, BytesAtFacts
  <2>2. wire' = wire \o more BY <1>1 DEF Sends
  <2> HIDE DEF more
  <2>3. wire \in Seq(Place) /\ more \in Seq(Place) BY <2>1, BytesArePlaces DEF TypeOK
  <2>4. /\ Len(wire') = Len(wire) + Len(more)
        /\ \A i \in 1..Len(wire) : wire'[i] = wire[i]
        /\ \A i \in 1..Len(more) : wire'[Len(wire) + i] = more[i]
    BY <2>2, <2>3, Concat, Zenon
  <2> QED BY <2>1, <2>4
<1>9. L \in Nat \ {0} /\ Len(Stream') = L + n BY <1>5, <1>6, <1>7, <1>8 DEF Joined
<1>10. SameFront(Stream, Stream', L)
  <2> SUFFICES ASSUME NEW i \in 1..(L - 1) PROVE Stream'[i] = Stream[i] BY DEF SameFront
  <2>1. CASE i <= Len(buffer)
    <3>1. i \in 1..Len(buffer) BY <1>5, <1>6, <2>1
    <3> QED BY <1>5, <1>7, <3>1 DEF Joined
  <2>2. CASE i > Len(buffer)
    <3> DEFINE k == i - Len(buffer)
    <3>1. k \in 1..Len(wire) /\ k \in 1..Len(wire') /\ Len(buffer) + k = i BY <1>5, <1>6, <1>8, <2>2
    <3> HIDE DEF k
    <3>2. Stream[Len(buffer) + k] = wire[k] /\ Stream'[Len(buffer) + k] = wire'[k]
      BY <1>5, <1>7, <3>1 DEF Joined
    <3> QED BY <1>8, <3>1, <3>2
  <2> QED BY <1>5, <1>6, <2>1, <2>2
<1>11. NewBytes(Stream', L, n, m, p)
  <2> SUFFICES ASSUME NEW k \in 1..n PROVE Stream'[L - 1 + k] = Byte(m, p + k) BY DEF NewBytes
  <2>1. Len(wire) + k \in 1..Len(wire') /\ Len(buffer) + (Len(wire) + k) = L - 1 + k BY <1>5, <1>6, <1>8
  <2>2. Stream'[Len(buffer) + (Len(wire) + k)] = wire'[Len(wire) + k] BY <1>7, <2>1 DEF Joined
  <2> QED BY <1>8, <2>1, <2>2
<1>12. NewCursor(Stream'[L + n], m, p + n)
  <2>1. Stream'[L + n] = Byte(sidx', sent' + 1)
    <3>1. Len(buffer) + Len(wire') + 1 = L + n BY <1>5, <1>6, <1>8
    <3> QED BY <1>7, <3>1 DEF Joined
  <2>2. ApiOf(m) = "data" => p + n = LenOf(m)
    <3>0. cut' = (cut \/ (ApiOf(m) = "data" /\ n < LenOf(m))) BY <1>1 DEF Sends
    <3>1. ApiOf(m) = "data" => ~(n < LenOf(m)) BY <3>0
    <3>2. sidx <= Len(Messages) BY <1>2, SocketConstants
    <3>3. ApiOf(m) = "data" => p = 0 BY <3>2 DEF Sender
    <3> QED BY <1>3, <3>1, <3>3
  <2>3. CASE p + n = LenOf(m)
    <3>1. sidx' = m + 1 /\ sent' + 1 = 1 BY <1>1, <1>3, <2>3 DEF Sends
    <3> QED BY <2>1, <2>3, <3>1 DEF NewCursor
  <2>4. CASE p + n # LenOf(m)
    <3>1. sidx' = m /\ sent' + 1 = p + n + 1 BY <1>1, <1>3, <2>2, <2>4 DEF Sends
    <3> QED BY <2>1, <2>4, <3>1 DEF NewCursor
  <2> QED BY <2>3, <2>4
<1> HIDE DEF L, m, p
<1>13. m \in 1..Len(Messages) /\ p \in Nat /\ p + n <= LenOf(m) BY <1>2, <1>3 DEF m, p
<1>14. InOrder(Stream')
  <2>1. L = Len(Stream) BY DEF L
  <2> QED BY <1>4, <1>5, <1>6, <1>9, <1>10, <1>11, <1>12, <1>13, <2>1, SenderGoesOn
<1>15. Stream'[1] = Byte(ridx, 1)
  <2>1. CASE L > 1 BY <1>4, <1>9, <1>10, <2>1 DEF SameFront
  <2>2. CASE L = 1
    <3>1. L - 1 + 1 = 1 /\ 1 \in 1..n BY <2>2
    <3>2. Stream'[L - 1 + 1] = Byte(m, p + 1) BY <1>11, <3>1 DEF NewBytes
    <3> QED BY <1>4, <1>6, <2>2, <3>1, <3>2
  <2> QED BY <1>9, <2>1, <2>2
<1> QED BY <1>2, <1>14, <1>15

(* recv moves bytes from the wire into the buffer: the stream is the same.  *)
LEMMA InPlaceRecv ==
  ASSUME TypeOK, TypeOK', Receiver, InPlace, RecvSome, ~cut'
  PROVE  Stream'[1] = Byte(ridx', 1) /\ InOrder(Stream')
<1>1. PICK n \in Nat \ {0} : Receives(n) BY RecvSomeFacts
<1>2. ridx' = ridx /\ sidx' = sidx /\ sent' = sent BY RecvSomeFacts DEF sendVars
<1>3. Stream[1] = Byte(ridx, 1) /\ InOrder(Stream) BY <1>1 DEF Receives, InPlace
<1> DEFINE c == Byte(sidx, sent + 1)
<1>4. Joined(Stream, buffer, wire, c) /\ Len(buffer) \in Nat /\ Len(wire) \in Nat BY StreamJoined
<1>5. Joined(Stream', buffer', wire', c) BY <1>2, StreamJoinedNext
<1>6. /\ Len(buffer') = Len(buffer) + n /\ Len(wire') = Len(wire) - n
      /\ \A i \in 1..Len(buffer) : buffer'[i] = buffer[i]
      /\ \A i \in 1..n : buffer'[Len(buffer) + i] = wire[i]
      /\ \A i \in 1..(Len(wire) - n) : wire'[i] = wire[n + i]
  BY <1>1, ReceivedBytes
<1>7. n <= Len(wire) BY <1>1 DEF Receives
<1> HIDE DEF c
<1>8. Len(Stream) = Len(buffer) + Len(wire) + 1 /\ Len(Stream') = Len(Stream)
  BY <1>4, <1>5, <1>6, <1>7 DEF Joined
<1>9. ASSUME NEW i \in 1..Len(Stream) PROVE Stream'[i] = Stream[i]
  <2>1. CASE i <= Len(buffer)
    <3>1. i \in 1..Len(buffer) /\ i \in 1..Len(buffer') BY <1>4, <1>6, <1>8, <2>1
    <3>2. Stream[i] = buffer[i] /\ Stream'[i] = buffer'[i] BY <1>4, <1>5, <3>1 DEF Joined
    <3> QED BY <1>6, <3>1, <3>2
  <2>2. CASE i > Len(buffer) /\ i <= Len(buffer) + n
    <3> DEFINE k == i - Len(buffer)
    <3>1. k \in 1..n /\ k \in 1..Len(wire) /\ Len(buffer) + k = i /\ i \in 1..Len(buffer')
      BY <1>4, <1>6, <1>7, <1>8, <2>2
    <3> HIDE DEF k
    <3>2. Stream[Len(buffer) + k] = wire[k] BY <1>4, <3>1 DEF Joined
    <3>3. Stream'[i] = buffer'[i] BY <1>5, <3>1 DEF Joined
    <3> QED BY <1>6, <3>1, <3>2, <3>3
  <2>3. CASE i > Len(buffer) + n /\ i <= Len(buffer) + Len(wire)
    <3> DEFINE k == i - Len(buffer) - n
    <3>1. /\ k \in 1..(Len(wire) - n) /\ n + k \in 1..Len(wire) /\ k \in 1..Len(wire')
          /\ Len(buffer) + (n + k) = i /\ Len(buffer') + k = i
      BY <1>4, <1>6, <1>7, <1>8, <2>3
    <3> HIDE DEF k
    <3>2. Stream[Len(buffer) + (n + k)] = wire[n + k] BY <1>4, <3>1 DEF Joined
    <3>3. Stream'[Len(buffer') + k] = wire'[k] BY <1>5, <3>1 DEF Joined
    <3> QED BY <1>6, <3>1, <3>2, <3>3
  <2>4. CASE i = Len(buffer) + Len(wire) + 1
    <3>1. Len(buffer') + Len(wire') + 1 = i BY <1>4, <1>6, <1>7, <2>4
    <3> QED BY <1>4, <1>5, <2>4, <3>1 DEF Joined
  <2> QED BY <1>4, <1>7, <1>8, <2>1, <2>2, <2>3, <2>4
<1>10. InOrder(Stream') BY <1>3, <1>8, <1>9 DEF InOrder
<1>11. 1 \in 1..Len(Stream) BY <1>4, <1>8
<1> QED BY <1>2, <1>3, <1>9, <1>10, <1>11

(* The receiver turns to its next message.                                  *)
LEMMA InPlaceConsume ==
  ASSUME TypeOK, TypeOK', Receiver, InPlace, Consume, ~cut'
  PROVE  Stream'[1] = Byte(ridx', 1) /\ InOrder(Stream')
<1>1. /\ rpc = "idle" /\ Pending /\ ~cut
      /\ ridx' = ridx + 1 /\ buffer' = <<>> /\ wire' = wire /\ sidx' = sidx /\ sent' = sent
  BY DEF Consume, sendVars
<1>2. ridx \in 1..Len(Messages)
  <2>1. Len(Messages) \in Nat /\ ridx \in 1..(Len(Messages) + 1) BY SocketConstants DEF TypeOK
  <2>2. ~(ridx > Len(Messages)) BY <1>1 DEF Pending, Receiver
  <2> QED BY <2>1, <2>2
<1> DEFINE l == LenOf(ridx)
           c == Byte(sidx, sent + 1)
<1>3. Len(buffer) = l BY <1>1 DEF Receiver
<1>4. l \in Nat \ {0} BY <1>2, MessageFacts
<1>5. Stream[1] = Byte(ridx, 1) /\ InOrder(Stream) BY <1>1 DEF InPlace
<1>6. Joined(Stream, buffer, wire, c) /\ Len(wire) \in Nat BY StreamJoined
<1>7. Joined(Stream', <<>>, wire, c) BY <1>1, StreamJoinedNext
<1> DEFINE L == Len(Stream)
<1> HIDE DEF c
<1>8. L = l + Len(wire) + 1 /\ Len(Stream') = Len(wire) + 1
  <2>1. Len(<<>>) = 0 OBVIOUS
  <2> QED BY <1>3, <1>6, <1>7, <2>1 DEF Joined
<1>9. L \in Nat /\ L > l /\ Len(Stream') = L - l BY <1>4, <1>6, <1>8
<1>10. \A i \in 1..(L - l) : Stream'[i] = Stream[i + l]
  <2> SUFFICES ASSUME NEW i \in 1..(L - l) PROVE Stream'[i] = Stream[i + l] OBVIOUS
  <2>0. Len(<<>>) = 0 OBVIOUS
  <2>1. CASE i <= Len(wire)
    <3>1. i \in 1..Len(wire) /\ Len(buffer) + i = i + l /\ Len(<<>>) + i = i
      BY <1>3, <1>4, <1>6, <1>8, <2>0, <2>1
    <3>2. Stream[Len(buffer) + i] = wire[i] BY <1>6, <3>1 DEF Joined
    <3>3. Stream'[Len(<<>>) + i] = wire[i] BY <1>7, <3>1 DEF Joined
    <3> QED BY <3>1, <3>2, <3>3
  <2>2. CASE i = Len(wire) + 1
    <3>1. Len(buffer) + Len(wire) + 1 = i + l /\ Len(<<>>) + Len(wire) + 1 = i
      BY <1>3, <1>4, <1>6, <2>0, <2>2
    <3>2. Stream[Len(buffer) + Len(wire) + 1] = c BY <1>6 DEF Joined
    <3>3. Stream'[Len(<<>>) + Len(wire) + 1] = c BY <1>7 DEF Joined
    <3> QED BY <3>1, <3>2, <3>3
  <2> QED BY <1>4, <1>6, <1>8, <2>1, <2>2
<1>11. Stream'[1] = Byte(ridx + 1, 1) /\ InOrder(Stream')
  BY <1>2, <1>5, <1>9, <1>10, ReceiverGoesOn
<1> QED BY <1>1, <1>11

(* The bytes stay in the order in which they were sent.                     *)
LEMMA InPlaceStep ==
  ASSUME TypeOK, TypeOK', Sender, Receiver, InPlace, [Next]_vars
  PROVE  InPlace'
<1> SUFFICES ASSUME ~cut' PROVE (Stream[1] = Byte(ridx, 1) /\ InOrder(Stream))'
  BY DEF InPlace
<1>1. CASE SendSome
  <2>1. Stream'[1] = Byte(ridx', 1) /\ InOrder(Stream') BY <1>1, InPlaceSend
  <2> QED BY <2>1 DEF Byte, InOrder, Ahead, MsgOf, PosOf, LenOf
<1>2. CASE RecvSome
  <2>1. Stream'[1] = Byte(ridx', 1) /\ InOrder(Stream') BY <1>2, InPlaceRecv
  <2> QED BY <2>1 DEF Byte, InOrder, Ahead, MsgOf, PosOf, LenOf
<1>3. CASE Consume
  <2>1. Stream'[1] = Byte(ridx', 1) /\ InOrder(Stream') BY <1>3, InPlaceConsume
  <2> QED BY <2>1 DEF Byte, InOrder, Ahead, MsgOf, PosOf, LenOf
<1>4. ASSUME ~cut, UNCHANGED <<buffer, wire, sidx, sent, ridx>>
      PROVE  (Stream[1] = Byte(ridx, 1) /\ InOrder(Stream))'
  <2>1. Stream' = Stream /\ ridx' = ridx BY <1>4 DEF Stream
  <2>2. Stream[1] = Byte(ridx, 1) /\ InOrder(Stream) BY <1>4 DEF InPlace
  <2> QED BY <2>1, <2>2 DEF InOrder, Byte, Ahead, MsgOf, PosOf, LenOf
<1>5. CASE SendCall
  <2>1. ~cut /\ ~(sent > 0) /\ sent' = 0 /\ UNCHANGED <<buffer, wire, sidx, ridx>>
    BY <1>5 DEF SendCall, recvVars
  <2>2. sent = 0 BY <2>1 DEF TypeOK
  <2> QED BY <1>4, <2>1, <2>2
<1>6. CASE RecvCall
  <2>1. ~cut /\ buffer = <<>> /\ buffer' = <<>> /\ UNCHANGED <<wire, sidx, sent, ridx>>
    BY <1>6 DEF RecvCall, sendVars
  <2> QED BY <1>4, <2>1
<1>7. CASE SendFails \/ SendKilled \/ SenderCloses
  BY <1>4, <1>7 DEF SendFails, SendKilled, SenderCloses, recvVars
<1>8. CASE RecvFails \/ RecvHangup \/ ReceiverCloses
  BY <1>4, <1>8 DEF RecvFails, RecvHangup, ReceiverCloses, sendVars
<1>9. CASE UNCHANGED vars BY <1>4, <1>9 DEF vars, sendVars, recvVars
<1> QED BY <1>1, <1>2, <1>3, <1>5, <1>6, <1>7, <1>8, <1>9 DEF Next, SendStep, RecvStep

----------------------------------------------------------------------------
(* The invariant holds on a new connection.                                 *)
LEMMA SockInit == Init => SockInv
<1> SUFFICES ASSUME Init PROVE SockInv OBVIOUS
<1>0. Len(Messages) \in Nat /\ MaxErrors \in Nat /\ WireSize \in Nat BY SocketConstants
<1>1. TypeOK
  <2>1. nonblocking \in BOOLEAN /\ cut \in BOOLEAN BY DEF Init
  <2>2. errors \in 0..MaxErrors /\ sent \in Nat BY <1>0 DEF Init
  <2>3. sidx \in 1..(Len(Messages) + 1) /\ ridx \in 1..(Len(Messages) + 1) BY <1>0 DEF Init
  <2>4. wire \in Seq(Bytes) /\ Len(wire) <= WireSize /\ buffer \in Seq(Bytes) BY <1>0 DEF Init
  <2>5. /\ spc \in {"idle", "busy", "closed", "killed"} /\ rpc \in {"idle", "busy", "closed"}
        /\ sres \in Results /\ rres \in Results
    BY DEF Init, Results
  <2> QED BY <2>1, <2>2, <2>3, <2>4, <2>5 DEF TypeOK
<1>2. Sender /\ Receiver
  <2>1. 1 <= Len(Messages) => LenOf(1) \in Nat \ {0} BY <1>0, MessageFacts
  <2>2. Sender
    <3>1. spc = "idle" /\ sidx = 1 /\ sent = 0 BY DEF Init
    <3> QED BY <2>1, <3>1 DEF Sender
  <2>3. Receiver
    <3>1. rpc = "idle" /\ ridx = 1 /\ buffer = <<>> BY DEF Init
    <3>2. Len(buffer) = 0 /\ ~Pending BY <3>1 DEF Pending
    <3> QED BY <2>1, <3>1, <3>2 DEF Receiver
  <2> QED BY <2>2, <2>3
<1>3. OnWire /\ HungUp BY DEF Init, OnWire, HungUp
<1>4. InPlace
  <2>1. Joined(Stream, <<>>, <<>>, Byte(1, 0 + 1)) BY <1>1, StreamJoined DEF Init
  <2>2. Len(Stream) = 1 /\ Stream[1] = Byte(1, 1) BY <2>1 DEF Joined
  <2> QED BY <2>2 DEF Init, InPlace, InOrder
<1> QED BY <1>1, <1>2, <1>3, <1>4 DEF SockInv

(* The inductive invariant holds in every behaviour of the two ends.        *)
THEOREM SocketInvariant == Spec => []SockInv
<1>1. Init => SockInv BY SockInit
<1>2. SockInv /\ [Next]_vars => SockInv'
  <2> SUFFICES ASSUME SockInv, [Next]_vars PROVE SockInv' OBVIOUS
  <2>1. TypeOK /\ Sender /\ Receiver /\ OnWire /\ HungUp /\ InPlace BY DEF SockInv
  <2>2. TypeOK' BY <2>1, TypeStep
  <2>3. Sender' /\ Receiver' BY <2>1, SenderStep, ReceiverStep
  <2>4. OnWire' /\ HungUp' BY <2>1, OnWireStep, HungUpStep
  <2>5. InPlace' BY <2>1, <2>2, InPlaceStep
  <2> QED BY <2>2, <2>3, <2>4, <2>5 DEF SockInv
<1> QED BY <1>1, <1>2, PTL DEF Spec

(* Every message arrives whole and in its own buffer, however send and recv *)
(* cut the stream, unless a failed call was repeated in the middle of a     *)
(* message or send_data or recv_data was short: for every list of messages, *)
(* chunk size and kernel buffer.                                            *)
THEOREM SocketStreamIntact == Spec => []StreamIntact
<1>1. SockInv => StreamIntact
  <2> SUFFICES ASSUME SockInv, ~cut
               PROVE  /\ Stream[1] = <<ridx, 1>>
                      /\ \A i \in 1..(Len(Stream) - 1) : Stream[i + 1] = Following(Stream[i])
    BY DEF StreamIntact
  <2>1. Stream[1] = Byte(ridx, 1) /\ InOrder(Stream) BY DEF SockInv, InPlace
  <2>2. TypeOK /\ OnWire /\ Receiver BY DEF SockInv
  <2>3. /\ Joined(Stream, buffer, wire, Byte(sidx, sent + 1)) /\ KnownFront(Stream, Len(Stream))
        /\ Len(buffer) \in Nat /\ Len(wire) \in Nat
    BY <2>2, StreamJoined
  <2>4. Len(Stream) = Len(buffer) + Len(wire) + 1 BY <2>3 DEF Joined
  <2>5. ASSUME NEW i \in 1..(Len(Stream) - 1) PROVE Stream[i + 1] = Following(Stream[i])
    <3> DEFINE b == Stream[i]
               m == MsgOf(b)
               p == PosOf(b)
    <3>1. i \in 1..Len(Stream) /\ i + 1 \in 1..Len(Stream) /\ i < i + 1 /\ (i + 1) - i = 1
      BY <2>3, <2>4
    <3>2. Ahead(b, Stream[i + 1], 1) BY <2>1, <3>1 DEF InOrder
    <3>3. m \in 1..Len(Messages) /\ p \in Nat BY <2>3 DEF KnownFront
    <3>4. LenOf(m) \in Nat BY <3>3, MessageFacts
    <3>5. p <= LenOf(m)
      <4>1. CASE i <= Len(buffer)
        <5>1. i \in 1..Len(Stream) /\ 1 \in 1..Len(Stream) BY <3>1, <2>3, <2>4
        <5>2. Stream[i] = Byte(ridx, i)
          <6>1. CASE i = 1 BY <2>1, <6>1
          <6>2. CASE i > 1
            <7>1. Ahead(Stream[1], Stream[i], i - 1) BY <2>1, <5>1, <6>2 DEF InOrder
            <7>2. MsgOf(Stream[1]) = ridx /\ PosOf(Stream[1]) = 1 BY <2>1, ByteFacts
            <7>3. 1 + (i - 1) = i OBVIOUS
            <7>4. i <= LenOf(ridx)
              <8>1. ridx <= Len(Messages) \/ buffer = <<>> BY <2>2, SocketConstants DEF Receiver, TypeOK
              <8>2. ridx <= Len(Messages) BY <4>1, <6>2, <8>1
              <8>3. ridx \in 1..Len(Messages) BY <2>2, <8>2, SocketConstants DEF TypeOK
              <8>4. Len(buffer) <= LenOf(ridx) /\ LenOf(ridx) \in Nat
                BY <2>2, <8>2, <8>3, MessageFacts DEF Receiver
              <8> QED BY <2>3, <4>1, <8>4
            <7> QED BY <7>1, <7>2, <7>3, <7>4 DEF Ahead
          <6> QED BY <6>1, <6>2
        <5>3. m = ridx /\ p = i BY <5>2, ByteFacts
        <5>4. ridx <= Len(Messages) BY <3>3, <5>3, SocketConstants
        <5>5. Len(buffer) <= LenOf(ridx) BY <2>2, <5>4 DEF Receiver
        <5> QED BY <2>3, <3>4, <4>1, <5>3, <5>5
      <4>2. CASE i > Len(buffer)
        <5>1. i - Len(buffer) \in 1..Len(wire) /\ Len(buffer) + (i - Len(buffer)) = i BY <2>3, <2>4, <4>2
        <5>2. b = wire[i - Len(buffer)] BY <2>3, <5>1 DEF Joined
        <5> QED BY <2>2, <5>1, <5>2 DEF OnWire, MsgOf, PosOf
      <4> QED BY <2>3, <4>1, <4>2
    <3> HIDE DEF m, p
    <3>6. /\ p + 1 <= LenOf(m) => Stream[i + 1] = Byte(m, p + 1)
          /\ p + 1 = LenOf(m) + 1 => Stream[i + 1] = Byte(m + 1, 1)
      BY <3>2 DEF Ahead, m, p
    <3>7. Following(b) = IF p < LenOf(m) THEN Byte(m, p + 1) ELSE Byte(m + 1, 1)
      BY DEF Following, Byte, m, p, MsgOf, PosOf, LenOf
    <3> HIDE DEF b
    <3>8. CASE p < LenOf(m) BY <3>3, <3>4, <3>6, <3>7, <3>8 DEF b
    <3>9. CASE p = LenOf(m) BY <3>3, <3>4, <3>6, <3>7, <3>9 DEF b
    <3> QED BY <3>3, <3>4, <3>5, <3>8, <3>9
  <2> QED BY <2>1, <2>5 DEF Byte
<1> QED BY <1>1, SocketInvariant, PTL

(* recv never writes behind the buffer it was given and send never reads    *)
(* behind its own, for every chunk size.                                    *)
THEOREM SocketWithinBuffer == Spec => []WithinBuffer
<1>1. SockInv => WithinBuffer
  <2> SUFFICES ASSUME SockInv PROVE WithinBuffer OBVIOUS
  <2>1. TypeOK /\ Receiver /\ OnWire BY DEF SockInv
  <2>2. DOMAIN wire = 1..Len(wire) BY <2>1 DEF TypeOK
  <2>3. ridx <= Len(Messages) => Len(buffer) <= Messages[ridx].len BY <2>1 DEF Receiver, LenOf
  <2>4. \A i \in DOMAIN wire : wire[i][2] <= Messages[wire[i][1]].len BY <2>1, <2>2 DEF OnWire, LenOf
  <2> QED BY <2>1, <2>3, <2>4 DEF WithinBuffer
<1> QED BY <1>1, SocketInvariant, PTL

(* What recv_all_data returns is true: E_SUCCESS of a whole message, and    *)
(* E_CONNECTION_CLOSED of an incomplete one that nothing will complete.     *)
THEOREM SocketResultsTell == Spec => []ResultsTell
<1>1. SockInv => ResultsTell
  <2> SUFFICES ASSUME SockInv, rpc = "idle", ridx <= Len(Messages), Messages[ridx].api = "all"
               PROVE  /\ Pending => Len(buffer) = Messages[ridx].len
                      /\ rres = "E_CONNECTION_CLOSED" =>
                           /\ spc \in {"closed", "killed"} /\ wire = <<>>
                           /\ Len(buffer) < Messages[ridx].len
    BY DEF ResultsTell
  <2>1. Receiver /\ HungUp BY DEF SockInv
  <2>2. Pending => Len(buffer) = Messages[ridx].len BY <2>1 DEF Receiver, LenOf, ApiOf
  <2>3. rres = "E_CONNECTION_CLOSED" =>
          spc \in {"closed", "killed"} /\ wire = <<>> /\ Len(buffer) < Messages[ridx].len
    BY <2>1 DEF HungUp, LenOf
  <2> QED BY <2>2, <2>3
<1> QED BY <1>1, SocketInvariant, PTL
=============================================================================
