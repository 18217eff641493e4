------------------------- MODULE TcpDatagramProofs -------------------------
(***************************************************************************)
(* Proofs about TcpDatagram, for any number of values of a byte, any       *)
(* datagrams and any way in which their bytes arrive.                      *)
(***************************************************************************)
EXTENDS TcpDatagram, SequenceTheorems, TLAPS

-----------------------------------------------------------------------------
(* Lengths and their two bytes.                                            *)

\* Two bytes make a value of msg_size_type.
LEMMA TwoBytes ==
  ASSUME NEW a \in Byte, NEW b \in Byte
  PROVE  a * Base + b \in MsgSize
<1>1. /\ a + 1 <= Base
      /\ a \in Nat
      /\ b \in Nat
      /\ b < Base
      /\ Base \in Nat
  BY BaseAssumption DEF Byte
<1>2. (a + 1) * Base <= Base * Base
  BY <1>1
<1>3. (a + 1) * Base = a * Base + Base
  BY <1>1
<1>4. a * Base \in Nat /\ Base * Base \in Nat
  BY <1>1
<1> QED
  BY <1>1, <1>2, <1>3, <1>4 DEF MsgSize

\* Quotient and remainder.
LEMMA DivMod ==
  ASSUME NEW n \in Nat, NEW d \in Nat, d > 0
  PROVE  /\ (n % d) \in 0..(d - 1)
         /\ (n \div d) \in Nat
         /\ (n \div d) * d + (n % d) = n
BY Z3

LEMMA ModSmall ==
  ASSUME NEW n \in Nat, NEW d \in Nat, n < d
  PROVE  n % d = n
BY Z3

LEMMA DivSmall ==
  ASSUME NEW n \in Nat, NEW d \in Nat, d > 0, n < d * d
  PROVE  n \div d < d
BY Z3

\* A length that was cut to msg_size_type.
LEMMA TruncateType ==
  ASSUME NEW n \in Nat
  PROVE  /\ Truncate(n) \in MsgSize
         /\ n \in MsgSize => Truncate(n) = n
<1>1. Base * Base \in Nat /\ Base * Base > 0
  BY BaseAssumption
<1>2. (n % (Base * Base)) \in 0..(Base * Base - 1)
  BY <1>1, DivMod
<1>3. n \in MsgSize => n < Base * Base
  BY <1>1 DEF MsgSize
<1>4. n \in MsgSize => n % (Base * Base) = n
  BY <1>1, <1>3, ModSmall
<1> QED
  BY <1>2, <1>4 DEF Truncate, MsgSize

\* Network byte order keeps a length.
LEMMA RoundTrip ==
  ASSUME NEW n \in MsgSize
  PROVE  /\ (n \div Base) \in Byte
         /\ (n % Base) \in Byte
         /\ (n \div Base) * Base + (n % Base) = n
<1>1. Base \in Nat /\ Base > 0 /\ Base * Base \in Nat
  BY BaseAssumption
<1>2. n \in Nat /\ n < Base * Base
  BY <1>1 DEF MsgSize
<1>3. n \div Base < Base
  BY <1>1, <1>2, DivSmall
<1>4. /\ (n % Base) \in 0..(Base - 1)
      /\ (n \div Base) \in Nat
      /\ (n \div Base) * Base + (n % Base) = n
  BY <1>1, <1>2, DivMod
<1> QED
  BY <1>1, <1>3, <1>4 DEF Byte

\* The frame of a datagram: two bytes of length, then the datagram.
LEMMA FrameShape ==
  ASSUME NEW m \in Messages
  PROVE  /\ Frame(m) \in Seq(Byte)
         /\ Len(Frame(m)) = 2 + Len(m)
         /\ \A j \in 1..Len(m) : Frame(m)[2 + j] = m[j]
         /\ Len(m) \in MsgSize => Frame(m)[1] * Base + Frame(m)[2] = Len(m)
<1> DEFINE t == Truncate(Len(m))
           h == <<t \div Base, t % Base>>
<1>1. m \in Seq(Byte) /\ Len(m) \in Nat
  BY MessagesAssumption
<1>2. t \in MsgSize /\ (Len(m) \in MsgSize => t = Len(m))
  BY <1>1, TruncateType
<1>3. /\ (t \div Base) \in Byte
      /\ (t % Base) \in Byte
      /\ (t \div Base) * Base + (t % Base) = t
  BY <1>2, RoundTrip
<1>4. Frame(m) = h \o m
  BY DEF Frame, NetworkOrder
<1> HIDE DEF t
<1>5. h \in Seq(Byte) /\ Len(h) = 2 /\ h[1] = t \div Base /\ h[2] = t % Base
  BY <1>3
<1> HIDE DEF h
<1>6. /\ h \o m \in Seq(Byte)
      /\ Len(h \o m) = 2 + Len(m)
      /\ (h \o m)[1] = h[1]
      /\ (h \o m)[2] = h[2]
      /\ \A j \in 1..Len(m) : (h \o m)[2 + j] = m[j]
  <2>1. /\ h \o m \in Seq(Byte)
        /\ Len(h \o m) = Len(h) + Len(m)
        /\ \A i \in 1..(Len(h) + Len(m)) :
             (h \o m)[i] = IF i <= Len(h) THEN h[i] ELSE m[i - Len(h)]
    BY <1>1, <1>5, ConcatProperties
  <2> QED
    BY <1>1, <1>5, <2>1
<1> QED
  BY <1>2, <1>3, <1>4, <1>5, <1>6

-----------------------------------------------------------------------------
(* The receiver's buffer.                                                  *)

LEMMA ResizeFacts ==
  ASSUME NEW b \in Seq(Byte), NEW n \in Nat
  PROVE  /\ Resize(b, n) \in Seq(Byte)
         /\ Len(Resize(b, n)) = n
         /\ \A k \in 1..n : k <= Len(b) => Resize(b, n)[k] = b[k]
<1>1. 0 \in Byte
  BY BaseAssumption DEF Byte
<1>2. \A k \in 1..n : (IF k <= Len(b) THEN b[k] ELSE 0) \in Byte
  BY <1>1
<1>3. Resize(b, n) \in [1..n -> Byte]
  BY <1>2 DEF Resize
<1> QED
  BY <1>3 DEF Resize

LEMMA PutFacts ==
  ASSUME bytes \in Seq(Byte), pos \in Nat,
         NEW b \in Seq(Byte), NEW at \in Nat, NEW n \in Nat,
         pos + n <= Len(bytes)
  PROVE  /\ Put(b, at, n) \in Seq(Byte)
         /\ Len(Put(b, at, n)) = Len(b)
         /\ \A k \in 1..Len(b) :
              Put(b, at, n)[k] =
                IF at < k /\ k <= at + n THEN bytes[pos + (k - at)] ELSE b[k]
<1>1. DOMAIN b = 1..Len(b) /\ Len(b) \in Nat
  OBVIOUS
<1>2. \A k \in 1..Len(b) :
        (IF at < k /\ k <= at + n THEN bytes[pos + (k - at)] ELSE b[k]) \in Byte
  <2> SUFFICES ASSUME NEW k \in 1..Len(b), at < k, k <= at + n
               PROVE  bytes[pos + (k - at)] \in Byte
    OBVIOUS
  <2>1. pos + (k - at) \in 1..Len(bytes)
    OBVIOUS
  <2> QED
    BY <2>1
<1>3. Put(b, at, n) \in [1..Len(b) -> Byte]
  BY <1>1, <1>2 DEF Put
<1> QED
  BY <1>1, <1>3 DEF Put

-----------------------------------------------------------------------------
(* Frames on a connection.                                                 *)

\* The bytes bs hold the frame of m behind the first p.
IsFrame(bs, p, m) ==
  /\ Len(m) \in MsgSize
  /\ p + 2 + Len(m) <= Len(bs)
  /\ bs[p + 1] * Base + bs[p + 2] = Len(m)
  /\ \A j \in 1..Len(m) : bs[p + 2 + j] = m[j]

\* Elements of a concatenation.
LEMMA ConcatAt ==
  ASSUME NEW s \in Seq(Byte), NEW t \in Seq(Byte)
  PROVE  /\ s \o t \in Seq(Byte)
         /\ Len(s \o t) = Len(s) + Len(t)
         /\ \A i \in 1..Len(s) : (s \o t)[i] = s[i]
         /\ \A i \in 1..Len(t) : (s \o t)[Len(s) + i] = t[i]
<1>1. /\ s \o t \in Seq(Byte)
      /\ Len(s \o t) = Len(s) + Len(t)
      /\ \A i \in 1..(Len(s) + Len(t)) :
           (s \o t)[i] = IF i <= Len(s) THEN s[i] ELSE t[i - Len(s)]
  BY ConcatProperties
<1>2. Len(s) \in Nat /\ Len(t) \in Nat
  OBVIOUS
<1>3. ASSUME NEW i \in 1..Len(s) PROVE (s \o t)[i] = s[i]
  BY <1>1, <1>2
<1>4. ASSUME NEW i \in 1..Len(t) PROVE (s \o t)[Len(s) + i] = t[i]
  <2>1. /\ Len(s) + i \in 1..(Len(s) + Len(t))
        /\ ~ (Len(s) + i <= Len(s))
        /\ (Len(s) + i) - Len(s) = i
    BY <1>2
  <2> QED
    BY <1>1, <2>1
<1> QED
  BY <1>1, <1>3, <1>4

\* A frame stays where it is when more is sent.
LEMMA FrameStays ==
  ASSUME NEW s \in Seq(Byte), NEW t \in Seq(Byte), NEW p \in Nat,
         NEW m \in Seq(Byte), IsFrame(s, p, m)
  PROVE  IsFrame(s \o t, p, m)
<1> DEFINE u == s \o t
           d == Len(m)
<1>1. /\ Len(u) = Len(s) + Len(t)
      /\ \A i \in 1..Len(s) : u[i] = s[i]
  BY ConcatAt
<1>2. Len(s) \in Nat /\ Len(t) \in Nat /\ d \in Nat
  OBVIOUS
<1>3. /\ d \in MsgSize
      /\ p + 2 + d <= Len(s)
      /\ s[p + 1] * Base + s[p + 2] = d
      /\ \A j \in 1..d : s[p + 2 + j] = m[j]
  BY DEF IsFrame
<1> HIDE DEF u, d
<1>4. p + 1 \in 1..Len(s) /\ p + 2 \in 1..Len(s)
  BY <1>2, <1>3
<1>5. u[p + 1] = s[p + 1] /\ u[p + 2] = s[p + 2]
  BY <1>1, <1>4
<1>6. ASSUME NEW j \in 1..d PROVE u[p + 2 + j] = m[j]
  <2>1. p + 2 + j \in 1..Len(s)
    BY <1>2, <1>3
  <2> QED
    BY <1>1, <1>3, <2>1
<1>7. p + 2 + d <= Len(u)
  BY <1>1, <1>2, <1>3
<1>8. u[p + 1] * Base + u[p + 2] = d
  BY <1>3, <1>5
<1> QED
  BY <1>3, <1>6, <1>7, <1>8 DEF IsFrame, u, d

\* A frame that is sent is on the connection, if its datagram fits.
LEMMA FrameSent ==
  ASSUME NEW s \in Seq(Byte), NEW m \in Messages, Len(m) \in MsgSize
  PROVE  /\ IsFrame(s \o Frame(m), Len(s), m)
         /\ Len(s \o Frame(m)) = Len(s) + 2 + Len(m)
<1> DEFINE f == Frame(m)
           u == s \o f
           d == Len(m)
           p == Len(s)
<1>1. /\ f \in Seq(Byte)
      /\ Len(f) = 2 + d
      /\ \A j \in 1..d : f[2 + j] = m[j]
      /\ f[1] * Base + f[2] = d
  BY FrameShape
<1>2. p \in Nat /\ d \in Nat /\ d \in MsgSize
  BY MessagesAssumption
<1> HIDE DEF f
<1>3. /\ Len(u) = p + Len(f)
      /\ \A i \in 1..Len(f) : u[p + i] = f[i]
  BY <1>1, ConcatAt
<1> HIDE DEF u, d, p
<1>4. 1 \in 1..Len(f) /\ 2 \in 1..Len(f)
  BY <1>1, <1>2
<1>5. u[p + 1] = f[1] /\ u[p + 2] = f[2]
  BY <1>3, <1>4
<1>6. ASSUME NEW j \in 1..d PROVE u[p + 2 + j] = m[j]
  <2>1. 2 + j \in 1..Len(f) /\ p + (2 + j) = p + 2 + j
    BY <1>1, <1>2
  <2> QED
    BY <1>1, <1>3, <2>1
<1>7. Len(u) = p + 2 + d
  BY <1>1, <1>2, <1>3
<1>8. u[p + 1] * Base + u[p + 2] = d
  BY <1>1, <1>5
<1> QED
  BY <1>2, <1>6, <1>7, <1>8 DEF IsFrame, u, d, p, f

-----------------------------------------------------------------------------
(* The inductive invariant.                                                *)

\* Where the bytes of datagram k begin, or will begin.
Start(k) == IF k <= Len(sent) THEN starts[k] ELSE Len(bytes)

\* The connection holds the frames of the datagrams sent, one after another.
Layout ==
  /\ Start(1) = 0
  /\ \A k \in 1..Len(sent) :
       /\ IsFrame(bytes, starts[k], sent[k])
       /\ Start(k + 1) = starts[k] + 2 + Len(sent[k])

\* The datagram the receiver is at, and where it begins.
Pending == Len(received) < Len(sent)
Current == sent[Len(received) + 1]
Here    == Start(Len(received) + 1)

\* The receiver's place in the stream agrees with its state.
Position ==
  /\ in_recv => Pending /\ Len(buf) = Len(Current) /\ pos = Here + 2
  /\ (~ in_recv /\ rstate.state = "finished") => pos = Here
  /\ (~ in_recv /\ rstate.state = "receiving_msg_size") =>
       /\ pos = Here + rstate.bytes_received
       /\ rstate.bytes_received = 1 => Pending /\ rstate.msg_size = bytes[Here + 1] * Base
  /\ rstate.state = "receiving_msg" =>
       /\ Pending
       /\ rstate.msg_size = Len(Current)
       /\ pos = Here + 2 + rstate.bytes_received
       /\ \A k \in 1..rstate.bytes_received : buf[k] = Current[k]

\* What holds of the receiver even after damage.
ReceiverOK ==
  /\ rstate.state = "receiving_msg_size" =>
       /\ rstate.bytes_received = 0 => rstate.msg_size = 0
       /\ rstate.bytes_received = 1 => \E b \in Byte : rstate.msg_size = b * Base
  /\ in_recv => rstate = Fresh \/ rstate.state = "finished"
  /\ (rstate.state = "receiving_msg" /\ rstate.bytes_received > 0) =>
       Len(buf) = rstate.msg_size

Types == TypeOK /\ ReceiverOK
Sync  == Layout /\ InOrder /\ Position
IInv  == Types /\ (damage = {} => Sync)

Damages == {"oversize", "array", "short_send", "truncated_recv"}

\* The datagram at hand and its place.
LEMMA AtFrame ==
  ASSUME Types, Sync, Pending
  PROVE  /\ Len(received) + 1 \in 1..Len(sent)
         /\ Here = starts[Len(received) + 1]
         /\ Here \in Nat
         /\ Current \in Seq(Byte)
         /\ IsFrame(bytes, Here, Current)
         /\ Start(Len(received) + 2) = Here + 2 + Len(Current)
<1> DEFINE k == Len(received) + 1
<1>1. /\ Len(received) \in Nat
      /\ Len(sent) \in Nat
      /\ sent \in Seq(Seq(Byte))
      /\ starts \in Seq(Nat)
      /\ Len(starts) = Len(sent)
  BY MessagesAssumption DEF Types, TypeOK
<1>2. k \in 1..Len(sent)
  BY <1>1 DEF Pending
<1>3. k + 1 = Len(received) + 2
  BY <1>1
<1>4. /\ IsFrame(bytes, starts[k], sent[k])
      /\ Start(k + 1) = starts[k] + 2 + Len(sent[k])
  BY <1>2 DEF Sync, Layout
<1>5. Here = starts[k]
  BY <1>1, <1>2 DEF Here, Start
<1>6. starts[k] \in Nat /\ sent[k] \in Seq(Byte)
  BY <1>1, <1>2
<1> QED
  BY <1>2, <1>3, <1>4, <1>5, <1>6 DEF Current

\* Without a datagram at hand the receiver is at the end of the stream.
LEMMA AtStreamEnd ==
  ASSUME Types, Sync, ~ Pending
  PROVE  Here = Len(bytes)
<1>1. Len(received) = Len(sent) /\ Len(received) \in Nat
  BY DEF Pending, Sync, InOrder, Types, TypeOK
<1> QED
  BY <1>1 DEF Here, Start

-----------------------------------------------------------------------------
(* Sending.                                                                *)

\* A send of any kind keeps the types.
LEMMA TransmitTypes ==
  ASSUME Types, NEW m \in Messages, NEW data \in Seq(Byte),
         NEW harm \in SUBSET Damages, Transmit(m, data, harm)
  PROVE  Types'
<1>1. /\ bytes' \in Seq(Byte)
      /\ Len(bytes') = Len(bytes) + Len(data)
  BY ConcatProperties DEF Transmit, Types, TypeOK
<1>2. pos' \in 0..Len(bytes')
  BY <1>1 DEF Transmit, Types, TypeOK, receiver
<1>3. /\ sent' \in Seq(Messages)
      /\ starts' \in Seq(Nat)
      /\ Len(starts') = Len(sent')
  BY DEF Transmit, Types, TypeOK
<1>4. damage' \subseteq Damages
  BY DEF Transmit, Types, TypeOK, Damages
<1> QED
  BY <1>1, <1>2, <1>3, <1>4
  DEF Transmit, Types, TypeOK, ReceiverOK, receiver, Damages, Fresh

\* A whole frame of a datagram that fits keeps the layout and the position.
LEMMA TransmitSync ==
  ASSUME Types, Sync, NEW m \in Messages, Len(m) \in MsgSize,
         Transmit(m, Frame(m), {})
  PROVE  Sync'
<1>1. /\ bytes \in Seq(Byte)
      /\ sent \in Seq(Seq(Byte))
      /\ starts \in Seq(Nat)
      /\ Len(starts) = Len(sent)
      /\ Len(sent) \in Nat
      /\ Len(bytes) \in Nat
      /\ m \in Seq(Byte)
  BY MessagesAssumption DEF Types, TypeOK
<1>2. /\ bytes' = bytes \o Frame(m)
      /\ sent' = Append(sent, m)
      /\ starts' = Append(starts, Len(bytes))
      /\ received' = received
      /\ in_recv' = in_recv
      /\ rstate' = rstate
      /\ buf' = buf
      /\ pos' = pos
  BY DEF Transmit, receiver
<1>3. /\ Len(sent') = Len(sent) + 1
      /\ \A k \in 1..Len(sent) : sent'[k] = sent[k]
      /\ sent'[Len(sent) + 1] = m
  BY <1>1, <1>2
<1>4. /\ Len(starts') = Len(sent) + 1
      /\ \A k \in 1..Len(sent) : starts'[k] = starts[k]
      /\ starts'[Len(sent) + 1] = Len(bytes)
  BY <1>1, <1>2
<1>5. /\ IsFrame(bytes', Len(bytes), m)
      /\ Len(bytes') = Len(bytes) + 2 + Len(m)
  BY <1>1, <1>2, FrameSent
<1>6. ASSUME NEW k \in 1..(Len(sent) + 1) PROVE Start(k)' = Start(k)
  <2>1. CASE k = Len(sent) + 1
    <3>1. k <= Len(sent') /\ ~ (k <= Len(sent)) /\ starts'[k] = Len(bytes)
      BY <1>1, <1>3, <1>4, <2>1
    <3> QED
      BY <3>1 DEF Start
  <2>2. CASE k # Len(sent) + 1
    <3>1. k \in 1..Len(sent)
      BY <1>1, <2>2
    <3>2. k <= Len(sent') /\ k <= Len(sent) /\ starts'[k] = starts[k]
      BY <1>1, <1>3, <1>4, <3>1
    <3> QED
      BY <3>2 DEF Start
  <2> QED
    BY <2>1, <2>2
<1>7. ASSUME NEW k, k = Len(sent) + 1
      PROVE  /\ IsFrame(bytes', starts'[k], sent'[k])
             /\ Start(k + 1)' = starts'[k] + 2 + Len(sent'[k])
  <2>1. ~ (k + 1 <= Len(sent'))
    BY <1>1, <1>3, <1>7
  <2>2. Start(k + 1)' = Len(bytes')
    BY <2>1 DEF Start
  <2> QED
    BY <1>3, <1>4, <1>5, <1>7, <2>2
<1>8. Layout'
  <2>1. Start(1)' = 0
    BY <1>1, <1>6 DEF Sync, Layout
  <2>2. ASSUME NEW k \in 1..Len(sent)
        PROVE  /\ IsFrame(bytes', starts'[k], sent'[k])
               /\ Start(k + 1)' = starts'[k] + 2 + Len(sent'[k])
    <3>1. /\ IsFrame(bytes, starts[k], sent[k])
          /\ Start(k + 1) = starts[k] + 2 + Len(sent[k])
      BY DEF Sync, Layout
    <3>2. starts[k] \in Nat /\ sent[k] \in Seq(Byte)
      BY <1>1
    <3>3. IsFrame(bytes', starts[k], sent[k])
      BY <1>1, <1>2, <3>1, <3>2, FrameStays, FrameShape
    <3>4. k + 1 \in 1..(Len(sent) + 1)
      BY <1>1
    <3>5. Start(k + 1)' = Start(k + 1)
      BY <1>6, <3>4
    <3> QED
      BY <1>3, <1>4, <3>1, <3>3, <3>5
  <2>3. ASSUME NEW k \in 1..Len(sent')
        PROVE  /\ IsFrame(bytes', starts'[k], sent'[k])
               /\ Start(k + 1)' = starts'[k] + 2 + Len(sent'[k])
    <3>1. CASE k = Len(sent) + 1
      BY <1>7, <3>1
    <3>2. CASE k # Len(sent) + 1
      <4>1. k \in 1..Len(sent)
        BY <1>1, <1>3, <3>2
      <4> QED
        BY <2>2, <4>1
    <3> QED
      BY <3>1, <3>2
  <2> QED
    BY <2>1, <2>3 DEF Layout
<1>9. Len(received) \in Nat /\ Len(received) <= Len(sent)
  BY DEF Sync, InOrder, Types, TypeOK
<1>10. InOrder'
  BY <1>1, <1>2, <1>3, <1>9 DEF Sync, InOrder
<1>11. Here' = Here
  <2>1. Len(received) + 1 \in 1..(Len(sent) + 1)
    BY <1>1, <1>9
  <2> QED
    BY <1>2, <1>6, <2>1 DEF Here
<1>12. ASSUME Pending
       PROVE  Pending' /\ Current' = Current /\ bytes'[Here + 1] = bytes[Here + 1]
  <2>1. Pending'
    BY <1>1, <1>2, <1>3, <1>9, <1>12 DEF Pending
  <2>2. Len(received) + 1 \in 1..Len(sent) /\ Here \in Nat /\ IsFrame(bytes, Here, Current)
        /\ Current \in Seq(Byte)
    BY <1>12, AtFrame
  <2>3. Current' = Current
    BY <1>2, <1>3, <2>2 DEF Current
  <2>4. Here + 2 + Len(Current) <= Len(bytes) /\ Len(Current) \in Nat
    BY <2>2 DEF IsFrame
  <2>5. Here + 1 \in 1..Len(bytes)
    BY <1>1, <2>2, <2>4
  <2>6. \A i \in 1..Len(bytes) : (bytes \o Frame(m))[i] = bytes[i]
    BY <1>1, FrameShape, ConcatAt
  <2> QED
    BY <1>2, <2>1, <2>3, <2>5, <2>6
<1>13. Position'
  BY <1>2, <1>11, <1>12 DEF Sync, Position
<1> QED
  BY <1>8, <1>10, <1>13 DEF Sync

-----------------------------------------------------------------------------
(* Receiving.                                                              *)

\* What a request for r bytes may return.
LEMMA ReturnedFacts ==
  ASSUME Types, NEW r \in Nat, NEW n \in Returned(r)
  PROVE  /\ n \in 0..r
         /\ pos \in Nat
         /\ Len(bytes) \in Nat
         /\ pos + n <= Len(bytes)
BY DEF Returned, Available, Types, TypeOK

\* Sequences are equal if they have the same length and elements.
LEMMA SameElements ==
  ASSUME NEW s \in Seq(Byte), NEW t \in Seq(Byte), Len(s) = Len(t),
         \A k \in 1..Len(s) : s[k] = t[k]
  PROVE  s = t
BY SeqEqual

\* Nothing is delivered: the datagram at hand stays the same.
LEMMA NoDelivery ==
  ASSUME Sync, UNCHANGED sender, received' = received
  PROVE  /\ Layout'
         /\ InOrder'
         /\ Here' = Here
         /\ Pending' = Pending
         /\ Current' = Current
         /\ bytes' = bytes
BY DEF Sync, Layout, InOrder, Here, Pending, Current, Start, sender

\* The datagram at hand is delivered: the next one follows it.
LEMMA Delivery ==
  ASSUME Types, Sync, Pending, UNCHANGED sender,
         received' = Append(received, Current)
  PROVE  /\ Layout'
         /\ InOrder'
         /\ Here' = Here + 2 + Len(Current)
<1> DEFINE n == Len(received)
<1>1. /\ received \in Seq(Seq(Byte))
      /\ n \in Nat
      /\ n + 1 \in 1..Len(sent)
      /\ Current \in Seq(Byte)
      /\ Len(sent) \in Nat
  BY AtFrame DEF Types, TypeOK
<1>2. bytes' = bytes /\ sent' = sent /\ starts' = starts
  BY DEF sender
<1>3. Layout'
  BY <1>2 DEF Sync, Layout, Start
<1>4. /\ Len(received') = n + 1
      /\ \A k \in 1..n : received'[k] = received[k]
      /\ received'[n + 1] = Current
  BY <1>1
<1>5. InOrder'
  <2>1. ASSUME NEW k \in 1..(n + 1) PROVE received'[k] = sent[k]
    <3>1. CASE k = n + 1
      BY <1>4, <3>1 DEF Current
    <3>2. CASE k # n + 1
      <4>1. k \in 1..n
        BY <1>1, <3>2
      <4> QED
        BY <1>4, <4>1 DEF Sync, InOrder
    <3> QED
      BY <3>1, <3>2
  <2>2. n + 1 <= Len(sent)
    BY <1>1
  <2> QED
    BY <1>2, <1>4, <2>1, <2>2 DEF InOrder
<1>6. Here' = Start(n + 2)
  <2>1. Len(received') + 1 = n + 2
    BY <1>1, <1>4
  <2> QED
    BY <1>2, <2>1 DEF Here, Start
<1> QED
  BY <1>3, <1>5, <1>6, AtFrame

\* The state a call of recv_size_part starts from.
Sizing(s) ==
  /\ s \in ReceiveState
  /\ s.state = "receiving_msg_size"
  /\ s.bytes_received < SizeBytes
  /\ s.bytes_received = 0 => s.msg_size = 0
  /\ s.bytes_received = 1 => \E b \in Byte : s.msg_size = b * Base

\* What recv_size_part can do: nothing, take the first byte of the length,
\* take both, or take the second.
SizeNone(s) == pos' = pos /\ rstate' = s

SizeFirst(s) ==
  /\ s.bytes_received = 0
  /\ pos + 1 <= Len(bytes)
  /\ pos' = pos + 1
  /\ rstate' = [msg_size |-> bytes[pos + 1] * Base, bytes_received |-> 1,
                state |-> "receiving_msg_size"]

SizeBoth(s) ==
  /\ s.bytes_received = 0
  /\ pos + 2 <= Len(bytes)
  /\ pos' = pos + 2
  /\ rstate' = [msg_size |-> bytes[pos + 1] * Base + bytes[pos + 2],
                bytes_received |-> 0, state |-> "receiving_msg"]

SizeSecond(s) ==
  /\ s.bytes_received = 1
  /\ pos + 1 <= Len(bytes)
  /\ pos' = pos + 1
  /\ rstate' = [msg_size |-> s.msg_size + bytes[pos + 1],
                bytes_received |-> 0, state |-> "receiving_msg"]

\* The bytes of a length that a call returned, weighted by their place.
LEMMA SizeCases ==
  ASSUME Types, NEW s, Sizing(s), RecvSizePart(s)
  PROVE  SizeNone(s) \/ SizeFirst(s) \/ SizeBoth(s) \/ SizeSecond(s)
<1> DEFINE r == s.bytes_received
           part(i, n) == IF r <= i /\ i < r + n
                         THEN bytes[pos + 1 + (i - r)] * Weight(i) ELSE 0
<1>1. /\ r \in {0, 1}
      /\ s.msg_size \in Nat
      /\ r = 0 => s.msg_size = 0
      /\ s = [msg_size |-> s.msg_size, bytes_received |-> r,
               state |-> "receiving_msg_size"]
  <2>1. s.msg_size \in MsgSize /\ r \in Nat /\ r < 2
    BY DEF Sizing, ReceiveState, SizeBytes
  <2>2. s.msg_size \in Nat
    BY <2>1, BaseAssumption DEF MsgSize
  <2> QED
    BY <2>1, <2>2 DEF Sizing, ReceiveState
<1>2. Base \in Nat /\ bytes \in Seq(Byte) /\ Byte \subseteq Nat /\ pos \in Nat
  BY BaseAssumption DEF Byte, Types, TypeOK
<1>3. PICK n \in Returned(2 - r) :
        /\ pos' = pos + n
        /\ rstate' = IF r + n = 2
                     THEN [msg_size |-> s.msg_size + part(0, n) + part(1, n),
                           bytes_received |-> 0, state |-> "receiving_msg"]
                     ELSE [msg_size |-> s.msg_size + part(0, n) + part(1, n),
                           bytes_received |-> r + n, state |-> "receiving_msg_size"]
  BY DEF RecvSizePart, SizeBytes, Sizing
<1>4. 2 - r \in Nat
  BY <1>1
<1>5. n \in 0..(2 - r) /\ pos + n <= Len(bytes) /\ Len(bytes) \in Nat
  BY <1>4, ReturnedFacts
<1>6. CASE n = 0
  <2>1. part(0, n) = 0 /\ part(1, n) = 0
    BY <1>1, <1>6
  <2>2. s.msg_size + 0 + 0 = s.msg_size /\ r + 0 = r /\ r # 2 /\ pos + 0 = pos
    BY <1>1, <1>2
  <2>3. rstate' = s /\ pos' = pos
    BY <1>1, <1>3, <1>6, <2>1, <2>2
  <2> QED
    BY <2>3 DEF SizeNone
<1>7. CASE r = 0 /\ n = 1
  <2>1. bytes[pos + 1] \in Nat
    <3>1. pos + 1 \in 1..Len(bytes)
      BY <1>2, <1>5, <1>7
    <3>2. bytes[pos + 1] \in Byte
      BY <1>2, <3>1
    <3> QED
      BY <1>2, <3>2
  <2>2. pos + 1 + (0 - 0) = pos + 1
    BY <1>2
  <2>3. part(0, n) = bytes[pos + 1] * Base /\ part(1, n) = 0
    BY <1>7, <2>2 DEF Weight
  <2>4. 0 + bytes[pos + 1] * Base + 0 = bytes[pos + 1] * Base
    BY <1>2, <2>1
  <2>5. rstate' = [msg_size |-> bytes[pos + 1] * Base, bytes_received |-> 1,
                   state |-> "receiving_msg_size"]
    BY <1>1, <1>3, <1>7, <2>3, <2>4
  <2> QED
    BY <1>3, <1>5, <1>7, <2>5 DEF SizeFirst
<1>8. CASE r = 0 /\ n = 2
  <2>1. bytes[pos + 1] \in Nat /\ bytes[pos + 2] \in Nat
    <3>1. pos + 1 \in 1..Len(bytes) /\ pos + 2 \in 1..Len(bytes)
      BY <1>2, <1>5, <1>8
    <3>2. bytes[pos + 1] \in Byte /\ bytes[pos + 2] \in Byte
      BY <1>2, <3>1
    <3> QED
      BY <1>2, <3>2
  <2>2. pos + 1 + (0 - 0) = pos + 1 /\ pos + 1 + (1 - 0) = pos + 2
    BY <1>2
  <2>3. part(0, n) = bytes[pos + 1] * Base /\ part(1, n) = bytes[pos + 2]
    BY <1>8, <2>1, <2>2 DEF Weight
  <2>4. 0 + bytes[pos + 1] * Base + bytes[pos + 2] = bytes[pos + 1] * Base + bytes[pos + 2]
    BY <1>2, <2>1
  <2> QED
    BY <1>1, <1>3, <1>5, <1>8, <2>3, <2>4 DEF SizeBoth
<1>9. CASE r = 1 /\ n = 1
  <2>1. bytes[pos + 1] \in Nat
    <3>1. pos + 1 \in 1..Len(bytes)
      BY <1>2, <1>5, <1>9
    <3>2. bytes[pos + 1] \in Byte
      BY <1>2, <3>1
    <3> QED
      BY <1>2, <3>2
  <2>2. pos + 1 + (1 - 1) = pos + 1
    BY <1>2
  <2>3. part(0, n) = 0 /\ part(1, n) = bytes[pos + 1]
    BY <1>9, <2>1, <2>2 DEF Weight
  <2>4. s.msg_size + 0 + bytes[pos + 1] = s.msg_size + bytes[pos + 1]
    BY <1>1, <2>1
  <2> QED
    BY <1>3, <1>5, <1>9, <2>3, <2>4 DEF SizeSecond
<1> QED
  BY <1>1, <1>5, <1>6, <1>7, <1>8, <1>9

\* A state of the receiver that is a part of a length, or a length.
LEMMA SizeTypes ==
  ASSUME Types, NEW s, Sizing(s), RecvSizePart(s), ~ in_recv,
         UNCHANGED <<sender, damage>>
  PROVE  Types'
<1>1. /\ bytes \in Seq(Byte) /\ bytes' = bytes
      /\ pos \in 0..Len(bytes) /\ Len(bytes) \in Nat
      /\ buf' = buf /\ in_recv' = FALSE /\ received' = received
  BY DEF RecvSizePart, sender, Types, TypeOK
<1>2. /\ pos' \in 0..Len(bytes)
      /\ rstate' \in ReceiveState
      /\ rstate'.state = "receiving_msg_size" => Sizing(rstate')
      /\ rstate'.state # "receiving_msg_size" => rstate'.bytes_received = 0
  <2>1. CASE SizeNone(s)
    BY <1>1, <2>1 DEF SizeNone, Sizing
  <2>2. CASE SizeFirst(s)
    <3>1. pos + 1 \in 1..Len(bytes)
      BY <1>1, <2>2 DEF SizeFirst
    <3>2. bytes[pos + 1] \in Byte /\ 0 \in Byte
      BY <1>1, <3>1, BaseAssumption DEF Byte
    <3>3. bytes[pos + 1] * Base + 0 \in MsgSize
      BY <3>2, TwoBytes
    <3>4. bytes[pos + 1] * Base + 0 = bytes[pos + 1] * Base
      BY <3>2, BaseAssumption DEF Byte
    <3>5. rstate' \in ReceiveState /\ Sizing(rstate')
      BY <2>2, <3>2, <3>3, <3>4 DEF SizeFirst, Sizing, ReceiveState, SizeBytes
    <3> QED
      BY <1>1, <2>2, <3>1, <3>5 DEF SizeFirst
  <2>3. CASE SizeBoth(s)
    <3>1. pos + 1 \in 1..Len(bytes) /\ pos + 2 \in 1..Len(bytes)
      BY <1>1, <2>3 DEF SizeBoth
    <3>2. bytes[pos + 1] \in Byte /\ bytes[pos + 2] \in Byte
      BY <1>1, <3>1
    <3>3. bytes[pos + 1] * Base + bytes[pos + 2] \in MsgSize
      BY <3>2, TwoBytes
    <3> QED
      BY <1>1, <2>3, <3>1, <3>3 DEF SizeBoth, ReceiveState
  <2>4. CASE SizeSecond(s)
    <3>1. pos + 1 \in 1..Len(bytes)
      BY <1>1, <2>4 DEF SizeSecond
    <3>2. bytes[pos + 1] \in Byte
      BY <1>1, <3>1
    <3>3. s.msg_size + bytes[pos + 1] \in MsgSize
      BY <2>4, <3>2, TwoBytes DEF SizeSecond, Sizing
    <3> QED
      BY <1>1, <2>4, <3>1, <3>3 DEF SizeSecond, ReceiveState
  <2> QED
    BY <2>1, <2>2, <2>3, <2>4, SizeCases
<1>3. /\ rstate'.state = "receiving_msg_size" => rstate'.bytes_received < SizeBytes
      /\ rstate'.state # "receiving_msg_size" => rstate'.bytes_received <= rstate'.msg_size
  <2>1. rstate'.msg_size \in Nat
    BY <1>2, BaseAssumption DEF ReceiveState, MsgSize
  <2> QED
    BY <1>2, <2>1 DEF Sizing
<1>4. TypeOK'
  BY <1>1, <1>2, <1>3 DEF Types, TypeOK, sender
<1>5. ReceiverOK'
  BY <1>1, <1>2 DEF ReceiverOK, Sizing
<1> QED
  BY <1>4, <1>5 DEF Types

\* The receiver is where the state of a partial length says.
SizingHere(s) ==
  /\ pos = Here + s.bytes_received
  /\ s.bytes_received = 1 => Pending /\ s.msg_size = bytes[Here + 1] * Base

\* Taking a part of the length keeps sender and receiver in step.
LEMMA SizeSync ==
  ASSUME Types, Sync, NEW s, Sizing(s), SizingHere(s), RecvSizePart(s), ~ in_recv,
         UNCHANGED <<sender, damage>>
  PROVE  Sync'
<1>1. /\ in_recv' = FALSE
      /\ received' = received
      /\ Len(bytes) \in Nat
  BY DEF RecvSizePart, Types, TypeOK
<1>2. /\ Layout' /\ InOrder'
      /\ Here' = Here /\ Pending' = Pending /\ Current' = Current /\ bytes' = bytes
  BY <1>1, NoDelivery
<1>3. ASSUME pos + 1 <= Len(bytes)
      PROVE  /\ Pending
             /\ Here \in Nat
             /\ Current \in Seq(Byte)
             /\ bytes[Here + 1] * Base + bytes[Here + 2] = Len(Current)
  <2>1. Pending
    <3>1. CASE s.bytes_received = 1
      BY <3>1 DEF SizingHere
    <3>2. CASE s.bytes_received = 0
      <4>1. Here + 0 = pos /\ pos \in Nat
        BY <3>2 DEF SizingHere, Types, TypeOK
      <4>2. ASSUME Here = Len(bytes) PROVE FALSE
        BY <1>1, <1>3, <4>1, <4>2
      <4> QED
        BY <4>2, AtStreamEnd
    <3>3. s.bytes_received \in {0, 1}
      BY DEF Sizing, ReceiveState, SizeBytes
    <3> QED
      BY <3>1, <3>2, <3>3
  <2> QED
    BY <2>1, AtFrame DEF IsFrame
<1>4. Position'
  <2>1. CASE SizeNone(s)
    <3>1. rstate' = s /\ pos' = pos
      BY <2>1 DEF SizeNone
    <3>2. rstate'.state = "receiving_msg_size"
      BY <3>1 DEF Sizing
    <3> QED
      BY <1>1, <1>2, <3>1, <3>2 DEF Position, SizingHere
  <2>2. CASE SizeFirst(s)
    <3>1. /\ rstate'.state = "receiving_msg_size"
          /\ rstate'.bytes_received = 1
          /\ rstate'.msg_size = bytes[pos + 1] * Base
          /\ pos' = pos + 1
      BY <2>2 DEF SizeFirst
    <3>2. Pending /\ Here \in Nat /\ pos = Here
      BY <1>3, <2>2 DEF SizeFirst, SizingHere
    <3> QED
      BY <1>1, <1>2, <3>1, <3>2 DEF Position
  <2>3. CASE SizeBoth(s)
    <3>1. /\ rstate'.state = "receiving_msg"
          /\ rstate'.bytes_received = 0
          /\ rstate'.msg_size = bytes[pos + 1] * Base + bytes[pos + 2]
          /\ pos' = pos + 2
          /\ pos + 2 <= Len(bytes)
      BY <2>3 DEF SizeBoth
    <3>2. pos + 1 <= Len(bytes)
      BY <1>1, <3>1 DEF Types, TypeOK
    <3>3. /\ Pending /\ Here \in Nat /\ pos = Here
          /\ bytes[Here + 1] * Base + bytes[Here + 2] = Len(Current)
      BY <1>3, <2>3, <3>2 DEF SizeBoth, SizingHere
    <3>4. pos' = Here + 2 + 0 /\ rstate'.msg_size = Len(Current)
      BY <3>1, <3>3
    <3> QED
      BY <1>1, <1>2, <3>1, <3>3, <3>4 DEF Position
  <2>4. CASE SizeSecond(s)
    <3>1. /\ rstate'.state = "receiving_msg"
          /\ rstate'.bytes_received = 0
          /\ rstate'.msg_size = s.msg_size + bytes[pos + 1]
          /\ pos' = pos + 1
          /\ pos + 1 <= Len(bytes)
      BY <2>4 DEF SizeSecond
    <3>2. /\ Pending /\ Here \in Nat
          /\ bytes[Here + 1] * Base + bytes[Here + 2] = Len(Current)
      BY <1>3, <3>1
    <3>3. pos = Here + 1 /\ s.msg_size = bytes[Here + 1] * Base
      BY <2>4 DEF SizeSecond, SizingHere
    <3>4. pos + 1 = Here + 2 /\ Here + 2 + 0 = Here + 2
      BY <3>2, <3>3
    <3>5. pos' = Here + 2 + 0 /\ rstate'.msg_size = Len(Current)
      BY <3>1, <3>2, <3>3, <3>4
    <3> QED
      BY <1>1, <1>2, <3>1, <3>2, <3>5 DEF Position
  <2> QED
    BY <2>1, <2>2, <2>3, <2>4, SizeCases
<1> QED
  BY <1>2, <1>4 DEF Sync

\* Any call that takes a part of a message keeps the types.
LEMMA MsgTypes ==
  ASSUME Types, rstate.state = "receiving_msg", ~ in_recv, RecvMsgPart,
         UNCHANGED <<sender, damage>>
  PROVE  Types'
<1> DEFINE size == rstate.msg_size
           got  == rstate.bytes_received
<1>1. size \in Nat /\ size \in MsgSize /\ got \in Nat /\ got <= size /\ size - got \in Nat
  BY BaseAssumption DEF Types, TypeOK, ReceiveState, MsgSize
<1>2. PICK n \in Returned(size - got) :
        /\ pos' = pos + n
        /\ buf' = Put(Resize(buf, size), got, n)
        /\ rstate' = [msg_size |-> size, bytes_received |-> got + n,
                      state |-> IF got + n = size THEN "finished" ELSE "receiving_msg"]
        /\ received' = IF got + n = size THEN Append(received, buf') ELSE received
        /\ in_recv' = in_recv
  BY DEF RecvMsgPart
<1>3. n \in 0..(size - got) /\ pos \in Nat /\ pos + n <= Len(bytes) /\ Len(bytes) \in Nat
  BY <1>1, ReturnedFacts
<1>4. Resize(buf, size) \in Seq(Byte) /\ Len(Resize(buf, size)) = size
  BY <1>1, ResizeFacts DEF Types, TypeOK
<1>5. n \in Nat /\ bytes \in Seq(Byte)
  BY <1>1, <1>3 DEF Types, TypeOK
<1>6. buf' \in Seq(Byte) /\ Len(buf') = size
  BY <1>1, <1>2, <1>3, <1>4, <1>5, PutFacts
<1>7. got + n \in Nat /\ got + n <= size
  BY <1>1, <1>3
<1>8. /\ rstate' \in ReceiveState
      /\ rstate'.state # "receiving_msg_size"
      /\ rstate'.bytes_received <= rstate'.msg_size
      /\ rstate'.msg_size = size
  BY <1>1, <1>2, <1>7 DEF ReceiveState
<1>9. received' \in Seq(Seq(Byte))
  BY <1>2, <1>6 DEF Types, TypeOK
<1>10. pos' \in 0..Len(bytes)
  BY <1>2, <1>3
<1>11. TypeOK'
  BY <1>2, <1>6, <1>8, <1>9, <1>10 DEF Types, TypeOK, sender
<1>12. ReceiverOK'
  BY <1>2, <1>6, <1>8 DEF ReceiverOK
<1> QED
  BY <1>11, <1>12 DEF Types

\* Taking a part of the message keeps sender and receiver in step: the parts
\* in the buffer are followed by the next one.
LEMMA MsgSync ==
  ASSUME Types, Sync, rstate.state = "receiving_msg", ~ in_recv, RecvMsgPart,
         UNCHANGED <<sender, damage>>
  PROVE  Sync'
<1> DEFINE size == rstate.msg_size
           got  == rstate.bytes_received
           b    == Resize(buf, size)
<1>1. size \in Nat /\ got \in Nat /\ got <= size /\ size - got \in Nat
  BY BaseAssumption DEF Types, TypeOK, ReceiveState, MsgSize
<1>2. PICK n \in Returned(size - got) :
        /\ pos' = pos + n
        /\ buf' = Put(b, got, n)
        /\ rstate' = [msg_size |-> size, bytes_received |-> got + n,
                      state |-> IF got + n = size THEN "finished" ELSE "receiving_msg"]
        /\ received' = IF got + n = size THEN Append(received, buf') ELSE received
        /\ in_recv' = in_recv
  BY DEF RecvMsgPart
<1>3. n \in 0..(size - got) /\ pos \in Nat /\ pos + n <= Len(bytes) /\ Len(bytes) \in Nat
  BY <1>1, ReturnedFacts
<1>4. n \in Nat /\ bytes \in Seq(Byte) /\ buf \in Seq(Byte)
  BY <1>1, <1>3 DEF Types, TypeOK
<1>5. /\ Pending
      /\ size = Len(Current)
      /\ pos = Here + 2 + got
      /\ \A k \in 1..got : buf[k] = Current[k]
  BY DEF Sync, Position
<1>6. /\ Here \in Nat
      /\ Current \in Seq(Byte)
      /\ \A j \in 1..Len(Current) : bytes[Here + 2 + j] = Current[j]
  BY <1>5, AtFrame DEF IsFrame
<1>7. /\ b \in Seq(Byte)
      /\ Len(b) = size
      /\ \A k \in 1..size : k <= Len(buf) => b[k] = buf[k]
  BY <1>1, <1>4, ResizeFacts
<1>8. got > 0 => Len(buf) = size
  BY DEF Types, ReceiverOK
<1> HIDE DEF b, size, got
<1>9. /\ buf' \in Seq(Byte)
      /\ Len(buf') = size
      /\ \A k \in 1..size :
           buf'[k] = IF got < k /\ k <= got + n THEN bytes[pos + (k - got)] ELSE b[k]
  <2>1. /\ Put(b, got, n) \in Seq(Byte)
        /\ Len(Put(b, got, n)) = Len(b)
        /\ \A k \in 1..Len(b) : Put(b, got, n)[k] =
             IF got < k /\ k <= got + n THEN bytes[pos + (k - got)] ELSE b[k]
    BY <1>1, <1>3, <1>4, <1>7, PutFacts
  <2> QED
    BY <1>2, <1>7, <2>1
<1>10. ASSUME NEW k \in 1..(got + n) PROVE buf'[k] = Current[k]
  <2>1. k \in 1..size /\ got + n <= size
    BY <1>1, <1>3
  <2>2. CASE k <= got
    <3>1. k \in 1..got /\ got > 0 /\ k <= size
      BY <1>1, <2>1, <2>2
    <3>2. buf'[k] = b[k]
      BY <1>1, <1>9, <2>1, <3>1
    <3>3. b[k] = buf[k]
      BY <1>7, <1>8, <2>1, <3>1
    <3> QED
      BY <1>5, <3>1, <3>2, <3>3
  <2>3. CASE got < k
    <3>1. pos + (k - got) = Here + 2 + k
      BY <1>1, <1>5, <1>6
    <3>2. buf'[k] = bytes[Here + 2 + k]
      BY <1>9, <2>1, <2>3, <3>1
    <3>3. k \in 1..Len(Current)
      BY <1>5, <2>1
    <3> QED
      BY <1>6, <3>2, <3>3
  <2> QED
    BY <1>1, <2>2, <2>3
<1>11. CASE got + n = size
  <2>1. buf' = Current
    <3>1. \A k \in 1..Len(buf') : buf'[k] = Current[k]
      BY <1>9, <1>10, <1>11
    <3>2. Len(buf') = Len(Current)
      BY <1>5, <1>9
    <3> QED
      BY <1>6, <1>9, <3>1, <3>2, SameElements
  <2>2. received' = Append(received, Current)
    BY <1>2, <1>11, <2>1
  <2>3. Layout' /\ InOrder' /\ Here' = Here + 2 + Len(Current)
    BY <1>5, <2>2, Delivery
  <2>4. pos' = Here'
    <3>1. pos' = pos + n
      BY <1>2
    <3>2. pos = Here + 2 + got /\ size = Len(Current)
      BY <1>5
    <3>3. Here \in Nat
      BY <1>6
    <3>4. pos + n = Here + 2 + (got + n)
      BY <1>1, <1>3, <3>2, <3>3
    <3> QED
      BY <1>11, <2>3, <3>1, <3>2, <3>4
  <2>5. rstate'.state = "finished" /\ in_recv' = FALSE
    BY <1>2, <1>11
  <2> QED
    BY <2>3, <2>4, <2>5 DEF Sync, Position
<1>12. CASE got + n # size
  <2>1. received' = received
    BY <1>2, <1>12
  <2>2. /\ Layout' /\ InOrder'
        /\ Here' = Here /\ Pending' = Pending /\ Current' = Current
    BY <2>1, NoDelivery
  <2>3. /\ rstate'.state = "receiving_msg"
        /\ rstate'.bytes_received = got + n
        /\ rstate'.msg_size = size
        /\ in_recv' = FALSE
    BY <1>2, <1>12
  <2>4. pos' = Here + 2 + (got + n)
    BY <1>1, <1>2, <1>3, <1>4, <1>5, <1>6
  <2> QED
    BY <1>5, <1>10, <2>2, <2>3, <2>4 DEF Sync, Position
<1> QED
  BY <1>11, <1>12

\* A call of recv_part, whatever it returns.
LEMMA RecvPartStep ==
  ASSUME IInv, RecvPart
  PROVE  IInv'
<1>1. Types /\ ~ in_recv /\ UNCHANGED <<sender, damage>>
  BY DEF IInv, RecvPart
<1>2. damage' = damage
  BY <1>1
<1>3. CASE rstate.state = "receiving_msg_size" /\ RecvSizePart(rstate)
  <2>1. Sizing(rstate)
    BY <1>1, <1>3 DEF Types, TypeOK, ReceiverOK, Sizing
  <2>2. Types'
    BY <1>1, <1>3, <2>1, SizeTypes
  <2>3. ASSUME Sync PROVE Sync'
    <3>1. SizingHere(rstate)
      BY <1>1, <1>3, <2>3 DEF Sync, Position, SizingHere
    <3> QED
      BY <1>1, <1>3, <2>1, <2>3, <3>1, SizeSync
  <2> QED
    BY <1>2, <2>2, <2>3 DEF IInv
<1>4. CASE rstate.state = "finished" /\ RecvSizePart(Fresh)
  <2>1. Sizing(Fresh)
    <3>1. 0 \in MsgSize
      BY BaseAssumption DEF MsgSize
    <3> QED
      BY <3>1 DEF Sizing, Fresh, ReceiveState, SizeBytes
  <2>2. Types'
    BY <1>1, <1>4, <2>1, SizeTypes
  <2>3. ASSUME Sync PROVE Sync'
    <3>1. pos = Here /\ pos \in Nat
      BY <1>1, <1>4, <2>3 DEF Sync, Position, Types, TypeOK
    <3>2. SizingHere(Fresh)
      BY <3>1 DEF SizingHere, Fresh
    <3> QED
      BY <1>1, <1>4, <2>1, <2>3, <3>2, SizeSync
  <2> QED
    BY <1>2, <2>2, <2>3 DEF IInv
<1>5. CASE rstate.state = "receiving_msg" /\ RecvMsgPart
  BY <1>1, <1>2, <1>5, MsgTypes, MsgSync DEF IInv
<1> QED
  BY <1>3, <1>4, <1>5 DEF RecvPart

\* recv_part throws: the buffer is resized, and keeps what it had.
LEMMA RecvPartThrowsStep ==
  ASSUME IInv, RecvPartThrows
  PROVE  IInv'
<1>1. /\ Types /\ ~ in_recv /\ rstate.state = "receiving_msg"
      /\ buf' = Resize(buf, rstate.msg_size)
      /\ UNCHANGED <<sender, damage, pos, rstate, in_recv, received>>
  BY DEF IInv, RecvPartThrows
<1>2. /\ buf \in Seq(Byte)
      /\ rstate.msg_size \in Nat
      /\ rstate.bytes_received \in Nat
      /\ rstate.bytes_received <= rstate.msg_size
  BY <1>1, BaseAssumption DEF Types, TypeOK, ReceiveState, MsgSize
<1>3. /\ buf' \in Seq(Byte)
      /\ Len(buf') = rstate.msg_size
      /\ \A k \in 1..rstate.msg_size : k <= Len(buf) => buf'[k] = buf[k]
  BY <1>1, <1>2, ResizeFacts
<1>4. Types'
  BY <1>1, <1>3 DEF Types, TypeOK, ReceiverOK, sender
<1>5. ASSUME Sync PROVE Sync'
  <2>1. /\ Layout' /\ InOrder'
        /\ Here' = Here /\ Pending' = Pending /\ Current' = Current
    BY <1>1, <1>5, NoDelivery
  <2>2. ASSUME NEW k \in 1..rstate.bytes_received PROVE buf'[k] = Current[k]
    <3>1. k \in 1..rstate.msg_size /\ rstate.bytes_received > 0
      BY <1>2
    <3>2. Len(buf) = rstate.msg_size
      BY <1>1, <3>1 DEF Types, ReceiverOK
    <3>3. buf'[k] = buf[k]
      BY <1>3, <3>1, <3>2
    <3> QED
      BY <1>1, <1>5, <3>3 DEF Sync, Position
  <2> QED
    BY <1>1, <1>5, <2>1, <2>2 DEF Sync, Position
<1> QED
  BY <1>1, <1>4, <1>5 DEF IInv

\* Between datagrams the receiver is at the beginning of the next one.
LEMMA BetweenHere ==
  ASSUME Types, Sync, BetweenDatagrams
  PROVE  pos = Here
<1>1. pos \in Nat /\ Here + 0 = pos => pos = Here
  <2>1. Here \in Nat
    <3>1. CASE Pending
      BY <3>1, AtFrame
    <3>2. CASE ~ Pending
      BY <3>2, AtStreamEnd DEF Types, TypeOK
    <3> QED
      BY <3>1, <3>2
  <2> QED
    BY <2>1
<1>2. pos \in Nat
  BY DEF Types, TypeOK
<1> QED
  BY <1>1, <1>2 DEF BetweenDatagrams, Sync, Position, Fresh

\* recv takes a length.
LEMMA RecvLengthStep ==
  ASSUME IInv, RecvLength
  PROVE  IInv'
<1> DEFINE size == bytes[pos + 1] * Base + bytes[pos + 2]
<1>1. /\ Types /\ BetweenDatagrams
      /\ pos' = pos + 2
      /\ buf' = Resize(buf, size)
      /\ in_recv' = TRUE
      /\ UNCHANGED <<sender, damage, rstate, received>>
  BY DEF IInv, RecvLength, SizeBytes
<1>2. /\ pos \in Nat /\ Len(bytes) \in Nat /\ pos + 2 <= Len(bytes)
      /\ bytes \in Seq(Byte) /\ buf \in Seq(Byte)
  BY <1>1 DEF RecvLength, SizeBytes, Available, Types, TypeOK
<1>3. pos + 1 \in 1..Len(bytes) /\ pos + 2 \in 1..Len(bytes)
  BY <1>2
<1>4. bytes[pos + 1] \in Byte /\ bytes[pos + 2] \in Byte
  BY <1>2, <1>3
<1>5. size \in MsgSize /\ size \in Nat
  <2>1. size \in MsgSize
    BY <1>4, TwoBytes
  <2> QED
    BY <2>1, BaseAssumption DEF MsgSize
<1>6. buf' \in Seq(Byte) /\ Len(buf') = size
  BY <1>1, <1>2, <1>5, ResizeFacts
<1>7. Types'
  <2>1. pos' \in 0..Len(bytes)
    BY <1>1, <1>2
  <2>2. TypeOK'
    BY <1>1, <1>6, <2>1 DEF Types, TypeOK, sender
  <2>3. rstate.state # "receiving_msg"
    BY <1>1 DEF BetweenDatagrams, Fresh
  <2>4. ReceiverOK'
    BY <1>1, <2>3 DEF Types, ReceiverOK, BetweenDatagrams
  <2> QED
    BY <2>2, <2>4 DEF Types
<1>8. ASSUME Sync PROVE Sync'
  <2>1. pos = Here
    BY <1>1, <1>8, BetweenHere
  <2>2. Pending
    BY <1>1, <1>2, <1>8, <2>1, AtStreamEnd
  <2>3. bytes[Here + 1] * Base + bytes[Here + 2] = Len(Current)
    BY <1>1, <1>8, <2>2, AtFrame DEF IsFrame
  <2>4. /\ Layout' /\ InOrder'
        /\ Here' = Here /\ Pending' = Pending /\ Current' = Current
    BY <1>1, <1>8, NoDelivery
  <2>5. Len(buf') = Len(Current) /\ pos' = Here + 2
    BY <1>1, <1>6, <2>1, <2>3
  <2>6. rstate'.state # "receiving_msg"
    BY <1>1 DEF BetweenDatagrams, Fresh
  <2> QED
    BY <1>1, <2>2, <2>4, <2>5, <2>6 DEF Sync, Position
<1> QED
  BY <1>1, <1>7, <1>8 DEF IInv

\* recv takes a message.
LEMMA RecvMessageStep ==
  ASSUME IInv, RecvMessage
  PROVE  IInv'
<1>1. /\ Types /\ in_recv
      /\ pos' = pos + Len(buf)
      /\ buf' = Put(buf, 0, Len(buf))
      /\ in_recv' = FALSE
      /\ received' = Append(received, buf')
      /\ UNCHANGED <<sender, damage, rstate>>
  BY DEF IInv, RecvMessage
<1>2. /\ bytes \in Seq(Byte) /\ buf \in Seq(Byte) /\ Len(buf) \in Nat
  BY <1>1 DEF Types, TypeOK
<1>3. pos \in Nat /\ Len(bytes) \in Nat /\ pos + Len(buf) <= Len(bytes)
  BY <1>1, <1>2, ReturnedFacts DEF RecvMessage
<1>4. /\ buf' \in Seq(Byte)
      /\ Len(buf') = Len(buf)
      /\ \A k \in 1..Len(buf) :
           buf'[k] = IF 0 < k /\ k <= 0 + Len(buf) THEN bytes[pos + (k - 0)] ELSE buf[k]
  BY <1>1, <1>2, <1>3, PutFacts
<1>5. ASSUME NEW k \in 1..Len(buf) PROVE buf'[k] = bytes[pos + k]
  <2>1. 0 < k /\ k <= 0 + Len(buf) /\ k - 0 = k
    BY <1>2
  <2> QED
    BY <1>4, <2>1
<1>6. rstate = Fresh \/ rstate.state = "finished"
  BY <1>1 DEF Types, ReceiverOK
<1>7. Types'
  <2>1. pos' \in 0..Len(bytes)
    BY <1>1, <1>2, <1>3
  <2>2. received' \in Seq(Seq(Byte))
    BY <1>1, <1>4 DEF Types, TypeOK
  <2>3. TypeOK'
    BY <1>1, <1>4, <2>1, <2>2 DEF Types, TypeOK, sender
  <2>4. ReceiverOK'
    BY <1>1, <1>6 DEF Types, ReceiverOK, Fresh
  <2> QED
    BY <2>3, <2>4 DEF Types
<1>8. ASSUME Sync PROVE Sync'
  <2>1. Pending /\ Len(buf) = Len(Current) /\ pos = Here + 2
    BY <1>1, <1>8 DEF Sync, Position
  <2>2. /\ Here \in Nat
        /\ Current \in Seq(Byte)
        /\ \A j \in 1..Len(Current) : bytes[Here + 2 + j] = Current[j]
    BY <1>1, <1>8, <2>1, AtFrame DEF IsFrame
  <2>3. buf' = Current
    <3>1. ASSUME NEW k \in 1..Len(buf') PROVE buf'[k] = Current[k]
      BY <1>4, <1>5, <2>1, <2>2
    <3>2. Len(buf') = Len(Current)
      BY <1>4, <2>1
    <3> QED
      BY <1>4, <2>2, <3>1, <3>2, SameElements
  <2>4. Layout' /\ InOrder' /\ Here' = Here + 2 + Len(Current)
    BY <1>1, <1>8, <2>1, <2>3, Delivery
  <2>5. pos' = Here' /\ Here' + 0 = Here'
    BY <1>1, <1>2, <2>1, <2>2, <2>4
  <2> QED
    BY <1>1, <1>6, <2>4, <2>5 DEF Sync, Position, Fresh
<1> QED
  BY <1>1, <1>7, <1>8 DEF IInv

\* The calls that transfer only a part end the promise.
LEMMA TruncatedStep ==
  ASSUME IInv, RecvLengthTruncated \/ RecvMessageTruncated
  PROVE  IInv'
<1>1. Types
  BY DEF IInv
<1>2. damage' = damage \cup {"truncated_recv"}
  BY DEF RecvLengthTruncated, RecvMessageTruncated
<1>3. damage' # {} /\ damage' \subseteq Damages
  BY <1>1, <1>2 DEF Types, TypeOK, Damages
<1>4. CASE RecvLengthTruncated
  <2>1. pos' \in 0..Len(bytes)
    BY <1>1, <1>4 DEF RecvLengthTruncated, Available, Types, TypeOK
  <2>2. TypeOK'
    BY <1>1, <1>3, <1>4, <2>1 DEF RecvLengthTruncated, Types, TypeOK, sender, Damages
  <2>3. ReceiverOK'
    BY <1>1, <1>4 DEF RecvLengthTruncated, Types, ReceiverOK, Fresh
  <2> QED
    BY <1>3, <2>2, <2>3 DEF IInv, Types
<1>5. CASE RecvMessageTruncated
  <2>1. PICK n \in 0..Len(buf) :
          n <= Available /\ pos' = pos + n /\ buf' = Put(buf, 0, n)
    BY <1>5 DEF RecvMessageTruncated
  <2>2. /\ bytes \in Seq(Byte) /\ buf \in Seq(Byte) /\ Len(buf) \in Nat
        /\ pos \in Nat /\ Len(bytes) \in Nat /\ n \in Nat
    BY <1>1, <2>1 DEF Types, TypeOK
  <2>3. pos + n <= Len(bytes)
    BY <1>1, <2>1, <2>2 DEF Available, Types, TypeOK
  <2>4. buf' \in Seq(Byte) /\ Len(buf') = Len(buf)
    BY <2>1, <2>2, <2>3, PutFacts
  <2>5. pos' \in 0..Len(bytes)
    BY <2>1, <2>2, <2>3
  <2>6. /\ UNCHANGED <<sender, rstate, received>>
        /\ in_recv' = FALSE
    BY <1>5 DEF RecvMessageTruncated
  <2>7. TypeOK'
    BY <1>1, <1>3, <2>4, <2>5, <2>6 DEF Types, TypeOK, sender, Damages
  <2>8. ReceiverOK'
    BY <1>1, <2>4, <2>6 DEF Types, ReceiverOK
  <2> QED
    BY <1>3, <2>7, <2>8 DEF IInv, Types
<1> QED
  BY <1>4, <1>5

\* Any call of send.
LEMMA SendStep ==
  ASSUME IInv, NEW m \in Messages,
         SendBuffer(m) \/ SendVector(m) \/ SendArray(m) \/ SendShort(m)
  PROVE  IInv'
<1>1. Types
  BY DEF IInv
<1>2. m \in Seq(Byte) /\ Frame(m) \in Seq(Byte) /\ Len(m) \in Nat
      /\ Len(Frame(m)) = 2 + Len(m)
  BY FrameShape, MessagesAssumption
<1>3. ASSUME Len(m) \in MsgSize, Transmit(m, Frame(m), {}) PROVE IInv'
  <2>1. Types'
    BY <1>1, <1>2, <1>3, TransmitTypes
  <2>2. damage' = damage
    BY <1>3 DEF Transmit
  <2>3. ASSUME Sync PROVE Sync'
    BY <1>1, <1>3, <2>3, TransmitSync
  <2> QED
    BY <2>1, <2>2, <2>3 DEF IInv
<1>4. ASSUME NEW data \in Seq(Byte), NEW harm \in Damages, Transmit(m, data, {harm})
      PROVE  IInv'
  <2>1. Types'
    BY <1>1, <1>4, TransmitTypes
  <2>2. damage' # {}
    BY <1>4 DEF Transmit
  <2> QED
    BY <2>1, <2>2 DEF IInv
<1>5. CASE SendBuffer(m)
  BY <1>3, <1>5 DEF SendBuffer
<1>6. CASE SendVector(m)
  <2>1. CASE Len(m) \in MsgSize
    BY <1>3, <1>6, <2>1 DEF SendVector
  <2>2. CASE Len(m) \notin MsgSize
    BY <1>2, <1>4, <1>6, <2>2 DEF SendVector, Damages
  <2> QED
    BY <2>1, <2>2
<1>7. CASE SendArray(m)
  <2>1. PICK rest \in {<<>>} \cup {<<b>> : b \in Byte} : Transmit(m, m \o rest, {"array"})
    BY <1>7 DEF SendArray
  <2>2. rest \in Seq(Byte)
    <3>1. CASE rest = <<>>
      BY <3>1
    <3>2. CASE rest # <<>>
      <4>1. PICK b \in Byte : rest = <<b>>
        BY <3>2
      <4> QED
        BY <4>1
    <3> QED
      BY <3>1, <3>2
  <2>3. m \o rest \in Seq(Byte)
    BY <1>2, <2>2, ConcatAt
  <2> QED
    BY <1>4, <2>1, <2>3 DEF Damages
<1>8. CASE SendShort(m)
  <2>1. PICK n \in 1..(Len(Frame(m)) - 1) :
          Transmit(m, SubSeq(Frame(m), 1, n), {"short_send"})
    BY <1>8 DEF SendShort
  <2>2. SubSeq(Frame(m), 1, n) \in Seq(Byte)
    <3>1. n \in Nat /\ n <= Len(Frame(m))
      BY <1>2, <2>1
    <3> QED
      BY <1>2, <3>1, SubSeqProperties
  <2> QED
    BY <1>4, <2>1, <2>2 DEF Damages
<1> QED
  BY <1>5, <1>6, <1>7, <1>8

-----------------------------------------------------------------------------
(* The theorems.                                                           *)

LEMMA InitIInv == Init => IInv
<1> SUFFICES ASSUME Init PROVE IInv
  OBVIOUS
<1>1. 0 \in MsgSize
  BY BaseAssumption DEF MsgSize
<1>2. Fresh \in ReceiveState
  BY <1>1 DEF Fresh, ReceiveState
<1>3. TypeOK
  <2>1. /\ bytes \in Seq(Byte) /\ Len(bytes) = 0
        /\ buf \in Seq(Byte)
        /\ sent \in Seq(Messages)
        /\ starts \in Seq(Nat) /\ Len(starts) = Len(sent)
        /\ received \in Seq(Seq(Byte))
    BY DEF Init
  <2>2. pos \in 0..Len(bytes) /\ damage \subseteq Damages
    BY <2>1 DEF Init
  <2>3. closed \in BOOLEAN /\ in_recv \in BOOLEAN
    BY DEF Init
  <2>4. /\ rstate \in ReceiveState
        /\ rstate.state = "receiving_msg_size"
        /\ rstate.bytes_received < SizeBytes
    BY <1>2 DEF Init, Fresh, SizeBytes
  <2> QED
    BY <2>1, <2>2, <2>3, <2>4 DEF TypeOK, Damages
<1>4. ReceiverOK
  BY DEF Init, ReceiverOK, Fresh
<1>5. Sync
  <2>1. Len(sent) = 0 /\ Len(received) = 0 /\ Len(bytes) = 0
    BY DEF Init
  <2>2. Layout /\ InOrder
    BY <2>1 DEF Layout, InOrder, Start
  <2>3. Here = 0 /\ pos = 0 /\ in_recv = FALSE /\ rstate = Fresh
    BY <2>1 DEF Init, Here, Start
  <2> QED
    BY <2>2, <2>3 DEF Sync, Position, Fresh
<1> QED
  BY <1>3, <1>4, <1>5 DEF IInv, Types

\* Nothing that IInv speaks of has changed.
LEMMA StutterStep ==
  ASSUME IInv,
         UNCHANGED <<bytes, sent, starts, receiver, damage>>,
         closed' \in BOOLEAN
  PROVE  IInv'
BY DEF IInv, Types, TypeOK, ReceiverOK, Sync, Layout, InOrder, Position, Pending,
       Current, Here, Start, receiver

LEMMA NextIInv == IInv /\ [Next]_vars => IInv'
<1> SUFFICES ASSUME IInv, [Next]_vars PROVE IInv'
  OBVIOUS
<1>1. ASSUME NEW m \in Messages,
             SendBuffer(m) \/ SendVector(m) \/ SendArray(m) \/ SendShort(m)
      PROVE  IInv'
  BY <1>1, SendStep
<1>2. CASE Shutdown
  BY <1>2, StutterStep DEF Shutdown
<1>3. CASE Receive
  BY <1>3, RecvPartStep, RecvLengthStep, RecvMessageStep DEF Receive
<1>4. CASE RecvPartThrows
  BY <1>4, RecvPartThrowsStep
<1>5. CASE RecvLengthTruncated \/ RecvMessageTruncated
  BY <1>5, TruncatedStep
<1>6. CASE UNCHANGED vars
  <2>1. closed \in BOOLEAN
    BY DEF IInv, Types, TypeOK
  <2> QED
    BY <1>6, <2>1, StutterStep DEF vars, sender
<1> QED
  BY <1>1, <1>2, <1>3, <1>4, <1>5, <1>6 DEF Next

LEMMA InductiveInvariant == Spec => []IInv
BY InitIInv, NextIInv, PTL DEF Spec

\* The types hold; in particular recv_part never asks for a negative number of
\* bytes and a length put together from its bytes fits its type, in whatever
\* parts it arrives, also after damage.
THEOREM TypeCorrect == Spec => []TypeOK
<1>1. IInv => TypeOK
  BY DEF IInv, Types
<1> QED
  BY <1>1, InductiveInvariant, PTL

\* send, recv and recv_part deliver the datagrams unchanged and in order.
THEOREM Intact == Spec => []DatagramsIntact
<1>1. IInv => DatagramsIntact
  BY DEF IInv, DatagramsIntact, Sync
<1> QED
  BY <1>1, InductiveInvariant, PTL

\* The buffer of recv_part holds the beginning of the datagram at hand.
THEOREM PartialCorrect == Spec => []PartialIsPrefix
<1>1. IInv => PartialIsPrefix
  BY DEF IInv, PartialIsPrefix, Sync, Position, Pending, Current
<1> QED
  BY <1>1, InductiveInvariant, PTL
=============================================================================
