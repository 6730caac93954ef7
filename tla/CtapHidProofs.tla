---------------------------- MODULE CtapHidProofs ----------------------------
(***************************************************************************)
(* Proofs about CtapHid, for any number of channels, any queue, any buffer and  *)
(* any lengths: the assembly stays in its buffer and has one sender; the layer    *)
(* implements CtapChannel, since the numbers of a channel's messages grow from   *)
(* what was executed, by what is assembled and what is in the queue, to what its   *)
(* client has still to write; and a message that is executed is whole, unless its  *)
(* channel lost a packet.                                                    *)
(***************************************************************************)
EXTENDS CtapHid, SequenceTheorems, TLAPS

\* A first packet has no sequence number; its fragment is number 0.
FirstPackets ==
    /\ \A c \in Channels : \A i \in 1 .. Len(out[c]) : out[c][i].init => out[c][i].seq = 0
    /\ \A i \in 1 .. Len(s_rx_queue) : s_rx_queue[i].init => s_rx_queue[i].seq = 0

\* An assembly that still takes packets is shorter than its message, and its
\* counters agree with its fragments.
Counters ==
    /\ pc = "dispatch" => s_hid.active
    /\ pc = "receive" /\ s_hid.active => s_hid.recv_len < s_hid.total_len
    /\ s_hid.active => /\ s_hid.recv_len = Len(s_hid.buf)
                       /\ s_hid.next_seq = Len(s_hid.buf) - 1

IInv == TypeOK /\ FirstPackets /\ Counters /\ OneSender

\* The packets of a message are packets, and only the first begins it.
LEMMA PacketsType ==
    ASSUME NEW c \in Channels, NEW n \in Nat, NEW total \in Lengths
    PROVE  /\ PacketsOf(c, n, total) \in Seq(Packet)
           /\ \A i \in 1 .. Len(PacketsOf(c, n, total)) :
                  PacketsOf(c, n, total)[i].init => PacketsOf(c, n, total)[i].seq = 0
<1>1. total \in Nat
  BY CtapHidAssumption
<1>2. \A i \in 1 .. total : PacketsOf(c, n, total)[i] \in Packet
  BY <1>1 DEF PacketsOf, Packet
<1>3. Len(PacketsOf(c, n, total)) = total
  BY <1>1 DEF PacketsOf
<1>4. PacketsOf(c, n, total) \in Seq(Packet)
  <2>1. DOMAIN PacketsOf(c, n, total) = 1 .. total
    BY DEF PacketsOf
  <2>2. PacketsOf(c, n, total) \in [1 .. total -> Packet]
    BY <1>2, <2>1 DEF PacketsOf
  <2> QED BY <1>1, <2>2, SeqDef
<1> QED BY <1>3, <1>4 DEF PacketsOf

LEMMA InitInv == Init => IInv
BY CtapHidAssumption DEF Init, IInv, TypeOK, FirstPackets, Counters, OneSender, Inactive

\* What a packet that the task takes is.
LEMMA ReceivedType ==
    ASSUME IInv, Receive
    PROVE  /\ Received \in Packet /\ (Received.init => Received.seq = 0)
           /\ s_rx_queue' \in Seq(Packet) /\ Len(s_rx_queue') <= QUEUE_LEN
           /\ out' \in [Channels -> Seq(Packet)] /\ sent' \in [Channels -> Nat]
           /\ lost' \subseteq Message
           /\ FirstPackets'
<1> USE DEF IInv, TypeOK, Receive
<1>1. Received \in Packet /\ (Received.init => Received.seq = 0)
  BY DEF FirstPackets, Received
<1>2. /\ s_rx_queue' \in Seq(Packet) /\ Len(s_rx_queue') = Len(s_rx_queue) - 1
      /\ \A i \in 1 .. Len(s_rx_queue') : s_rx_queue'[i] = s_rx_queue[i + 1]
  BY HeadTailProperties
<1>3. FirstPackets'
  BY <1>2 DEF FirstPackets
<1> QED BY <1>1, <1>2, <1>3, CtapHidAssumption

\* An assembly that is accepted keeps the invariant.
LEMMA AssembledInv ==
    ASSUME IInv, Receive, NEW h \in Assembly, Assembled(h),
           h.recv_len = Len(h.buf), h.next_seq = Len(h.buf) - 1, Len(h.buf) >= 1,
           h.recv_len <= h.total_len,
           \A i \in 1 .. Len(h.buf) : /\ h.buf[i].cid = h.cid
                                      /\ h.buf[i].seq = IF i = 1 THEN 0 ELSE i - 2
    PROVE  IInv'
<1>1. s_hid' = h /\ h.active
  BY DEF Assembled, Assembly
<1>2. handed' \in [Channels -> Seq(Nat)]
  <2>1. h.cid \in Channels /\ h.buf \in Seq(Fragment)
    BY DEF Assembly
  <2>2. h.buf[1] \in Fragment
    BY <2>1
  <2>3. h.buf[1].n \in Nat
    BY <2>2 DEF Fragment
  <2>4. handed \in [Channels -> Seq(Nat)] /\ handed[h.cid] \in Seq(Nat)
    BY <2>1 DEF IInv, TypeOK
  <2>5. Append(handed[h.cid], h.buf[1].n) \in Seq(Nat)
    BY <2>3, <2>4, AppendProperties
  <2>6. handed' = handed \/ handed' = [handed EXCEPT ![h.cid] = Append(handed[h.cid], h.buf[1].n)]
                         \/ handed' = [handed EXCEPT ![h.cid] = handed[h.cid]]
    BY DEF Assembled
  <2> QED BY <2>4, <2>5, <2>6
<1>3. pc' \in {"receive", "dispatch"} /\ refused' \subseteq Message
  BY DEF Assembled, IInv, TypeOK
<1>4. TypeOK'
  BY <1>1, <1>2, <1>3, ReceivedType DEF TypeOK
<1>5. Counters'
  <2>1. pc' = "receive" => h.recv_len < h.total_len
    BY DEF Assembled, Assembly, Receive
  <2> QED BY <1>1, <2>1 DEF Counters
<1>6. OneSender'
  BY <1>1 DEF OneSender
<1> QED BY <1>4, <1>5, <1>6, ReceivedType DEF IInv

\* A packet that is answered by an error and ends the assembly, or leaves it.
LEMMA ErrorInv ==
    ASSUME IInv, Receive, Error, s_hid' \in {s_hid, Inactive}
    PROVE  IInv'
<1>1. MessageOf(Received) \in Message
  BY ReceivedType DEF MessageOf, Message, Packet
<1>2. TypeOK'
  BY <1>1, ReceivedType DEF IInv, TypeOK, Error
<1>3. Counters' /\ OneSender'
  BY DEF IInv, TypeOK, Counters, OneSender, Error, Receive, Inactive
<1> QED BY <1>2, <1>3, ReceivedType DEF IInv

LEMMA StepInv == IInv /\ [Next]_vars => IInv'
<1> SUFFICES ASSUME IInv, [Next]_vars PROVE IInv'
  OBVIOUS
<1>1. CASE TooLong
  BY <1>1, ErrorInv DEF TooLong, Inactive
<1>2. CASE StrayPacket
  BY <1>2, ErrorInv DEF StrayPacket
<1>3. CASE WrongSequence
  BY <1>3, ErrorInv DEF WrongSequence, Inactive
<1>4. CASE InitPacket
  <2> DEFINE h == [active |-> TRUE, cid |-> Received.cid, total_len |-> Received.total,
                   recv_len |-> 1, next_seq |-> 0, buf |-> <<FragmentOf(Received)>>]
  <2>1. Receive /\ Assembled(h) /\ Received.init /\ Received.total <= CTAPHID_BUF_LEN
    BY <1>4 DEF InitPacket
  <2>2. Received \in Packet /\ Received.seq = 0
    BY <2>1, ReceivedType
  <2>3. FragmentOf(Received) \in Fragment /\ Received.total \in Nat \ {0}
    BY <2>2, CtapHidAssumption DEF FragmentOf, Fragment, Packet
  <2>4. h \in Assembly
    BY <2>1, <2>2, <2>3, CtapHidAssumption DEF Assembly, Packet
  <2>5. /\ Len(h.buf) = 1 /\ h.buf[1].cid = h.cid /\ h.buf[1].seq = 0
        /\ h.recv_len = 1 /\ h.next_seq = 0 /\ h.total_len >= 1
    BY <2>2, <2>3 DEF FragmentOf
  <2>6. \A i \in 1 .. Len(h.buf) : /\ h.buf[i].cid = h.cid
                                  /\ h.buf[i].seq = IF i = 1 THEN 0 ELSE i - 2
    BY <2>5
  <2> HIDE DEF h
  <2>7. /\ h.recv_len = Len(h.buf) /\ h.next_seq = Len(h.buf) - 1 /\ Len(h.buf) >= 1
        /\ h.recv_len <= h.total_len
    BY <2>5
  <2>8. Receive /\ Assembled(h)
    BY <2>1
  <2> QED BY <2>4, <2>6, <2>7, <2>8, AssembledInv
<1>5. CASE Continuation
  <2>1. /\ Receive /\ Assembled(Extended) /\ s_hid.active /\ s_hid.cid = Received.cid
        /\ Received.seq = s_hid.next_seq /\ pc = "receive"
    BY <1>5 DEF Continuation, Foreign, Receive
  <2>2. s_hid \in Assembly /\ Received \in Packet
    BY <2>1, ReceivedType DEF IInv, TypeOK, Inactive
  <2>3. /\ s_hid.recv_len < s_hid.total_len /\ s_hid.recv_len = Len(s_hid.buf)
        /\ s_hid.next_seq = Len(s_hid.buf) - 1
    BY <2>1 DEF IInv, Counters
  <2>4. FragmentOf(Received) \in Fragment
    BY <2>2 DEF FragmentOf, Fragment, Packet
  <2>5. Remaining > 0
    BY <2>2, <2>3 DEF Remaining, Assembly
  <2> DEFINE buf == Append(s_hid.buf, FragmentOf(Received))
  <2>6. Extended = [active |-> TRUE, cid |-> s_hid.cid, total_len |-> s_hid.total_len,
                    recv_len |-> s_hid.recv_len + 1, next_seq |-> s_hid.next_seq + 1,
                    buf |-> buf]
    <3>1. Extended = [s_hid EXCEPT !.next_seq = s_hid.next_seq + 1,
                                   !.recv_len = s_hid.recv_len + 1, !.buf = buf]
      BY <2>5 DEF Extended
    <3> HIDE DEF buf
    <3> QED BY <2>2, <3>1 DEF Assembly
  <2>7. /\ buf \in Seq(Fragment) /\ Len(buf) = Len(s_hid.buf) + 1
        /\ \A i \in 1 .. Len(s_hid.buf) : buf[i] = s_hid.buf[i]
        /\ buf[Len(buf)] = FragmentOf(Received)
    BY <2>2, <2>4, AppendProperties DEF Assembly
  <2>8. Extended \in Assembly
    <3>1. /\ s_hid.recv_len + 1 \in 1 .. CTAPHID_BUF_LEN /\ s_hid.next_seq + 1 \in Nat
          /\ s_hid.cid \in Channels /\ s_hid.total_len \in 1 .. CTAPHID_BUF_LEN
      BY <2>2, <2>3, CtapHidAssumption DEF Assembly
    <3> HIDE DEF buf
    <3> QED BY <2>6, <2>7, <3>1 DEF Assembly
  <2>9. \A i \in 1 .. Len(buf) : /\ buf[i].cid = s_hid.cid
                                 /\ buf[i].seq = IF i = 1 THEN 0 ELSE i - 2
    <3>1. \A i \in 1 .. Len(s_hid.buf) : /\ s_hid.buf[i].cid = s_hid.cid
                                         /\ s_hid.buf[i].seq = IF i = 1 THEN 0 ELSE i - 2
      BY <2>1 DEF IInv, OneSender
    <3>2. /\ buf[Len(buf)].cid = s_hid.cid /\ buf[Len(buf)].seq = Len(buf) - 2
          /\ Len(buf) >= 2
      BY <2>1, <2>2, <2>3, <2>7 DEF FragmentOf, Assembly
    <3>3. Len(s_hid.buf) \in Nat
      BY <2>2 DEF Assembly
    <3> HIDE DEF buf
    <3> QED BY <2>7, <3>1, <3>2, <3>3, SMTT(20)
  <2> HIDE DEF buf
  <2>10. /\ Extended.buf = buf /\ Extended.recv_len = Len(buf)
         /\ Extended.next_seq = Len(buf) - 1 /\ Len(buf) >= 1 /\ Extended.cid = s_hid.cid
         /\ Extended.recv_len <= Extended.total_len
    BY <2>2, <2>3, <2>6, <2>7 DEF Assembly
  <2> QED BY <2>1, <2>8, <2>9, <2>10, AssembledInv
<1>6. CASE DispatchReturns
  BY <1>6 DEF DispatchReturns, IInv, TypeOK, FirstPackets, Counters, OneSender, Inactive
<1>7. ASSUME NEW c \in Channels, ClientSend(c) PROVE IInv'
  <2>1. PICK total \in Lengths : out' = [out EXCEPT ![c] = PacketsOf(c, sent[c] + 1, total)]
    BY <1>7 DEF ClientSend
  <2>2. sent[c] + 1 \in Nat
    BY DEF IInv, TypeOK
  <2>3. out' \in [Channels -> Seq(Packet)] /\ sent' \in [Channels -> Nat]
    BY <1>7, <2>1, <2>2, PacketsType DEF ClientSend, IInv, TypeOK
  <2>4. FirstPackets'
    <3>1. ASSUME NEW d \in Channels, NEW i \in 1 .. Len(out'[d]), out'[d][i].init
          PROVE  out'[d][i].seq = 0
      <4>1. CASE d = c
        <5>1. out'[d] = PacketsOf(c, sent[c] + 1, total)
          BY <2>1, <4>1 DEF IInv, TypeOK
        <5> DEFINE ps == PacketsOf(c, sent[c] + 1, total)
        <5>2. \A j \in 1 .. Len(ps) : ps[j].init => ps[j].seq = 0
          BY <2>2, PacketsType
        <5> HIDE DEF ps
        <5>3. out'[d] = ps
          BY <5>1 DEF ps
        <5> QED BY <3>1, <5>2, <5>3
      <4>2. CASE d # c
        BY <2>1, <3>1, <4>2 DEF IInv, TypeOK, FirstPackets
      <4> QED BY <4>1, <4>2
    <3>2. s_rx_queue' = s_rx_queue
      BY <1>7 DEF ClientSend
    <3> QED BY <3>1, <3>2 DEF IInv, FirstPackets
  <2> QED BY <1>7, <2>3, <2>4 DEF ClientSend, IInv, TypeOK, Counters, OneSender
<1>8. ASSUME NEW c \in Channels, HostWrite(c) PROVE IInv'
  <2> DEFINE p == Head(out[c])
  <2>1. out[c] \in Seq(Packet) /\ out[c] # <<>>
    BY <1>8 DEF HostWrite, IInv, TypeOK
  <2>2. p \in Packet /\ (p.init => p.seq = 0)
    BY <2>1 DEF IInv, FirstPackets
  <2>3. out' = [out EXCEPT ![c] = Tail(out[c])]
    BY <1>8 DEF HostWrite
  <2>4. /\ Tail(out[c]) \in Seq(Packet) /\ Len(Tail(out[c])) = Len(out[c]) - 1
        /\ \A i \in 1 .. Len(Tail(out[c])) : Tail(out[c])[i] = out[c][i + 1]
    BY <2>1, HeadTailProperties
  <2>5. /\ out' \in [Channels -> Seq(Packet)]
        /\ \A d \in Channels : \A i \in 1 .. Len(out'[d]) : out'[d][i].init => out'[d][i].seq = 0
    <3>1. out' \in [Channels -> Seq(Packet)]
      BY <2>3, <2>4 DEF IInv, TypeOK
    <3>2. ASSUME NEW d \in Channels, NEW i \in 1 .. Len(out'[d]), out'[d][i].init
          PROVE  out'[d][i].seq = 0
      <4>1. CASE d = c
        <5>1. out'[d] = Tail(out[c])
          BY <2>3, <4>1 DEF IInv, TypeOK
        <5>2. i + 1 \in 1 .. Len(out[c]) /\ out'[d][i] = out[c][i + 1]
          BY <2>1, <2>4, <5>1
        <5> QED BY <3>2, <5>2 DEF IInv, FirstPackets
      <4>2. CASE d # c
        BY <2>3, <3>2, <4>2 DEF IInv, TypeOK, FirstPackets
      <4> QED BY <4>1, <4>2
    <3> QED BY <3>1, <3>2
  <2>6. /\ s_rx_queue' \in Seq(Packet) /\ Len(s_rx_queue') <= QUEUE_LEN
        /\ lost' \subseteq Message
        /\ \A i \in 1 .. Len(s_rx_queue') : s_rx_queue'[i].init => s_rx_queue'[i].seq = 0
    <3>1. CASE Len(s_rx_queue) < QUEUE_LEN
      <4>1. s_rx_queue' = Append(s_rx_queue, p) /\ lost' = lost
        BY <1>8, <3>1 DEF HostWrite
      <4> HIDE DEF p
      <4>2. /\ s_rx_queue' \in Seq(Packet) /\ Len(s_rx_queue') = Len(s_rx_queue) + 1
            /\ \A i \in 1 .. Len(s_rx_queue) : s_rx_queue'[i] = s_rx_queue[i]
            /\ s_rx_queue'[Len(s_rx_queue) + 1] = p
        BY <2>2, <4>1, AppendProperties DEF IInv, TypeOK
      <4> QED BY <2>2, <3>1, <4>1, <4>2, CtapHidAssumption DEF IInv, TypeOK, FirstPackets
    <3>2. CASE ~(Len(s_rx_queue) < QUEUE_LEN)
      <4>1. s_rx_queue' = s_rx_queue /\ lost' = lost \cup {MessageOf(p)}
        BY <1>8, <3>2 DEF HostWrite
      <4>2. MessageOf(p) \in Message
        BY <2>2 DEF MessageOf, Message, Packet
      <4> QED BY <4>1, <4>2 DEF IInv, TypeOK, FirstPackets
    <3> QED BY <3>1, <3>2
  <2> QED BY <1>8, <2>5, <2>6 DEF HostWrite, IInv, TypeOK, FirstPackets, Counters, OneSender
<1>9. CASE UNCHANGED vars
  BY <1>9 DEF vars, IInv, TypeOK, FirstPackets, Counters, OneSender
<1> QED BY <1>1, <1>2, <1>3, <1>4, <1>5, <1>6, <1>7, <1>8, <1>9 DEF Next, Task

THEOREM Invariance == Spec => []IInv
BY InitInv, StepInv, PTL DEF Spec

\* What a client sends never leaves the buffer of a message, for every buffer,
\* queue and length.
THEOREM BufferSafe == Spec => []TypeOK
<1>1. IInv => TypeOK
  BY DEF IInv
<1> QED BY <1>1, Invariance, PTL

\* The message that is assembled, and executed, has the bytes of one channel
\* only, in the order of its sequence numbers.
THEOREM SingleSender == Spec => []OneSender
<1>1. IInv => OneSender
  BY DEF IInv
<1> QED BY <1>1, Invariance, PTL

-----------------------------------------------------------------------------
(* The messages of a channel, in the order in which they were sent.           *)

Last(c) == Channel!LastHanded(c)

\* Every message of the channel that is still to begin is later than message m.
Comes(c, m) ==
    /\ m <= sent[c]
    /\ \A i \in 1 .. Len(s_rx_queue) :
          s_rx_queue[i].init /\ s_rx_queue[i].cid = c => m < s_rx_queue[i].n
    /\ out[c] # <<>> /\ out[c][1].init => m < sent[c]

OutInOrder ==
    \A c \in Channels : \A i \in 1 .. Len(out[c]) :
        /\ out[c][i].cid = c /\ out[c][i].n = sent[c]
        /\ out[c][i].init => i = 1
QueueInOrder ==
    \A i \in 1 .. Len(s_rx_queue) : s_rx_queue[i].init =>
        LET c == s_rx_queue[i].cid
        IN  /\ s_rx_queue[i].n <= sent[c]
            /\ out[c] # <<>> /\ out[c][1].init => s_rx_queue[i].n < sent[c]
            /\ \A j \in 1 .. Len(s_rx_queue) :
                  j > i /\ s_rx_queue[j].init /\ s_rx_queue[j].cid = c
                     => s_rx_queue[i].n < s_rx_queue[j].n
AssemblyInOrder ==
    s_hid.active => /\ Comes(s_hid.cid, s_hid.buf[1].n)
                    /\ pc = "receive" => Last(s_hid.cid) < s_hid.buf[1].n
HandedInOrder == \A c \in Channels : Comes(c, Last(c))

Ordered == OutInOrder /\ QueueInOrder /\ AssemblyInOrder /\ HandedInOrder

-----------------------------------------------------------------------------
LEMMA LastType == ASSUME IInv, NEW c \in Channels PROVE Last(c) \in Nat
<1>1. handed[c] \in Seq(Nat)
  BY DEF IInv, TypeOK
<1>2. CASE handed[c] = <<>>
  BY <1>2 DEF Last, Channel!LastHanded
<1>3. CASE handed[c] # <<>>
  <2>1. Len(handed[c]) \in 1 .. Len(handed[c])
    BY <1>1, <1>3
  <2> QED BY <1>1, <1>3, <2>1 DEF Last, Channel!LastHanded
<1> QED BY <1>2, <1>3

\* What is assembled begins with a fragment of its channel.
LEMMA FirstFragment ==
    ASSUME IInv, s_hid.active
    PROVE  s_hid \in Assembly /\ s_hid.cid \in Channels /\ s_hid.buf[1].n \in Nat
<1>1. s_hid \in Assembly
  BY DEF IInv, TypeOK, Inactive
<1>2. s_hid.buf \in Seq(Fragment) /\ Len(s_hid.buf) >= 1
  BY <1>1 DEF Assembly, IInv, Counters
<1>3. s_hid.buf[1] \in Fragment
  BY <1>2
<1> QED BY <1>1, <1>3 DEF Assembly, Fragment

LEMMA QueueType ==
    ASSUME IInv
    PROVE  \A i \in 1 .. Len(s_rx_queue) :
              s_rx_queue[i].cid \in Channels /\ s_rx_queue[i].n \in Nat
<1>1. \A i \in 1 .. Len(s_rx_queue) : s_rx_queue[i] \in Packet
  BY DEF IInv, TypeOK
<1> QED BY <1>1 DEF Packet

\* The packets of a message carry its channel and number, and the first begins it.
LEMMA PacketsNumbered ==
    ASSUME NEW c, NEW n, NEW total \in Lengths, NEW ps, ps = PacketsOf(c, n, total)
    PROVE  \A i \in 1 .. Len(ps) : ps[i].cid = c /\ ps[i].n = n /\ (ps[i].init => i = 1)
<1>1. total \in Nat
  BY CtapHidAssumption
<1>2. Len(ps) = total
  BY <1>1 DEF PacketsOf
<1> QED BY <1>2 DEF PacketsOf

LEMMA AppendLast ==
    ASSUME NEW s \in Seq(Nat), NEW n \in Nat
    PROVE  Append(s, n) # <<>> /\ Len(Append(s, n)) = Len(s) + 1 /\ Append(s, n)[Len(s) + 1] = n
OBVIOUS

LEMMA InitOrdered == Init => Ordered
<1> SUFFICES ASSUME Init PROVE Ordered
  OBVIOUS
<1>1. \A c \in Channels : Last(c) = 0
  BY DEF Init, Last, Channel!LastHanded
<1> QED BY <1>1 DEF Init, Ordered, OutInOrder, QueueInOrder, AssemblyInOrder, HandedInOrder, Comes

\* A packet that the task takes leaves the order of those behind it.
LEMMA ReceiveOrdered ==
    ASSUME IInv, Ordered, Receive
    PROVE  /\ OutInOrder' /\ QueueInOrder'
           /\ \A c, m : Comes(c, m) => Comes(c, m)'
           /\ \A c, m : Received.init /\ c = Received.cid /\ m = Received.n
                 => Comes(c, m)' /\ Last(c) < m
<1> USE DEF Receive
<1>1. /\ s_rx_queue \in Seq(Packet) /\ s_rx_queue # <<>> /\ Len(s_rx_queue) \in Nat
      /\ Len(s_rx_queue') = Len(s_rx_queue) - 1
      /\ \A i \in 1 .. Len(s_rx_queue') : s_rx_queue'[i] = s_rx_queue[i + 1]
      /\ Received = s_rx_queue[1] /\ 1 \in 1 .. Len(s_rx_queue)
  BY HeadTailProperties DEF IInv, TypeOK, Received
<1>2. Received.cid \in Channels
  BY ReceivedType DEF Packet
<1>3. OutInOrder'
  BY DEF Ordered, OutInOrder
<1>4. QueueInOrder'
  <2> SUFFICES ASSUME NEW i \in 1 .. Len(s_rx_queue'), s_rx_queue'[i].init
               PROVE  LET c == s_rx_queue'[i].cid
                      IN  /\ s_rx_queue'[i].n <= sent[c]
                          /\ out[c] # <<>> /\ out[c][1].init => s_rx_queue'[i].n < sent[c]
                          /\ \A j \in 1 .. Len(s_rx_queue') :
                                j > i /\ s_rx_queue'[j].init /\ s_rx_queue'[j].cid = c
                                   => s_rx_queue'[i].n < s_rx_queue'[j].n
    BY DEF QueueInOrder
  <2>1. i + 1 \in 1 .. Len(s_rx_queue) /\ s_rx_queue'[i] = s_rx_queue[i + 1]
    BY <1>1
  <2>2. \A j \in 1 .. Len(s_rx_queue') :
           j > i => j + 1 \in 1 .. Len(s_rx_queue) /\ j + 1 > i + 1
                    /\ s_rx_queue'[j] = s_rx_queue[j + 1]
    BY <1>1
  <2> QED BY <2>1, <2>2 DEF Ordered, QueueInOrder
<1>5. ASSUME NEW c, NEW m, Comes(c, m) PROVE Comes(c, m)'
  <2>1. \A i \in 1 .. Len(s_rx_queue') :
           i + 1 \in 1 .. Len(s_rx_queue) /\ s_rx_queue'[i] = s_rx_queue[i + 1]
    BY <1>1
  <2> QED BY <1>5, <2>1 DEF Comes
<1>6. ASSUME NEW c, NEW m, Received.init, c = Received.cid, m = Received.n
      PROVE  Comes(c, m)' /\ Last(c) < m
  <2>1. Last(c) < m
    BY <1>1, <1>2, <1>6 DEF Ordered, HandedInOrder, Comes
  <2>2. \A i \in 1 .. Len(s_rx_queue') :
           i + 1 \in 1 .. Len(s_rx_queue) /\ i + 1 > 1 /\ s_rx_queue'[i] = s_rx_queue[i + 1]
    BY <1>1
  <2>3. Comes(c, m)'
    BY <1>1, <1>6, <2>2 DEF Comes, Ordered, QueueInOrder
  <2> QED BY <2>1, <2>3
<1> QED BY <1>3, <1>4, <1>5, <1>6

\* Only what is complete and whole is handed on, as the next of its channel.
LEMMA AssembledOrdered ==
    ASSUME IInv, Ordered, Receive, NEW h, Assembled(h), h.cid \in Channels, h.buf[1].n \in Nat,
           Comes(h.cid, h.buf[1].n)', Last(h.cid) < h.buf[1].n
    PROVE  Ordered' /\ [Channel!Next]_<<sent, handed>>
<1> DEFINE m == h.buf[1].n
<1>1. /\ s_hid' = h /\ sent' = sent
      /\ handed \in [Channels -> Seq(Nat)] /\ handed[h.cid] \in Seq(Nat)
  BY DEF Assembled, Receive, IInv, TypeOK
<1>2. /\ OutInOrder' /\ QueueInOrder'
      /\ \A c, n : Comes(c, n) => Comes(c, n)'
  BY ReceiveOrdered
<1>3. m <= sent[h.cid]
  BY <1>1 DEF Comes
<1>4. CASE h.recv_len >= h.total_len /\ Whole(h.buf)
  <2>1. pc' = "dispatch" /\ handed' = [handed EXCEPT ![h.cid] = Append(handed[h.cid], m)]
    BY <1>4 DEF Assembled
  <2> HIDE DEF m
  <2>2. /\ handed'[h.cid] = Append(handed[h.cid], m)
        /\ \A c \in Channels \ {h.cid} : handed'[c] = handed[c]
    BY <1>1, <2>1
  <2>3. m \in Nat
    BY DEF m
  <2>4. /\ handed'[h.cid] # <<>> /\ Len(handed'[h.cid]) = Len(handed[h.cid]) + 1
        /\ handed'[h.cid][Len(handed[h.cid]) + 1] = m
    <3> DEFINE before == handed[h.cid]
    <3>1. before \in Seq(Nat) /\ handed'[h.cid] = Append(before, m)
      BY <1>1, <2>2
    <3> HIDE DEF before
    <3>2. /\ Append(before, m) # <<>> /\ Len(Append(before, m)) = Len(before) + 1
          /\ Append(before, m)[Len(before) + 1] = m
      BY <2>3, <3>1, AppendLast
    <3> QED BY <3>1, <3>2 DEF before
  <2>5. /\ Last(h.cid)' = m
        /\ \A c \in Channels \ {h.cid} : Last(c)' = Last(c)
    BY <2>2, <2>4 DEF Last, Channel!LastHanded
  <2>6. HandedInOrder'
    <3> SUFFICES ASSUME NEW c \in Channels PROVE Comes(c, Last(c))'
      BY DEF HandedInOrder
    <3>1. CASE c = h.cid
      BY <2>5, <3>1 DEF Comes, m
    <3>2. CASE c # h.cid
      <4>1. Comes(c, Last(c))
        BY DEF Ordered, HandedInOrder
      <4>2. Last(c)' = Last(c)
        BY <2>5, <3>2
      <4> QED BY <1>2, <4>1, <4>2 DEF Comes
    <3> QED BY <3>1, <3>2
  <2>7. AssemblyInOrder'
    BY <1>1, <2>1 DEF AssemblyInOrder, Comes
  <2>8. Channel!Hand(h.cid)
    <3>1. m \in Channel!LastHanded(h.cid) + 1 .. sent[h.cid]
      BY <1>3, <2>3, LastType DEF Last, m, IInv, TypeOK
    <3> QED BY <1>1, <2>1, <3>1 DEF Channel!Hand
  <2> QED BY <1>2, <2>6, <2>7, <2>8 DEF Ordered, Channel!Next
<1>5. CASE ~(h.recv_len >= h.total_len /\ Whole(h.buf))
  <2>1. handed' = handed
    BY <1>1, <1>5 DEF Assembled
  <2>2. \A c \in Channels : Last(c)' = Last(c)
    BY <2>1 DEF Last, Channel!LastHanded
  <2>3. HandedInOrder'
    <3> SUFFICES ASSUME NEW c \in Channels PROVE Comes(c, Last(c))'
      BY DEF HandedInOrder
    <3>1. Comes(c, Last(c))
      BY DEF Ordered, HandedInOrder
    <3> QED BY <1>2, <2>2, <3>1 DEF Comes
  <2>4. AssemblyInOrder'
    BY <1>1, <2>2 DEF AssemblyInOrder, Comes
  <2> QED BY <1>1, <1>2, <2>1, <2>3, <2>4 DEF Ordered
<1> QED BY <1>4, <1>5

\* A packet that is refused changes nothing that is assembled, but may end it.
LEMMA ErrorOrdered ==
    ASSUME IInv, Ordered, Receive, Error, s_hid' \in {s_hid, Inactive}
    PROVE  Ordered' /\ [Channel!Next]_<<sent, handed>>
<1>1. /\ OutInOrder' /\ QueueInOrder'
      /\ \A c, m : Comes(c, m) => Comes(c, m)'
  BY ReceiveOrdered
<1>2. handed' = handed /\ sent' = sent /\ pc' = pc
  BY DEF Error, Receive
<1>3. \A c : Last(c)' = Last(c)
  BY <1>2 DEF Last, Channel!LastHanded
<1>4. HandedInOrder'
  <2> SUFFICES ASSUME NEW c \in Channels PROVE Comes(c, Last(c))'
    BY DEF HandedInOrder
  <2>1. Comes(c, Last(c))
    BY DEF Ordered, HandedInOrder
  <2> QED BY <1>1, <1>3, <2>1 DEF Comes
<1>5. AssemblyInOrder'
  <2>1. CASE s_hid' = s_hid
    <3> SUFFICES ASSUME s_hid.active
                 PROVE  /\ Comes(s_hid.cid, s_hid.buf[1].n)'
                        /\ pc = "receive" => Last(s_hid.cid) < s_hid.buf[1].n
      BY <1>2, <1>3, <2>1 DEF AssemblyInOrder
    <3>1. /\ Comes(s_hid.cid, s_hid.buf[1].n)
          /\ pc = "receive" => Last(s_hid.cid) < s_hid.buf[1].n
      BY DEF Ordered, AssemblyInOrder
    <3> QED BY <1>1, <2>1, <3>1 DEF Comes
  <2>2. CASE s_hid' = Inactive
    BY <2>2 DEF AssemblyInOrder, Inactive
  <2> QED BY <2>1, <2>2
<1> QED BY <1>1, <1>2, <1>4, <1>5 DEF Ordered

\* A new message of a channel is later than all before it.
LEMMA SendOrdered ==
    ASSUME IInv, Ordered, NEW c \in Channels, ClientSend(c)
    PROVE  Ordered' /\ Channel!Send(c)
<1> USE DEF ClientSend
<1>1. PICK total \in Lengths : out' = [out EXCEPT ![c] = PacketsOf(c, sent[c] + 1, total)]
  OBVIOUS
<1>2. /\ sent \in [Channels -> Nat] /\ sent'[c] = sent[c] + 1
      /\ \A d \in Channels \ {c} : sent'[d] = sent[d] /\ out'[d] = out[d]
      /\ out'[c] = PacketsOf(c, sent[c] + 1, total) /\ out[c] = <<>>
  BY <1>1 DEF IInv, TypeOK
<1>3. \A i \in 1 .. Len(out'[c]) :
         out'[c][i].cid = c /\ out'[c][i].n = sent'[c] /\ (out'[c][i].init => i = 1)
  BY <1>2, PacketsNumbered
<1>4. OutInOrder'
  BY <1>2, <1>3 DEF Ordered, OutInOrder
<1>5. ASSUME NEW d \in Channels, NEW m \in Nat, Comes(d, m) PROVE Comes(d, m)'
  BY <1>2, <1>5 DEF Comes
<1>6. \A i \in 1 .. Len(s_rx_queue) :
         s_rx_queue[i].cid \in Channels /\ s_rx_queue[i].n \in Nat
  BY QueueType
<1>7. QueueInOrder'
  <2> SUFFICES ASSUME NEW i \in 1 .. Len(s_rx_queue), s_rx_queue[i].init, NEW d,
                      d = s_rx_queue[i].cid
               PROVE  /\ s_rx_queue[i].n <= sent'[d]
                      /\ out'[d] # <<>> /\ out'[d][1].init => s_rx_queue[i].n < sent'[d]
    BY DEF Ordered, QueueInOrder
  <2>1. s_rx_queue[i].n <= sent[d] /\ (out[d] # <<>> /\ out[d][1].init => s_rx_queue[i].n < sent[d])
    BY DEF Ordered, QueueInOrder
  <2>2. CASE d = c
    BY <1>2, <1>6, <2>1, <2>2
  <2>3. CASE d # c
    BY <1>2, <1>6, <2>1, <2>3
  <2> QED BY <2>2, <2>3
<1>8. \A d \in Channels : Last(d)' = Last(d) /\ Last(d) \in Nat
  BY LastType DEF Last, Channel!LastHanded
<1>9. HandedInOrder'
  <2> SUFFICES ASSUME NEW d \in Channels PROVE Comes(d, Last(d))'
    BY DEF HandedInOrder
  <2>1. Comes(d, Last(d))
    BY DEF Ordered, HandedInOrder
  <2> QED BY <1>5, <1>8, <2>1 DEF Comes
<1>10. AssemblyInOrder'
  <2> SUFFICES ASSUME s_hid.active
               PROVE  /\ Comes(s_hid.cid, s_hid.buf[1].n)'
                      /\ pc = "receive" => Last(s_hid.cid) < s_hid.buf[1].n
    BY <1>8, FirstFragment DEF AssemblyInOrder
  <2>1. /\ Comes(s_hid.cid, s_hid.buf[1].n)
        /\ pc = "receive" => Last(s_hid.cid) < s_hid.buf[1].n
    BY DEF Ordered, AssemblyInOrder
  <2>2. s_hid.cid \in Channels /\ s_hid.buf[1].n \in Nat
    BY FirstFragment
  <2> QED BY <1>5, <2>1, <2>2 DEF Comes
<1> QED BY <1>4, <1>7, <1>9, <1>10 DEF Ordered, Channel!Send

\* A packet that is written comes after all of its channel.
LEMMA WriteOrdered ==
    ASSUME IInv, Ordered, NEW c \in Channels, HostWrite(c)
    PROVE  Ordered' /\ UNCHANGED <<sent, handed>>
<1> DEFINE p == Head(out[c])
<1> DEFINE q == s_rx_queue
<1>1. /\ out[c] \in Seq(Packet) /\ out[c] # <<>> /\ q \in Seq(Packet) /\ Len(q) \in Nat
      /\ out \in [Channels -> Seq(Packet)] /\ sent \in [Channels -> Nat]
  BY DEF HostWrite, IInv, TypeOK
<1>2. /\ out' = [out EXCEPT ![c] = Tail(out[c])]
      /\ UNCHANGED <<sent, handed, pc, s_hid>>
      /\ q' = q \/ q' = Append(q, p)
  BY DEF HostWrite
<1>3. /\ Len(out[c]) \in Nat \ {0} /\ Len(Tail(out[c])) = Len(out[c]) - 1
      /\ \A i \in 1 .. Len(Tail(out[c])) : Tail(out[c])[i] = out[c][i + 1]
      /\ p = out[c][1] /\ p \in Packet
  BY <1>1, HeadTailProperties
<1>4. /\ out'[c] = Tail(out[c])
      /\ \A d \in Channels \ {c} : out'[d] = out[d]
  BY <1>1, <1>2
<1>5. /\ p.cid = c /\ p.n = sent[c]
      /\ \A i \in 1 .. Len(out'[c]) : /\ out'[c][i].cid = c /\ out'[c][i].n = sent[c]
                                      /\ ~out'[c][i].init
  BY <1>3, <1>4 DEF Ordered, OutInOrder
<1>6. OutInOrder'
  BY <1>2, <1>4, <1>5 DEF Ordered, OutInOrder
<1>7. ~(out'[c] # <<>> /\ out'[c][1].init)
  <2>1. out'[c] \in Seq(Packet)
    BY <1>1, <1>4, HeadTailProperties
  <2>2. out'[c] # <<>> => 1 \in 1 .. Len(out'[c])
    BY <2>1
  <2> QED BY <1>5, <2>2
\* The queue as it was, and its new end.
<1>8. /\ Len(q') = Len(q) \/ (Len(q') = Len(q) + 1 /\ q'[Len(q) + 1] = p)
      /\ \A i \in 1 .. Len(q) : q'[i] = q[i]
  <2>1. CASE q' = q
    BY <2>1
  <2>2. CASE q' = Append(q, p)
    <3> HIDE DEF p, q
    <3> QED BY <1>1, <1>3, <2>2, AppendProperties
  <2> QED BY <1>2, <2>1, <2>2
<1> HIDE DEF p, q
<1>9. ASSUME NEW d \in Channels, NEW m, Comes(d, m) PROVE Comes(d, m)'
  <2>1. m <= sent'[d]
    BY <1>2, <1>9 DEF Comes
  <2>2. out'[d] # <<>> /\ out'[d][1].init => m < sent'[d]
    <3>1. CASE d = c
      BY <1>7, <3>1
    <3>2. CASE d # c
      BY <1>2, <1>4, <1>9, <3>2 DEF Comes
    <3> QED BY <3>1, <3>2
  <2>3. ASSUME NEW i \in 1 .. Len(q'), q'[i].init, q'[i].cid = d PROVE m < q'[i].n
    <3>1. CASE i \in 1 .. Len(q)
      BY <1>8, <1>9, <2>3, <3>1 DEF Comes, q
    <3>2. CASE i \notin 1 .. Len(q)
      <4>1. q'[i] = p
        BY <1>1, <1>8, <3>2
      <4>2. d = c /\ out[c][1].init
        BY <1>3, <1>5, <2>3, <4>1
      <4> QED BY <1>1, <1>5, <1>9, <4>1, <4>2 DEF Comes
    <3> QED BY <3>1, <3>2
  <2> QED BY <2>1, <2>2, <2>3 DEF Comes, q
<1>10. QueueInOrder'
  <2> SUFFICES ASSUME NEW i \in 1 .. Len(q'), q'[i].init, NEW d, d = q'[i].cid
               PROVE  /\ q'[i].n <= sent'[d]
                      /\ out'[d] # <<>> /\ out'[d][1].init => q'[i].n < sent'[d]
                      /\ \A j \in 1 .. Len(q') :
                            j > i /\ q'[j].init /\ q'[j].cid = d => q'[i].n < q'[j].n
    BY DEF QueueInOrder, q
  <2>1. CASE i \in 1 .. Len(q)
    <3>1. q'[i] = q[i] /\ d \in Channels
      BY <1>8, <2>1, QueueType DEF q
    <3>3. q[i].n <= sent[d] /\ (out[d] # <<>> /\ out[d][1].init => q[i].n < sent[d])
      BY <3>1, <2>1 DEF Ordered, QueueInOrder, q
    <3>4. out'[d] # <<>> /\ out'[d][1].init => q[i].n < sent[d]
      <4>1. CASE d = c
        BY <1>7, <4>1
      <4>2. CASE d # c
        BY <1>4, <3>1, <3>3, <4>2
      <4> QED BY <4>1, <4>2
    <3>5. ASSUME NEW j \in 1 .. Len(q'), j > i, q'[j].init, q'[j].cid = d PROVE q[i].n < q'[j].n
      <4>1. CASE j \in 1 .. Len(q)
        BY <1>8, <2>1, <3>1, <3>5, <4>1 DEF Ordered, QueueInOrder, q
      <4>2. CASE j \notin 1 .. Len(q)
        <5>1. q'[j] = p
          BY <1>1, <1>8, <4>2
        <5>2. d = c /\ out[c][1].init
          BY <1>3, <1>5, <3>5, <5>1
        <5> QED BY <1>1, <1>5, <3>3, <5>1, <5>2
      <4> QED BY <4>1, <4>2
    <3> QED BY <1>2, <3>1, <3>3, <3>4, <3>5
  <2>2. CASE i \notin 1 .. Len(q)
    <3>1. q'[i] = p /\ i = Len(q) + 1 /\ i = Len(q') /\ d = c
      BY <1>1, <1>5, <1>8, <2>2
    <3> QED BY <1>1, <1>2, <1>5, <1>7, <3>1
  <2> QED BY <2>1, <2>2
<1>11. \A d \in Channels : Last(d)' = Last(d)
  BY <1>2 DEF Last, Channel!LastHanded
<1>12. HandedInOrder'
  <2> SUFFICES ASSUME NEW d \in Channels PROVE Comes(d, Last(d))'
    BY DEF HandedInOrder
  <2>1. Comes(d, Last(d))
    BY DEF Ordered, HandedInOrder
  <2> QED BY <1>9, <1>11, <2>1 DEF Comes
<1>13. AssemblyInOrder'
  <2> SUFFICES ASSUME s_hid.active
               PROVE  /\ Comes(s_hid.cid, s_hid.buf[1].n)'
                      /\ pc = "receive" => Last(s_hid.cid) < s_hid.buf[1].n
    BY <1>2, <1>11, FirstFragment DEF AssemblyInOrder
  <2>1. /\ Comes(s_hid.cid, s_hid.buf[1].n)
        /\ pc = "receive" => Last(s_hid.cid) < s_hid.buf[1].n
    BY DEF Ordered, AssemblyInOrder
  <2> QED BY <1>2, <1>9, <2>1, FirstFragment DEF Comes
<1> QED BY <1>2, <1>6, <1>10, <1>12, <1>13 DEF Ordered

-----------------------------------------------------------------------------
LEMMA StepOrdered ==
    IInv /\ Ordered /\ [Next]_vars => Ordered' /\ [Channel!Next]_<<sent, handed>>
<1> SUFFICES ASSUME IInv, Ordered, [Next]_vars
             PROVE  Ordered' /\ [Channel!Next]_<<sent, handed>>
  OBVIOUS
<1>1. CASE TooLong
  BY <1>1, ErrorOrdered DEF TooLong, Inactive
<1>2. CASE StrayPacket
  BY <1>2, ErrorOrdered DEF StrayPacket
<1>3. CASE WrongSequence
  BY <1>3, ErrorOrdered DEF WrongSequence, Inactive
<1>4. CASE InitPacket
  <2>1. PICK h : /\ h = [active |-> TRUE, cid |-> Received.cid, total_len |-> Received.total,
                         recv_len |-> 1, next_seq |-> 0, buf |-> <<FragmentOf(Received)>>]
                 /\ Receive /\ Assembled(h) /\ Received.init
    BY <1>4 DEF InitPacket
  <2>2. Received \in Packet
    BY <2>1, ReceivedType
  <2>3. h.cid = Received.cid /\ h.buf[1].n = Received.n
    BY <2>1 DEF FragmentOf
  <2>4. h.cid \in Channels /\ h.buf[1].n \in Nat
    BY <2>2, <2>3 DEF Packet
  <2>5. Comes(h.cid, h.buf[1].n)' /\ Last(h.cid) < h.buf[1].n
    <3>1. ASSUME NEW c, NEW m, c = Received.cid, m = Received.n PROVE Comes(c, m)' /\ Last(c) < m
      BY <2>1, <3>1, ReceiveOrdered
    <3> QED BY <2>3, <3>1
  <2> QED BY <2>1, <2>4, <2>5, AssembledOrdered
<1>5. CASE Continuation
  <2>1. PICK h : h = Extended /\ Receive /\ Assembled(h) /\ s_hid.active /\ pc = "receive"
    BY <1>5 DEF Continuation, Foreign, Receive
  <2>2. s_hid \in Assembly /\ s_hid.cid \in Channels /\ s_hid.buf[1].n \in Nat
    BY <2>1, FirstFragment
  <2>3. h.cid = s_hid.cid /\ h.buf[1].n = s_hid.buf[1].n
    <3>1. s_hid.buf \in Seq(Fragment) /\ Len(s_hid.buf) \in Nat \ {0}
      BY <2>1, <2>2 DEF Assembly, IInv, Counters
    <3>2. FragmentOf(Received) \in Fragment
      BY <2>1, ReceivedType DEF FragmentOf, Fragment, Packet
    <3>3. Append(s_hid.buf, FragmentOf(Received))[1] = s_hid.buf[1]
      BY <3>1, <3>2, AppendProperties
    <3> DEFINE longer == Append(s_hid.buf, FragmentOf(Received))
    <3>4. h.cid = s_hid.cid /\ h.buf \in {s_hid.buf, longer}
      <4> HIDE DEF longer
      <4>1. Extended = [s_hid EXCEPT !.next_seq = s_hid.next_seq + 1,
                          !.recv_len = IF Remaining > 0 THEN s_hid.recv_len + 1 ELSE s_hid.recv_len,
                          !.buf = IF Remaining > 0 THEN longer ELSE s_hid.buf]
        BY DEF Extended, longer
      <4> QED BY <2>1, <2>2, <4>1 DEF Assembly
    <3> QED BY <3>3, <3>4
  <2>4. Comes(s_hid.cid, s_hid.buf[1].n) /\ Last(s_hid.cid) < s_hid.buf[1].n
    BY <2>1 DEF Ordered, AssemblyInOrder
  <2>5. Comes(h.cid, h.buf[1].n)'
    BY <2>1, <2>3, <2>4, ReceiveOrdered
  <2> QED BY <2>1, <2>2, <2>3, <2>4, <2>5, AssembledOrdered
<1>6. CASE DispatchReturns
  <2>1. UNCHANGED <<out, sent, s_rx_queue, handed>> /\ ~s_hid'.active
    BY <1>6 DEF DispatchReturns
  <2>2. HandedInOrder'
    BY <2>1 DEF Ordered, HandedInOrder, Comes, Last, Channel!LastHanded
  <2> QED BY <2>1, <2>2 DEF Ordered, OutInOrder, QueueInOrder, AssemblyInOrder
<1>7. ASSUME NEW c \in Channels, ClientSend(c) PROVE Ordered' /\ [Channel!Next]_<<sent, handed>>
  BY <1>7, SendOrdered DEF Channel!Next
<1>8. ASSUME NEW c \in Channels, HostWrite(c) PROVE Ordered' /\ [Channel!Next]_<<sent, handed>>
  BY <1>8, WriteOrdered
<1>9. CASE UNCHANGED vars
  <2>1. UNCHANGED <<out, sent, s_rx_queue, pc, s_hid, handed>>
    BY <1>9 DEF vars
  <2>2. HandedInOrder' /\ AssemblyInOrder'
    BY <2>1 DEF Ordered, HandedInOrder, AssemblyInOrder, Comes, Last, Channel!LastHanded
  <2> QED BY <2>1, <2>2 DEF Ordered, OutInOrder, QueueInOrder
<1> QED BY <1>1, <1>2, <1>3, <1>4, <1>5, <1>6, <1>7, <1>8, <1>9 DEF Next, Task

\* For any number of channels, any queue and any lengths the layer keeps the promise of
\* CtapChannel: the messages of a channel are executed in the order in which they were
\* sent, each at most once, whatever packets the full queue loses and whichever channel
\* throws away the message of another (fido2.c, ctaphid_process_packet).
THEOREM PromiseKept == Spec => InOrderOnce
<1>1. Init => Channel!Init
  BY DEF Init, Channel!Init
<1>2. IInv /\ Ordered /\ [Next]_vars => Ordered' /\ [Channel!Next]_<<sent, handed>>
  BY StepOrdered
<1> QED BY <1>1, <1>2, InitOrdered, Invariance, PTL DEF Spec, InOrderOnce, Channel!Spec

-----------------------------------------------------------------------------
(* A message that is executed is whole, unless its channel lost a packet.      *)

Unlost(c) == \A m \in lost : m[1] # c
\* No message of channel c begins from place i of the queue q to place j.
NoStart(q, c, i, j) == \A k \in i .. j : q[k].cid = c => ~q[k].init
\* As long as none begins, the packets of channel c from place i of the queue on, and
\* those in w that the client still writes, are of message n.
OutContinues(w, n) == w # <<>> /\ ~w[1].init => w[1].n = n
GoesOn(q, w, c, n, i) ==
    /\ \A j \in i .. Len(q) : q[j].cid = c /\ NoStart(q, c, i, j) => q[j].n = n
    /\ NoStart(q, c, i, Len(q)) => OutContinues(w, n)

QueueJoined ==
    \A i \in 1 .. Len(s_rx_queue) :
        LET p == s_rx_queue[i]
        IN  Unlost(p.cid) => GoesOn(s_rx_queue, out[p.cid], p.cid, p.n, i + 1)
AssemblyJoined ==
    s_hid.active /\ Unlost(s_hid.cid) =>
        /\ Whole(s_hid.buf)
        /\ GoesOn(s_rx_queue, out[s_hid.cid], s_hid.cid, s_hid.buf[1].n, 1)
Joined == QueueJoined /\ AssemblyJoined

\* A queue without its first packet goes on as it did, one place earlier.
LEMMA TailGoesOn ==
    ASSUME NEW q, NEW r, Len(q) \in Nat, Len(q) >= 1, Len(r) = Len(q) - 1,
           \A k \in 1 .. Len(r) : r[k] = q[k + 1],
           NEW w, NEW c, NEW n, NEW i \in 1 .. Len(q), GoesOn(q, w, c, n, i + 1)
    PROVE  GoesOn(r, w, c, n, i)
<1>1. ASSUME NEW j \in i - 1 .. Len(r), NoStart(r, c, i, j) PROVE NoStart(q, c, i + 1, j + 1)
  <2> SUFFICES ASSUME NEW k \in i + 1 .. j + 1, q[k].cid = c PROVE ~q[k].init
    BY DEF NoStart
  <2>1. k - 1 \in i .. j /\ r[k - 1] = q[k]
    BY <1>1
  <2> QED BY <1>1, <2>1 DEF NoStart
<1>2. ASSUME NEW j \in i .. Len(r), r[j].cid = c, NoStart(r, c, i, j) PROVE r[j].n = n
  <2>1. j + 1 \in i + 1 .. Len(q) /\ r[j] = q[j + 1] /\ NoStart(q, c, i + 1, j + 1)
    BY <1>1, <1>2
  <2> QED BY <1>2, <2>1 DEF GoesOn
<1>3. ASSUME NoStart(r, c, i, Len(r)) PROVE OutContinues(w, n)
  <2>1. Len(r) \in i - 1 .. Len(r)
    OBVIOUS
  <2>2. NoStart(q, c, i + 1, Len(r) + 1)
    BY <1>1, <1>3, <2>1
  <2>3. Len(r) + 1 = Len(q)
    OBVIOUS
  <2> QED BY <2>2, <2>3 DEF GoesOn
<1> QED BY <1>2, <1>3 DEF GoesOn

\* So does one whose first packet begins no message of the channel.
LEMMA FirstGoesOn ==
    ASSUME NEW q, Len(q) \in Nat, Len(q) >= 1,
           NEW w, NEW c, NEW n, GoesOn(q, w, c, n, 1), ~(q[1].cid = c /\ q[1].init)
    PROVE  GoesOn(q, w, c, n, 2)
<1>1. \A j \in Nat : NoStart(q, c, 2, j) => NoStart(q, c, 1, j)
  BY DEF NoStart
<1> QED BY <1>1 DEF GoesOn

\* A packet that moves from the client to the end of the queue.
LEMMA AppendGoesOn ==
    ASSUME NEW q, NEW r, Len(q) \in Nat, Len(r) = Len(q) + 1,
           \A k \in 1 .. Len(q) : r[k] = q[k],
           NEW c, r[Len(r)].cid = c, NEW w, NEW v, w # <<>>, w[1] = r[Len(r)],
           OutContinues(v, w[1].n),
           NEW n, NEW i \in 1 .. Len(q) + 1, GoesOn(q, w, c, n, i)
    PROVE  GoesOn(r, v, c, n, i)
<1>1. \A j \in Nat : j <= Len(q) /\ NoStart(r, c, i, j) => NoStart(q, c, i, j)
  BY DEF NoStart
<1>2. ASSUME NoStart(r, c, i, Len(r)) PROVE w[1].n = n
  <2>1. NoStart(q, c, i, Len(q))
    BY <1>2 DEF NoStart
  <2>2. ~w[1].init
    BY <1>2 DEF NoStart
  <2> QED BY <2>1, <2>2 DEF GoesOn, OutContinues
<1>3. ASSUME NEW j \in i .. Len(r), r[j].cid = c, NoStart(r, c, i, j) PROVE r[j].n = n
  <2>1. CASE j = Len(r)
    BY <1>2, <1>3, <2>1
  <2>2. CASE j # Len(r)
    <3>1. j \in i .. Len(q) /\ r[j] = q[j] /\ NoStart(q, c, i, j)
      BY <1>1, <1>3, <2>2
    <3> QED BY <1>3, <3>1 DEF GoesOn
  <2> QED BY <2>1, <2>2
<1> QED BY <1>2, <1>3 DEF GoesOn

\* One of another channel.
LEMMA OtherGoesOn ==
    ASSUME NEW q, NEW r, Len(q) \in Nat, Len(r) = Len(q) + 1,
           \A k \in 1 .. Len(q) : r[k] = q[k],
           NEW c, r[Len(r)].cid # c, NEW w,
           NEW n, NEW i \in 1 .. Len(q) + 1, GoesOn(q, w, c, n, i)
    PROVE  GoesOn(r, w, c, n, i)
<1>1. \A j \in Nat : j <= Len(q) /\ NoStart(r, c, i, j) => NoStart(q, c, i, j)
  BY DEF NoStart
<1>2. NoStart(r, c, i, Len(r)) => NoStart(q, c, i, Len(q))
  BY DEF NoStart
<1> QED BY <1>1, <1>2 DEF GoesOn

\* The task takes the first packet: the others go on as before.
LEMMA ReceiveJoined ==
    ASSUME IInv, Joined, Receive
    PROVE  /\ QueueJoined' /\ Received.cid \in Channels
           /\ lost' = lost /\ out' = out
           /\ Unlost(Received.cid) =>
                 GoesOn(s_rx_queue', out[Received.cid], Received.cid, Received.n, 1)
           /\ \A c, n :
                 GoesOn(s_rx_queue, out[c], c, n, 1) /\ ~(Received.cid = c /\ Received.init)
                    => GoesOn(s_rx_queue', out[c], c, n, 1)
<1> DEFINE q == s_rx_queue
           r == s_rx_queue'
<1>1. /\ Len(q) \in Nat /\ Len(q) >= 1 /\ Len(r) = Len(q) - 1
      /\ \A k \in 1 .. Len(r) : r[k] = q[k + 1]
      /\ Received = q[1] /\ out' = out /\ lost' = lost
  BY HeadTailProperties DEF IInv, TypeOK, Received, Receive
<1>2. \A i \in 1 .. Len(q) : Unlost(q[i].cid) => GoesOn(q, out[q[i].cid], q[i].cid, q[i].n, i + 1)
  BY DEF Joined, QueueJoined
<1> HIDE DEF q, r
<1>3. ASSUME NEW i \in 1 .. Len(r), Unlost(r[i].cid)
      PROVE  GoesOn(r, out[r[i].cid], r[i].cid, r[i].n, i + 1)
  <2>1. i + 1 \in 1 .. Len(q) /\ r[i] = q[i + 1]
    BY <1>1
  <2>2. GoesOn(q, out[r[i].cid], r[i].cid, r[i].n, (i + 1) + 1)
    BY <1>2, <1>3, <2>1
  <2> QED BY <1>1, <2>1, <2>2, TailGoesOn
<1>4. QueueJoined'
  BY <1>1, <1>3 DEF QueueJoined, Unlost, r
<1>5. ASSUME Unlost(Received.cid) PROVE GoesOn(r, out[Received.cid], Received.cid, Received.n, 1)
  <2>1. 1 \in 1 .. Len(q)
    BY <1>1
  <2>2. GoesOn(q, out[Received.cid], Received.cid, Received.n, 1 + 1)
    BY <1>1, <1>2, <1>5, <2>1
  <2> QED BY <1>1, <2>1, <2>2, TailGoesOn
<1>6. ASSUME NEW c, NEW n, GoesOn(q, out[c], c, n, 1), ~(Received.cid = c /\ Received.init)
      PROVE  GoesOn(r, out[c], c, n, 1)
  <2>1. 1 \in 1 .. Len(q)
    BY <1>1
  <2>2. GoesOn(q, out[c], c, n, 1 + 1)
    BY <1>1, <1>6, FirstGoesOn
  <2> QED BY <1>1, <2>1, <2>2, TailGoesOn
<1>7. Received.cid \in Channels
  BY ReceivedType DEF Packet
<1>8. Unlost(Received.cid) =>
         GoesOn(s_rx_queue', out[Received.cid], Received.cid, Received.n, 1)
  BY <1>5 DEF r
<1>9. \A c, n :
         GoesOn(s_rx_queue, out[c], c, n, 1) /\ ~(Received.cid = c /\ Received.init)
            => GoesOn(s_rx_queue', out[c], c, n, 1)
  BY <1>6 DEF q, r
<1> QED BY <1>1, <1>4, <1>7, <1>8, <1>9

\* An assembly that is dropped, or that goes on without the packet.
LEMMA ErrorJoined ==
    ASSUME IInv, Joined, Receive, s_hid' \in {s_hid, Inactive},
           s_hid' = s_hid => ~(s_hid.active /\ Received.init)
    PROVE  Joined'
<1>1. CASE s_hid' = Inactive
  BY <1>1, ReceiveJoined DEF Joined, AssemblyJoined, Inactive
<1>2. CASE s_hid' = s_hid
  <2>1. ASSUME s_hid.active, Unlost(s_hid.cid)
        PROVE  /\ Whole(s_hid.buf)
               /\ GoesOn(s_rx_queue', out[s_hid.cid], s_hid.cid, s_hid.buf[1].n, 1)
    <3>1. Whole(s_hid.buf) /\ GoesOn(s_rx_queue, out[s_hid.cid], s_hid.cid, s_hid.buf[1].n, 1)
      BY <2>1 DEF Joined, AssemblyJoined
    <3> QED BY <1>2, <2>1, <3>1, ReceiveJoined
  <2>2. AssemblyJoined'
    <3>1. UNCHANGED <<lost, out, s_hid>> /\ QueueJoined'
      BY <1>2, ReceiveJoined
    <3> QED BY <2>1, <3>1 DEF AssemblyJoined, Unlost
  <2> QED BY <2>2, ReceiveJoined DEF Joined
<1> QED BY <1>1, <1>2

\* What is said of a packet or of the assembly of a channel, when the queue and the
\* client change, is what GoesOn keeps.
LEMMA KeepsJoined ==
    ASSUME IInv, Joined, UNCHANGED <<s_rx_queue, s_hid>>, \A c : Unlost(c)' => Unlost(c),
           \A c \in Channels : \A n, i : Unlost(c)' /\ GoesOn(s_rx_queue, out[c], c, n, i)
                                        => GoesOn(s_rx_queue, out'[c], c, n, i)
    PROVE  Joined'
<1>1. QueueJoined'
  <2>1. ASSUME NEW j \in 1 .. Len(s_rx_queue), Unlost(s_rx_queue[j].cid)'
        PROVE  GoesOn(s_rx_queue, out'[s_rx_queue[j].cid], s_rx_queue[j].cid,
                      s_rx_queue[j].n, j + 1)
    <3>1. s_rx_queue[j].cid \in Channels
      BY QueueType
    <3>2. Unlost(s_rx_queue[j].cid)
      BY <2>1
    <3>3. GoesOn(s_rx_queue, out[s_rx_queue[j].cid], s_rx_queue[j].cid, s_rx_queue[j].n, j + 1)
      BY <3>2 DEF Joined, QueueJoined
    <3> QED BY <2>1, <3>1, <3>3
  <2> QED BY <2>1 DEF QueueJoined, Unlost
<1>2. AssemblyJoined'
  <2>1. ASSUME s_hid.active, Unlost(s_hid.cid)'
        PROVE  /\ Whole(s_hid.buf)
               /\ GoesOn(s_rx_queue, out'[s_hid.cid], s_hid.cid, s_hid.buf[1].n, 1)
    <3>1. s_hid.cid \in Channels /\ Unlost(s_hid.cid)
      BY <2>1, FirstFragment
    <3>2. Whole(s_hid.buf) /\ GoesOn(s_rx_queue, out[s_hid.cid], s_hid.cid, s_hid.buf[1].n, 1)
      BY <2>1, <3>1 DEF Joined, AssemblyJoined
    <3> QED BY <2>1, <3>1, <3>2
  <2> QED BY <2>1 DEF AssemblyJoined, Unlost
<1> QED BY <1>1, <1>2 DEF Joined

LEMMA SendJoined ==
    ASSUME IInv, Joined, NEW c \in Channels, ClientSend(c)
    PROVE  Joined'
<1>1. PICK total \in Lengths : out' = [out EXCEPT ![c] = PacketsOf(c, sent[c] + 1, total)]
  BY DEF ClientSend
<1>2. /\ \A d \in Channels \ {c} : out'[d] = out[d]
      /\ out'[c] = PacketsOf(c, sent[c] + 1, total)
      /\ UNCHANGED <<s_rx_queue, s_hid, lost>>
  BY <1>1 DEF ClientSend, IInv, TypeOK
<1>3. out'[c][1].init
  <2>1. 1 \in 1 .. total
    BY CtapHidAssumption
  <2>2. PacketsOf(c, sent[c] + 1, total)[1].init
    BY <2>1 DEF PacketsOf
  <2> QED BY <1>2, <2>2
<1>4. ASSUME NEW d \in Channels, NEW n, NEW i, GoesOn(s_rx_queue, out[d], d, n, i)
      PROVE  GoesOn(s_rx_queue, out'[d], d, n, i)
  BY <1>2, <1>3, <1>4 DEF GoesOn, OutContinues
<1>5. \A d : Unlost(d)' => Unlost(d)
  BY <1>2 DEF Unlost
<1> QED BY <1>2, <1>4, <1>5, KeepsJoined

\* A packet that is written is the one the client was to go on with; one that finds
\* the queue full is lost, and with it what is said of its channel.
LEMMA WriteJoined ==
    ASSUME IInv, Ordered, Joined, NEW c \in Channels, HostWrite(c)
    PROVE  Joined'
<1> DEFINE p == Head(out[c])
           q == s_rx_queue
           r == s_rx_queue'
<1>1. /\ out[c] \in Seq(Packet) /\ out[c] # <<>> /\ q \in Seq(Packet) /\ Len(q) \in Nat
      /\ out' = [out EXCEPT ![c] = Tail(out[c])] /\ UNCHANGED s_hid
  BY DEF HostWrite, IInv, TypeOK
<1>2. /\ p \in Packet /\ p = out[c][1] /\ p.cid = c
      /\ OutContinues(out'[c], p.n)
      /\ \A d \in Channels \ {c} : out'[d] = out[d]
  <2>1. /\ Len(out[c]) \in Nat \ {0} /\ Len(Tail(out[c])) = Len(out[c]) - 1
        /\ \A i \in 1 .. Len(Tail(out[c])) : Tail(out[c])[i] = out[c][i + 1]
        /\ p = out[c][1] /\ p \in Packet /\ Tail(out[c]) \in Seq(Packet)
    BY <1>1, HeadTailProperties
  <2>2. /\ out'[c] = Tail(out[c])
        /\ \A d \in Channels \ {c} : out'[d] = out[d]
    BY <1>1 DEF IInv, TypeOK
  <2>3. p.cid = c /\ p.n = sent[c]
    BY <2>1 DEF Ordered, OutInOrder
  <2>4. \A i \in 1 .. Len(out'[c]) : out'[c][i].n = sent[c]
    BY <2>1, <2>2 DEF Ordered, OutInOrder
  <2>5. out'[c] # <<>> => 1 \in 1 .. Len(out'[c])
    BY <2>1, <2>2
  <2> QED BY <2>1, <2>2, <2>3, <2>4, <2>5 DEF OutContinues
<1>3. CASE Len(q) < QUEUE_LEN
  <2>1. r = Append(q, p) /\ lost' = lost
    BY <1>3 DEF HostWrite
  <2>2. \A i \in 1 .. Len(q) : /\ q[i].cid \in Channels
                               /\ Unlost(q[i].cid) => GoesOn(q, out[q[i].cid], q[i].cid, q[i].n, i + 1)
    BY QueueType DEF Joined, QueueJoined
  <2>3. s_hid.active /\ Unlost(s_hid.cid) =>
           /\ s_hid.cid \in Channels /\ Whole(s_hid.buf)
           /\ GoesOn(q, out[s_hid.cid], s_hid.cid, s_hid.buf[1].n, 1)
    BY FirstFragment DEF Joined, AssemblyJoined
  <2> HIDE DEF p, q, r
  <2>4. /\ Len(r) = Len(q) + 1 /\ r[Len(r)] = p
        /\ \A i \in 1 .. Len(q) : r[i] = q[i]
    BY <1>1, <1>2, <2>1, AppendProperties
  <2>5. ASSUME NEW d \in Channels, NEW n, NEW i \in 1 .. Len(q) + 1, GoesOn(q, out[d], d, n, i)
        PROVE  GoesOn(r, out'[d], d, n, i)
    <3>1. CASE d = c
      <4>1. PICK w, v : w = out[c] /\ v = out'[c]
        OBVIOUS
      <4>2. /\ r[Len(r)].cid = c /\ w # <<>> /\ w[1] = r[Len(r)]
            /\ OutContinues(v, w[1].n) /\ GoesOn(q, w, c, n, i)
        BY <1>1, <1>2, <2>4, <2>5, <3>1, <4>1
      <4>3. Len(q) \in Nat /\ i \in 1 .. Len(q) + 1
        BY <1>1
      <4>4. GoesOn(r, v, c, n, i)
        BY <2>4, <4>2, <4>3, AppendGoesOn
      <4> QED BY <3>1, <4>1, <4>4
    <3>2. CASE d # c
      <4>1. r[Len(r)].cid # d /\ out'[d] = out[d]
        BY <1>2, <2>4, <3>2
      <4> QED BY <1>1, <2>4, <2>5, <4>1, OtherGoesOn
    <3> QED BY <3>1, <3>2
  <2>6. ASSUME NEW i \in 1 .. Len(r), Unlost(r[i].cid)
        PROVE  GoesOn(r, out'[r[i].cid], r[i].cid, r[i].n, i + 1)
    <3>1. CASE i \in 1 .. Len(q)
      <4>1. r[i] = q[i] /\ i + 1 \in 1 .. Len(q) + 1
        BY <1>1, <2>4, <3>1
      <4> QED BY <2>2, <2>5, <2>6, <3>1, <4>1
    <3>2. CASE i = Len(q) + 1
      <4>1. r[i] = p /\ p.cid = c /\ i = Len(r) /\ i \in Nat
        BY <1>1, <1>2, <2>4, <3>2
      <4> QED BY <1>2, <4>1 DEF GoesOn
    <3> QED BY <1>1, <2>4, <3>1, <3>2
  <2>7. s_hid.active /\ Unlost(s_hid.cid) => GoesOn(r, out'[s_hid.cid], s_hid.cid, s_hid.buf[1].n, 1)
    <3>1. 1 \in 1 .. Len(q) + 1
      BY <1>1
    <3> QED BY <2>3, <2>5, <3>1
  <2>8. QueueJoined'
    BY <2>1, <2>6 DEF QueueJoined, Unlost, r
  <2>9. AssemblyJoined'
    BY <1>1, <2>1, <2>3, <2>7 DEF AssemblyJoined, Unlost, r
  <2> QED BY <2>8, <2>9 DEF Joined
<1>4. CASE ~(Len(q) < QUEUE_LEN)
  <2>1. r = q /\ lost' = lost \cup {MessageOf(p)}
    BY <1>4 DEF HostWrite
  <2>2. \A d : Unlost(d)' => Unlost(d) /\ d # c
    <3>1. MessageOf(p) \in lost' /\ MessageOf(p)[1] = c
      BY <1>2, <2>1 DEF MessageOf
    <3> QED BY <2>1, <3>1 DEF Unlost
  <2>3. ASSUME NEW d \in Channels, NEW n, NEW i, Unlost(d)', GoesOn(q, out[d], d, n, i)
        PROVE  GoesOn(q, out'[d], d, n, i)
    BY <1>2, <2>2, <2>3
  <2> QED BY <1>1, <2>1, <2>2, <2>3, KeepsJoined
<1> QED BY <1>3, <1>4

LEMMA StepJoined == IInv /\ Ordered /\ Joined /\ [Next]_vars => Joined'
<1> SUFFICES ASSUME IInv, Ordered, Joined, [Next]_vars PROVE Joined'
  OBVIOUS
<1>1. CASE TooLong
  BY <1>1, ErrorJoined DEF TooLong, Inactive
<1>2. CASE StrayPacket
  BY <1>2, ErrorJoined DEF StrayPacket
<1>3. CASE WrongSequence
  BY <1>3, ErrorJoined DEF WrongSequence, Inactive
<1>4. CASE InitPacket
  <2>1. PICK h : /\ h = [active |-> TRUE, cid |-> Received.cid, total_len |-> Received.total,
                         recv_len |-> 1, next_seq |-> 0, buf |-> <<FragmentOf(Received)>>]
                 /\ Receive /\ Assembled(h)
    BY <1>4 DEF InitPacket
  <2>2. s_hid' = h /\ h.cid = Received.cid /\ h.buf[1].n = Received.n /\ Whole(h.buf)
    BY <2>1 DEF FragmentOf, Whole, Assembled
  <2>3. AssemblyJoined'
    BY <2>1, <2>2, ReceiveJoined DEF AssemblyJoined, Unlost
  <2> QED BY <2>1, <2>3, ReceiveJoined DEF Joined
<1>5. CASE Continuation
  <2>1. PICK h : /\ h = Extended /\ Receive /\ Assembled(h) /\ s_hid.active
                 /\ s_hid.cid = Received.cid /\ ~Received.init
    BY <1>5 DEF Continuation, Foreign
  <2>2. s_hid \in Assembly /\ Len(s_hid.buf) \in Nat \ {0} /\ s_hid.buf \in Seq(Fragment)
    <3>1. s_hid \in Assembly /\ s_hid.recv_len = Len(s_hid.buf)
      BY <2>1, FirstFragment DEF IInv, Counters
    <3>2. s_hid.recv_len \in 1 .. CTAPHID_BUF_LEN /\ s_hid.buf \in Seq(Fragment)
      BY <3>1 DEF Assembly
    <3> QED BY <3>1, <3>2, CtapHidAssumption
  <2>3. FragmentOf(Received) \in Fragment
    BY <2>1, ReceivedType DEF FragmentOf, Fragment, Packet
  <2> DEFINE longer == Append(s_hid.buf, FragmentOf(Received))
  <2>4. /\ Len(longer) = Len(s_hid.buf) + 1 /\ DOMAIN longer = 1 .. Len(longer)
        /\ longer[Len(s_hid.buf) + 1] = FragmentOf(Received)
        /\ \A i \in 1 .. Len(s_hid.buf) : longer[i] = s_hid.buf[i]
    BY <2>2, <2>3, AppendProperties
  <2>5. s_hid' = h /\ h.cid = s_hid.cid /\ h.active /\ h.buf \in {s_hid.buf, longer}
    <3> HIDE DEF longer
    <3>1. Extended = [s_hid EXCEPT !.next_seq = s_hid.next_seq + 1,
                        !.recv_len = IF Remaining > 0 THEN s_hid.recv_len + 1 ELSE s_hid.recv_len,
                        !.buf = IF Remaining > 0 THEN longer ELSE s_hid.buf]
      BY DEF Extended, longer
    <3> QED BY <2>1, <2>2, <3>1 DEF Assembly, Assembled
  <2> HIDE DEF longer
  <2>6. h.buf[1] = s_hid.buf[1]
    BY <2>2, <2>4, <2>5
  <2>7. ASSUME Unlost(s_hid.cid)
        PROVE  /\ Whole(h.buf)
               /\ GoesOn(s_rx_queue', out[s_hid.cid], s_hid.cid, s_hid.buf[1].n, 1)
    <3>1. Whole(s_hid.buf) /\ GoesOn(s_rx_queue, out[s_hid.cid], s_hid.cid, s_hid.buf[1].n, 1)
      BY <2>1, <2>7 DEF Joined, AssemblyJoined
    <3>2. GoesOn(s_rx_queue', out[s_hid.cid], s_hid.cid, s_hid.buf[1].n, 1)
      BY <2>1, <3>1, ReceiveJoined
    <3>3. Received.n = s_hid.buf[1].n
      <4>1. Len(s_rx_queue) \in Nat \ {0} /\ s_rx_queue[1] = Received
        BY <2>1 DEF Receive, Received, IInv, TypeOK
      <4>2. NoStart(s_rx_queue, s_hid.cid, 1, 1)
        BY <2>1, <4>1 DEF NoStart
      <4> QED BY <2>1, <3>1, <4>1, <4>2 DEF GoesOn
    <3>4. \A i \in 1 .. Len(s_hid.buf) : s_hid.buf[i].cid = s_hid.cid
      BY <2>1 DEF IInv, OneSender
    <3>5. Whole(longer)
      <4> SUFFICES ASSUME NEW i \in 1 .. Len(longer)
                   PROVE  longer[i].cid = longer[1].cid /\ longer[i].n = longer[1].n
        BY <2>4 DEF Whole, MessageOf
      <4>1. longer[1] = s_hid.buf[1] /\ longer[1].cid = s_hid.cid
        BY <2>2, <2>4, <3>4
      <4>2. CASE i <= Len(s_hid.buf)
        BY <2>2, <2>4, <3>1, <4>1, <4>2 DEF Whole, MessageOf
      <4>3. CASE i = Len(s_hid.buf) + 1
        BY <2>1, <2>4, <3>3, <4>1, <4>3 DEF FragmentOf
      <4> QED BY <2>2, <2>4, <4>2, <4>3
    <3> QED BY <2>5, <3>1, <3>2, <3>5
  <2>8. AssemblyJoined'
    BY <2>1, <2>5, <2>6, <2>7, ReceiveJoined DEF AssemblyJoined, Unlost
  <2> QED BY <2>1, <2>8, ReceiveJoined DEF Joined
<1>6. CASE DispatchReturns
  BY <1>6 DEF DispatchReturns, Joined, QueueJoined, AssemblyJoined, Unlost
<1>7. ASSUME NEW c \in Channels, ClientSend(c) PROVE Joined'
  BY <1>7, SendJoined
<1>8. ASSUME NEW c \in Channels, HostWrite(c) PROVE Joined'
  BY <1>8, WriteJoined
<1>9. CASE UNCHANGED vars
  BY <1>9 DEF vars, Joined, QueueJoined, AssemblyJoined, Unlost
<1> QED BY <1>1, <1>2, <1>3, <1>4, <1>5, <1>6, <1>7, <1>8, <1>9 DEF Next, Task

\* For any number of channels and any queue, the message that fido2_task executes is one
\* that a client sent, unless a packet of its channel found the queue full
\* (fido2_on_hid_rx).
THEOREM WholeMessages == Spec => []WholeUnlessLost
<1>1. Init => Joined
  BY DEF Init, Joined, QueueJoined, AssemblyJoined
<1>2. IInv /\ Joined => WholeUnlessLost
  BY DEF IInv, Counters, Joined, AssemblyJoined, WholeUnlessLost, Unlost
<1>3. IInv /\ Ordered /\ [Next]_vars => Ordered'
  BY StepOrdered
<1> QED BY <1>1, <1>2, <1>3, InitOrdered, StepJoined, Invariance, PTL DEF Spec
=============================================================================
