------------------------------- MODULE CtapHid -------------------------------
(***************************************************************************)
(* The CTAPHID layer of fido2.c.  Clients on the host, each with a channel,   *)
(* write the packets of their messages to the FIDO endpoint of usb_hid_device;*)
(* fido2_on_hid_rx queues them and fido2_task assembles messages, one at a    *)
(* time for all channels, and executes each when it is complete.              *)
(*                                                                         *)
(* Lengths are counted in packets: 57 bytes of the first and 59 of the others *)
(* are one unit.  A packet carries the number of its message, which the code  *)
(* never sees, to tell whose bytes end up in s_hid.buf.                       *)
(***************************************************************************)
EXTENDS Integers, Sequences, FiniteSets

CONSTANTS Channels,
          QUEUE_LEN,         \* packets in s_rx_queue
          CTAPHID_BUF_LEN,   \* longest message, in packets
          Lengths,           \* message lengths the clients use
          MaxMessages        \* bound: channel -> messages it sends

ASSUME CtapHidAssumption ==
    /\ QUEUE_LEN \in Nat /\ CTAPHID_BUF_LEN \in Nat \ {0}
    /\ Lengths \subseteq Nat \ {0} /\ MaxMessages \in [Channels -> Nat]

Message == Channels \X Nat
Packet == [cid : Channels, init : BOOLEAN, total : Lengths, seq : Nat, n : Nat]
Fragment == [cid : Channels, n : Nat, seq : Nat]

VARIABLES
    out,         \* channel -> packets of its message that it still has to write
    sent,        \* channel -> messages it began
    s_rx_queue,
    pc,          \* fido2_task: "receive" or "dispatch"
    s_hid,       \* the message being assembled
    lost, refused, handed  \* history: messages that lost a packet, that were
                           \* answered by an error, that were handed on whole

vars == <<out, sent, s_rx_queue, pc, s_hid, lost, refused, handed>>

Init ==
    /\ out = [c \in Channels |-> <<>>] /\ sent = [c \in Channels |-> 0]
    /\ s_rx_queue = <<>> /\ pc = "receive"
    /\ s_hid = [active |-> FALSE]
    /\ lost = {} /\ refused = {} /\ handed = [c \in Channels |-> <<>>]

-----------------------------------------------------------------------------
(* A client sends a message after it wrote the one before; it may have given  *)
(* up waiting for the answer.                                                *)

PacketsOf(c, n, total) ==
    [i \in 1 .. total |-> [cid |-> c, init |-> i = 1, total |-> total,
                           seq |-> IF i = 1 THEN 0 ELSE i - 2, n |-> n]]

ClientSend(c) ==
    /\ out[c] = <<>> /\ sent[c] < MaxMessages[c]
    /\ sent' = [sent EXCEPT ![c] = @ + 1]
    /\ \E total \in Lengths : out' = [out EXCEPT ![c] = PacketsOf(c, sent[c] + 1, total)]
    /\ UNCHANGED <<s_rx_queue, pc, s_hid, lost, refused, handed>>

MessageOf(p) == <<p.cid, p.n>>

\* tud_hid_set_report_cb, fido2_on_hid_rx: the result of xQueueSend is ignored.
HostWrite(c) ==
    /\ out[c] # <<>>
    /\ out' = [out EXCEPT ![c] = Tail(@)]
    /\ IF Len(s_rx_queue) < QUEUE_LEN
       THEN s_rx_queue' = Append(s_rx_queue, Head(out[c])) /\ UNCHANGED lost
       ELSE lost' = lost \cup {MessageOf(Head(out[c]))} /\ UNCHANGED s_rx_queue
    /\ UNCHANGED <<sent, pc, s_hid, refused, handed>>

-----------------------------------------------------------------------------
(* fido2_task: ctaphid_process_packet.                                       *)

Received == Head(s_rx_queue)
Receive == /\ pc = "receive" /\ s_rx_queue # <<>>
           /\ s_rx_queue' = Tail(s_rx_queue)
           /\ UNCHANGED <<out, sent, lost>>

\* ctaphid_error for the message of this packet.
Error == /\ refused' = refused \cup {MessageOf(Received)}
         /\ UNCHANGED <<pc, handed>>

FragmentOf(p) == [cid |-> p.cid, n |-> p.n, seq |-> p.seq]

\* The message is complete when its length is reached; it is whole when its
\* fragments are one message's.
Whole(buf) == \A i \in DOMAIN buf : MessageOf(buf[i]) = MessageOf(buf[1])
Assembled(h) ==
    /\ s_hid' = h
    /\ UNCHANGED refused
    /\ IF h.recv_len >= h.total_len
       THEN /\ pc' = "dispatch"
            /\ handed' = [handed EXCEPT ![h.cid] =
                             IF Whole(h.buf) THEN Append(@, h.buf[1].n) ELSE @]
       ELSE UNCHANGED <<pc, handed>>

TooLong ==
    /\ Receive /\ Received.init /\ Received.total > CTAPHID_BUF_LEN
    /\ Error /\ s_hid' = [active |-> FALSE]

\* A wrong initialisation: an assembly of another channel is kept.
InitPacketIfFree ==
    /\ Receive /\ Received.init /\ Received.total <= CTAPHID_BUF_LEN
    /\ IF s_hid.active /\ s_hid.cid # Received.cid THEN UNCHANGED <<s_hid, refused, pc, handed>>
       ELSE Assembled([active |-> TRUE, cid |-> Received.cid, total_len |-> Received.total,
                       recv_len |-> 1, next_seq |-> 0, buf |-> <<FragmentOf(Received)>>])

\* A message that is being assembled is thrown away, whichever channel it is of.
InitPacket ==
    /\ Receive /\ Received.init /\ Received.total <= CTAPHID_BUF_LEN
    /\ Assembled([active |-> TRUE, cid |-> Received.cid, total_len |-> Received.total,
                  recv_len |-> 1, next_seq |-> 0, buf |-> <<FragmentOf(Received)>>])

\* A continuation of no message, or of another channel's: the assembly goes on.
Foreign == ~(s_hid.active /\ s_hid.cid = Received.cid)
StrayPacket ==
    /\ Receive /\ ~Received.init /\ Foreign
    /\ Error /\ UNCHANGED s_hid

WrongSequence ==
    /\ Receive /\ ~Received.init /\ ~Foreign /\ Received.seq # s_hid.next_seq
    /\ Error /\ s_hid' = [active |-> FALSE]

\* The chunk is what the message still needs.
Remaining == s_hid.total_len - s_hid.recv_len
Extended == [s_hid EXCEPT !.next_seq = @ + 1,
                          !.recv_len = IF Remaining > 0 THEN @ + 1 ELSE @,
                          !.buf = IF Remaining > 0 THEN Append(@, FragmentOf(Received)) ELSE @]

\* A wrong continuation: the channel is not looked at.
ContinuationAnyChannel ==
    /\ Receive /\ ~Received.init /\ s_hid.active /\ Received.seq = s_hid.next_seq
    /\ Assembled(Extended)

Continuation ==
    /\ Receive /\ ~Received.init /\ ~Foreign /\ Received.seq = s_hid.next_seq
    /\ Assembled(Extended)

\* A wrong end: the message stays active.
DispatchReturnsActive ==
    /\ pc = "dispatch" /\ pc' = "receive"
    /\ UNCHANGED <<out, sent, s_rx_queue, s_hid, lost, refused, handed>>

\* ctaphid_dispatch returns: at the latest when the wait for the user times out.
DispatchReturns ==
    /\ pc = "dispatch" /\ pc' = "receive"
    /\ s_hid' = [active |-> FALSE]
    /\ UNCHANGED <<out, sent, s_rx_queue, lost, refused, handed>>

Task == \/ TooLong \/ InitPacket \/ StrayPacket \/ WrongSequence \/ Continuation
        \/ DispatchReturns
Next == Task \/ \E c \in Channels : ClientSend(c) \/ HostWrite(c)

Spec == Init /\ [][Next]_vars
\* The task runs whenever it has a packet, and so does the host that has one to
\* write.  No client has to send.
FairSpec == Spec /\ WF_vars(Task) /\ \A c \in Channels : WF_vars(HostWrite(c))

-----------------------------------------------------------------------------
(* Properties.                                                               *)

Assembly == [active : {TRUE}, cid : Channels, total_len : 1 .. CTAPHID_BUF_LEN,
             recv_len : 1 .. CTAPHID_BUF_LEN, next_seq : Nat, buf : Seq(Fragment)]
Inactive == [active |-> FALSE]

\* What is received never leaves the 2048 bytes of s_hid.buf, whatever lengths
\* the packets claim and whichever of them are lost.
TypeOK ==
    /\ out \in [Channels -> Seq(Packet)] /\ sent \in [Channels -> Nat]
    /\ s_rx_queue \in Seq(Packet) /\ Len(s_rx_queue) <= QUEUE_LEN
    /\ pc \in {"receive", "dispatch"}
    /\ s_hid \in Assembly \cup {Inactive}
    /\ lost \subseteq Message /\ refused \subseteq Message
    /\ handed \in [Channels -> Seq(Nat)]

\* The bytes of a message come from the channel that is answered, and in order,
\* also when packets of any channel were lost in the full queue.
OneSender ==
    s_hid.active =>
        \A i \in 1 .. Len(s_hid.buf) :
            /\ s_hid.buf[i].cid = s_hid.cid
            /\ s_hid.buf[i].seq = IF i = 1 THEN 0 ELSE i - 2

\* The message that is executed is one that was sent, unless its channel lost a
\* packet: then the head of one message may have got the tail of the next.
WholeUnlessLost ==
    pc = "dispatch" /\ ~Whole(s_hid.buf) => \E m \in lost : m[1] = s_hid.cid

Numbers(s) == {s[i] : i \in DOMAIN s}
Settled(c, n) == n \in Numbers(handed[c]) \/ <<c, n>> \in refused \cup lost

\* Every message is executed, refused or lost in the end, also those that wait
\* behind a command that waits for the user.
EveryMessageSettles ==
    \A c \in Channels : \A n \in 1 .. MaxMessages[c] : sent[c] >= n ~> Settled(c, n)

\* The layer keeps the promise of CtapChannel: in order, and each message once.
Channel == INSTANCE CtapChannel WITH Channels <- Channels, sent <- sent, handed <- handed
InOrderOnce == Channel!Spec
=============================================================================
