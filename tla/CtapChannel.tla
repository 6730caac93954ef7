----------------------------- MODULE CtapChannel -----------------------------
(***************************************************************************)
(* What CTAPHID promises to the clients of the authenticator, whatever the   *)
(* packets go through: of the messages that a channel has sent, some are     *)
(* handed to the authenticator, in the order they were sent, each once.      *)
(***************************************************************************)
EXTENDS Integers, Sequences

CONSTANT Channels
VARIABLES sent,    \* channel -> number of messages it began to send
          handed   \* channel -> the numbers of those handed on, in order

Init == sent = [c \in Channels |-> 0] /\ handed = [c \in Channels |-> <<>>]

Send(c) == sent' = [sent EXCEPT ![c] = @ + 1] /\ UNCHANGED handed

LastHanded(c) == IF handed[c] = <<>> THEN 0 ELSE handed[c][Len(handed[c])]
Hand(c) == \E n \in LastHanded(c) + 1 .. sent[c] :
              handed' = [handed EXCEPT ![c] = Append(@, n)] /\ UNCHANGED sent

Next == \E c \in Channels : Send(c) \/ Hand(c)
Spec == Init /\ [][Next]_<<sent, handed>>
=============================================================================
