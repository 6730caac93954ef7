--------------------------- MODULE BleHostProofs ---------------------------
(***************************************************************************)
(* Proofs about ble_hid_host.c, in two parts: BleLink, the link to the          *)
(* keyboards, and then BleGatt, the discovery of a keyboard's reports.          *)
(***************************************************************************)
EXTENDS BleLink, BleGatt, TLAPS

Types == {"CONNECT", "LINK_ESTAB", "DISCONNECT"}
Events == [type : Types, ok : BOOLEAN, peer : Handles]

-----------------------------------------------------------------------------
(* A queue of events, the last of which of a kind tells the truth.            *)

\* state is what the events before the queue have made of the handler's view, after
\* what an event of Kind makes of it, and truth what the stack knows.
Tells(s, Kind, after, state, truth) ==
    /\ (\A i \in 1 .. Len(s) : s[i] \notin Kind) => state = truth
    /\ \A i \in 1 .. Len(s) :
          s[i] \in Kind /\ (\A j \in 1 .. Len(s) : j > i => s[j] \notin Kind)
              => after[s[i]] = truth

\* A sequence with an element more.
LEMMA AppendSeq ==
    ASSUME NEW S, NEW s \in Seq(S), NEW e \in S
    PROVE  /\ Append(s, e) \in Seq(S) /\ Len(s) \in Nat /\ Len(Append(s, e)) = Len(s) + 1
           /\ \A i \in 1 .. Len(s) : Append(s, e)[i] = s[i]
           /\ Append(s, e)[Len(s) + 1] = e
OBVIOUS

\* A sequence without its first element.
LEMMA TailSeq ==
    ASSUME NEW S, NEW s \in Seq(S), s # <<>>
    PROVE  /\ Tail(s) \in Seq(S) /\ Len(s) \in Nat \ {0} /\ Len(Tail(s)) = Len(s) - 1
           /\ Head(s) = s[1] /\ s[1] \in S
           /\ \A i \in 1 .. Len(s) - 1 : Tail(s)[i] = s[i + 1]
OBVIOUS

\* A new event is the last one.
LEMMA TellsAppend ==
    ASSUME NEW S, NEW s \in Seq(S), NEW e \in S, NEW Kind, NEW after, NEW state, NEW truth,
           NEW now, Tells(s, Kind, after, state, truth),
           e \in Kind => after[e] = now, e \notin Kind => now = truth
    PROVE  Tells(Append(s, e), Kind, after, state, now)
<1> DEFINE t == Append(s, e)
<1>1. /\ Len(s) \in Nat /\ Len(t) = Len(s) + 1 /\ t[Len(s) + 1] = e
      /\ \A i \in 1 .. Len(s) : t[i] = s[i]
  BY AppendSeq
<1> HIDE DEF t
<1>2. ASSUME \A i \in 1 .. Len(t) : t[i] \notin Kind PROVE state = now
  <2>1. e \notin Kind
    BY <1>1, <1>2
  <2>2. \A i \in 1 .. Len(s) : s[i] \notin Kind
    BY <1>1, <1>2
  <2> QED BY <2>1, <2>2 DEF Tells
<1>3. ASSUME NEW i \in 1 .. Len(t), t[i] \in Kind,
             \A j \in 1 .. Len(t) : j > i => t[j] \notin Kind
      PROVE  after[t[i]] = now
  <2>1. CASE i = Len(s) + 1
    BY <1>1, <1>3, <2>1
  <2>2. CASE i # Len(s) + 1
    <3>1. i \in 1 .. Len(s) /\ t[i] = s[i] /\ e \notin Kind
      BY <1>1, <1>3, <2>2
    <3>2. \A j \in 1 .. Len(s) : j > i => s[j] \notin Kind
      BY <1>1, <1>3
    <3> QED BY <1>3, <3>1, <3>2 DEF Tells
  <2> QED BY <2>1, <2>2
<1>4. Tells(t, Kind, after, state, now)
  BY <1>2, <1>3 DEF Tells
<1> QED BY <1>4 DEF t

\* What the first event makes of the state is what the rest of the queue goes on from.
LEMMA TellsTail ==
    ASSUME NEW S, NEW s \in Seq(S), s # <<>>, NEW Kind, NEW after, NEW state, NEW truth,
           NEW next, Tells(s, Kind, after, state, truth),
           Head(s) \in Kind => next = after[Head(s)], Head(s) \notin Kind => next = state
    PROVE  Tells(Tail(s), Kind, after, next, truth)
<1> DEFINE t == Tail(s)
<1>1. /\ Len(s) \in Nat \ {0} /\ Len(t) = Len(s) - 1 /\ Head(s) = s[1]
      /\ \A i \in 1 .. Len(s) - 1 : t[i] = s[i + 1]
  BY TailSeq
<1> HIDE DEF t
<1>2. ASSUME \A i \in 1 .. Len(t) : t[i] \notin Kind PROVE next = truth
  <2>1. \A j \in 1 .. Len(s) : j > 1 => s[j] \notin Kind
    <3> SUFFICES ASSUME NEW j \in 1 .. Len(s), j > 1 PROVE s[j] \notin Kind
      OBVIOUS
    <3>1. j - 1 \in 1 .. Len(t) /\ t[j - 1] = s[j]
      BY <1>1
    <3> QED BY <1>2, <3>1
  <2>2. CASE Head(s) \in Kind
    BY <1>1, <2>1, <2>2 DEF Tells
  <2>3. CASE Head(s) \notin Kind
    <3>1. \A j \in 1 .. Len(s) : s[j] \notin Kind
      BY <1>1, <2>1, <2>3
    <3> QED BY <2>3, <3>1 DEF Tells
  <2> QED BY <2>2, <2>3
<1>3. ASSUME NEW i \in 1 .. Len(t), t[i] \in Kind,
             \A j \in 1 .. Len(t) : j > i => t[j] \notin Kind
      PROVE  after[t[i]] = truth
  <2>1. i + 1 \in 1 .. Len(s) /\ t[i] = s[i + 1]
    BY <1>1
  <2>2. \A j \in 1 .. Len(s) : j > i + 1 => s[j] \notin Kind
    <3> SUFFICES ASSUME NEW j \in 1 .. Len(s), j > i + 1 PROVE s[j] \notin Kind
      OBVIOUS
    <3>1. j - 1 \in 1 .. Len(t) /\ j - 1 > i /\ t[j - 1] = s[j]
      BY <1>1
    <3> QED BY <1>3, <3>1
  <2> QED BY <1>3, <2>1, <2>2 DEF Tells
<1>4. Tells(t, Kind, after, next, truth)
  BY <1>2, <1>3 DEF Tells
<1> QED BY <1>4 DEF t

-----------------------------------------------------------------------------
(* The inductive invariant.                                                  *)

HandleEvents == {e \in Events : \/ e.type = "CONNECT" /\ e.ok
                                \/ e.type = "LINK_ESTAB" /\ ~e.ok
                                \/ e.type = "DISCONNECT"}
HandleAfter == [e \in Events |-> IF e.type = "CONNECT" THEN e.peer ELSE NoPeer]
FlagEvents == {e \in Events : \/ e.type = "LINK_ESTAB" /\ e.ok
                              \/ e.type = "DISCONNECT"}
FlagAfter == [e \in Events |-> IF e.type = "LINK_ESTAB" THEN 1 ELSE 0]
Flag(b) == IF b THEN 1 ELSE 0

ApiType == {ApiIdle} \cup [at : {"forget", "clear", "terminate"}] \cup [at : {"peer"}, to : Peers]
              \cup [at : {"attempt", "again"}, to : Peers, n : 1 .. ATTEMPTS]
GapType == {NoProcedure} \cup [proc : {"scan"}]
              \cup [proc : {"connect"}, to : Peers, cancelled : BOOLEAN]
CtxType == [conn_handle : Handles, connected : BOOLEAN, peer_addr : Handles, peer_known : BOOLEAN]
LinkType == [to : Handles, up : BOOLEAN, terminated : BOOLEAN]

\* A connect is only made to a keyboard, and the peer is stored while its link is there.
Formed ==
    /\ s_ctx \in CtxType /\ (s_ctx.peer_known => s_ctx.peer_addr \in Peers)
    /\ stored \in Handles /\ timer \in BOOLEAN
    /\ cb \in {"idle", "connect"} /\ (cb = "connect" => s_ctx.peer_addr \in Peers)
    /\ api \in ApiType /\ gap \in GapType
    /\ link \in LinkType /\ (link # NoLink => link.to \in Peers)
    /\ estab \in {"idle", "store"} /\ (estab = "store" => s_ctx.connected)
    /\ events \in Seq(Events) /\ synced \in BOOLEAN

\* The queue will bring the handle and the flag to what the link is.
Follows ==
    /\ Tells(events, HandleEvents, HandleAfter, s_ctx.conn_handle, link.to)
    /\ Tells(events, FlagEvents, FlagAfter, Flag(s_ctx.connected), Flag(link.up))

\* While the user connects there is no scan: only httpd scans.
NoScan == api.at \in {"peer", "attempt", "again"} => gap.proc # "scan"

\* A link that was seen to be up, or will be, is up or its end is in the queue.
Ended == \E i \in 1 .. Len(events) : events[i].type = "DISCONNECT"
EndSeen ==
    /\ s_ctx.connected => link.up \/ Ended
    /\ \A i \in 1 .. Len(events) :
          events[i].type = "LINK_ESTAB" /\ events[i].ok
              => \/ link.up
                 \/ \E j \in 1 .. Len(events) : j > i /\ events[j].type = "DISCONNECT"

\* There is always something that leads to a connect: the timer, its callback, a
\* connect under way, a link, a failure that starts the timer, or the user's connect.
Failing(e) == e.type = "DISCONNECT" \/ ~e.ok
Woken ==
    s_ctx.peer_known =>
        \/ timer \/ cb = "connect" \/ gap.proc = "connect" \/ link # NoLink
        \/ \E i \in 1 .. Len(events) : Failing(events[i])
        \/ api.at \in {"peer", "attempt", "again"}

LinkInv == Formed /\ Follows /\ NoScan /\ EndSeen /\ Woken

-----------------------------------------------------------------------------

\* The invariant holds after the start.
LEMMA InitInv == Init => LinkInv
<1> SUFFICES ASSUME Init PROVE LinkInv
  OBVIOUS
<1> USE DEF Init
<1>1. Formed
  <2>1. s_ctx \in CtxType /\ link \in LinkType /\ link = NoLink /\ ~s_ctx.peer_known
    BY DEF FreshCtx, CtxType, NoLink, LinkType, Handles
  <2>2. api \in ApiType /\ gap \in GapType /\ events \in Seq(Events) /\ stored \in Handles
    BY DEF ApiType, GapType, Handles
  <2> QED BY <2>1, <2>2 DEF Formed
<1>2. Follows
  BY DEF Follows, Tells, FreshCtx, NoLink, Flag
<1>3. NoScan /\ EndSeen /\ Woken
  BY DEF NoScan, EndSeen, Woken, ApiIdle, NoProcedure, FreshCtx
<1> QED BY <1>1, <1>2, <1>3 DEF LinkInv

\* What the fields of a procedure and of a call are.
LEMMA Shapes ==
    ASSUME Formed
    PROVE  /\ gap.proc \in {"none", "scan", "connect"}
           /\ gap.proc = "none" => gap = NoProcedure
           /\ gap.proc = "connect" =>
                 gap.to \in Peers /\ gap \in [proc : {"connect"}, to : Peers, cancelled : BOOLEAN]
           /\ api.at \in ApiCalls
           /\ api.at = "idle" => api = ApiIdle
           /\ api.at = "peer" => api.to \in Peers
           /\ api.at \in {"attempt", "again"} =>
                 api \in [at : {"attempt", "again"}, to : Peers, n : 1 .. ATTEMPTS]
<1>1. gap \in GapType /\ api \in ApiType
  BY DEF Formed
<1>2. /\ gap.proc \in {"none", "scan", "connect"}
      /\ gap.proc = "none" => gap = NoProcedure
      /\ gap.proc = "connect" =>
            gap.to \in Peers /\ gap \in [proc : {"connect"}, to : Peers, cancelled : BOOLEAN]
  BY <1>1 DEF GapType, NoProcedure
<1>3. /\ api.at \in ApiCalls
      /\ api.at = "idle" => api = ApiIdle
      /\ api.at = "peer" => api.to \in Peers
  BY <1>1 DEF ApiType, ApiIdle, ApiCalls
<1>4. api.at \in {"attempt", "again"} =>
         api \in [at : {"attempt", "again"}, to : Peers, n : 1 .. ATTEMPTS]
  BY <1>1 DEF ApiType, ApiIdle
<1> QED BY <1>2, <1>3, <1>4

\* Cancelling ends a scan and leaves a connect to end by itself.
LEMMA CancelledType ==
    ASSUME Formed
    PROVE  /\ Cancelled \in GapType /\ Cancelled.proc # "scan"
           /\ gap.proc = "connect" => Cancelled.proc = "connect"
<1>1. CASE gap.proc = "connect"
  <2>1. [gap EXCEPT !.cancelled = TRUE] \in [proc : {"connect"}, to : Peers, cancelled : BOOLEAN]
    BY <1>1, Shapes
  <2>2. Cancelled = [gap EXCEPT !.cancelled = TRUE]
    BY <1>1 DEF Cancelled
  <2> QED BY <2>1, <2>2 DEF GapType
<1>2. CASE gap.proc # "connect"
  BY <1>2 DEF Cancelled, GapType, NoProcedure
<1> QED BY <1>1, <1>2

\* A connect that is accepted is under way; one that is not finds another procedure
\* or a link.
LEMMA GapConnectType ==
    ASSUME Formed, NEW p \in Peers, GapConnect(p)
    PROVE  /\ gap' \in GapType
           /\ ConnectAnswer \in {"ok", "already", "busy", "nomem"}
           /\ ConnectAnswer \in {"ok", "already"} => gap'.proc = "connect"
           /\ ConnectAnswer = "nomem" => link # NoLink
           /\ ConnectAnswer = "busy" <=> gap.proc = "scan"
           /\ gap.proc = "connect" => gap'.proc = "connect"
           /\ gap'.proc = "scan" => gap.proc = "scan"
<1>1. gap.proc \in {"none", "scan", "connect"} /\ gap \in GapType
  BY Shapes DEF Formed
<1>2. [proc |-> "connect", to |-> p, cancelled |-> FALSE] \in GapType
  BY DEF GapType
<1> QED BY <1>1, <1>2 DEF GapConnect, ConnectAnswer

-----------------------------------------------------------------------------
(* What a step does to the queue.                                            *)

\* The queue, the link and what the handlers know of it stay.
LEMMA Quiet ==
    ASSUME LinkInv, events' = events, link'.to = link.to, link'.up = link.up,
           s_ctx'.conn_handle = s_ctx.conn_handle, s_ctx'.connected = s_ctx.connected
    PROVE  Follows' /\ EndSeen'
<1>1. Follows'
  BY DEF LinkInv, Follows, Tells
<1>2. EndSeen'
  BY DEF LinkInv, EndSeen, Ended
<1> QED BY <1>1, <1>2

\* The stack posts an event that tells what it has done to the link.
LEMMA Posted ==
    ASSUME LinkInv, NEW e \in Events, Post(e), s_ctx' = s_ctx,
           e \in HandleEvents => HandleAfter[e] = link'.to,
           e \notin HandleEvents => link'.to = link.to,
           e \in FlagEvents => FlagAfter[e] = Flag(link'.up),
           e \notin FlagEvents => Flag(link'.up) = Flag(link.up),
           link.up => link'.up \/ e.type = "DISCONNECT",
           e.type = "LINK_ESTAB" /\ e.ok => link'.up
    PROVE  /\ Follows' /\ EndSeen' /\ events' \in Seq(Events)
           /\ (\E i \in 1 .. Len(events) : Failing(events[i]))
                 => \E i \in 1 .. Len(events') : Failing(events'[i])
           /\ Failing(e) => \E i \in 1 .. Len(events') : Failing(events'[i])
<1>1. events \in Seq(Events)
  BY DEF LinkInv, Formed
<1>2. /\ events' \in Seq(Events) /\ Len(events) \in Nat /\ Len(events') = Len(events) + 1
      /\ events'[Len(events) + 1] = e
      /\ \A i \in 1 .. Len(events) : events'[i] = events[i]
  BY <1>1, AppendSeq DEF Post
<1>3. Follows'
  <2>1. Tells(events', HandleEvents, HandleAfter, s_ctx.conn_handle, link'.to)
    BY <1>1, TellsAppend DEF LinkInv, Follows, Post
  <2>2. Tells(events', FlagEvents, FlagAfter, Flag(s_ctx.connected), Flag(link'.up))
    BY <1>1, TellsAppend DEF LinkInv, Follows, Post
  <2> QED BY <2>1, <2>2 DEF Follows, HandleEvents, FlagEvents, HandleAfter, FlagAfter, Tells, Flag
<1>4. EndSeen'
  <2>1. Ended \/ e.type = "DISCONNECT" => Ended'
    BY <1>2 DEF Ended
  <2>2. s_ctx'.connected => link'.up \/ Ended'
    BY <2>1 DEF LinkInv, EndSeen
  <2>3. ASSUME NEW i \in 1 .. Len(events'), events'[i].type = "LINK_ESTAB", events'[i].ok,
               ~link'.up
        PROVE  \E j \in 1 .. Len(events') : j > i /\ events'[j].type = "DISCONNECT"
    <3>1. i \in 1 .. Len(events) /\ events'[i] = events[i]
      BY <1>2, <2>3
    <3>2. CASE link.up
      BY <1>2, <2>3, <3>1, <3>2
    <3>3. CASE ~link.up
      <4>1. PICK j \in 1 .. Len(events) : j > i /\ events[j].type = "DISCONNECT"
        BY <2>3, <3>1, <3>3 DEF LinkInv, EndSeen
      <4> QED BY <1>2, <4>1
    <3> QED BY <3>2, <3>3
  <2> QED BY <2>2, <2>3 DEF EndSeen
<1>5. /\ (\E i \in 1 .. Len(events) : Failing(events[i]))
            => \E i \in 1 .. Len(events') : Failing(events'[i])
      /\ Failing(e) => \E i \in 1 .. Len(events') : Failing(events'[i])
  BY <1>2 DEF Failing
<1> QED BY <1>2, <1>3, <1>4, <1>5

\* The host task takes the first event.
LEMMA Handle ==
    ASSUME LinkInv, events # <<>>, events' = Tail(events), link' = link,
           Head(events) \in HandleEvents => s_ctx'.conn_handle = HandleAfter[Head(events)],
           Head(events) \notin HandleEvents => s_ctx'.conn_handle = s_ctx.conn_handle,
           Head(events) \in FlagEvents => Flag(s_ctx'.connected) = FlagAfter[Head(events)],
           Head(events) \notin FlagEvents => s_ctx'.connected = s_ctx.connected
    PROVE  /\ Follows' /\ EndSeen' /\ events' \in Seq(Events) /\ Head(events) \in Events
           /\ ~Failing(Head(events)) /\ (\E i \in 1 .. Len(events) : Failing(events[i]))
                 => \E i \in 1 .. Len(events') : Failing(events'[i])
<1>1. events \in Seq(Events)
  BY DEF LinkInv, Formed
<1>2. /\ events' \in Seq(Events) /\ Len(events) \in Nat \ {0} /\ Len(events') = Len(events) - 1
      /\ Head(events) = events[1] /\ Head(events) \in Events
      /\ \A i \in 1 .. Len(events) - 1 : events'[i] = events[i + 1]
  BY <1>1, TailSeq
<1>3. Follows'
  <2>1. Tells(events', HandleEvents, HandleAfter, s_ctx'.conn_handle, link.to)
    BY <1>1, TellsTail DEF LinkInv, Follows
  <2>2. Tells(events', FlagEvents, FlagAfter, Flag(s_ctx'.connected), Flag(link.up))
    BY <1>1, TellsTail DEF LinkInv, Follows
  <2> QED BY <2>1, <2>2 DEF Follows, HandleEvents, FlagEvents, HandleAfter, FlagAfter, Tells, Flag
\* What comes later than the first event comes later in the rest.
<1>4. ASSUME NEW i \in 1 .. Len(events), i > 1
      PROVE  i - 1 \in 1 .. Len(events') /\ events'[i - 1] = events[i]
  BY <1>2, <1>4
<1>5. EndSeen'
  <2>1. s_ctx'.connected => link.up \/ Ended'
    <3> SUFFICES ASSUME s_ctx'.connected, ~link.up PROVE Ended'
      OBVIOUS
    <3>1. CASE Head(events).type = "LINK_ESTAB" /\ Head(events).ok
      <4>1. PICK j \in 1 .. Len(events) : j > 1 /\ events[j].type = "DISCONNECT"
        BY <1>2, <3>1 DEF LinkInv, EndSeen
      <4> QED BY <1>4, <4>1 DEF Ended
    <3>2. CASE ~(Head(events).type = "LINK_ESTAB" /\ Head(events).ok)
      <4>1. Head(events).type # "DISCONNECT"
        <5> SUFFICES ASSUME Head(events).type = "DISCONNECT" PROVE FALSE
          OBVIOUS
        <5>1. Head(events) \in FlagEvents
          BY <1>2 DEF FlagEvents
        <5> QED BY <1>2, <5>1 DEF FlagAfter, Flag
      <4>2. s_ctx.connected
        BY <3>2, <4>1 DEF FlagEvents
      <4>3. PICK j \in 1 .. Len(events) : events[j].type = "DISCONNECT"
        BY <4>2 DEF LinkInv, EndSeen, Ended
      <4>4. j > 1
        BY <1>2, <4>1, <4>3
      <4> QED BY <1>4, <4>3, <4>4 DEF Ended
    <3> QED BY <3>1, <3>2
  <2>2. ASSUME NEW i \in 1 .. Len(events'), events'[i].type = "LINK_ESTAB", events'[i].ok,
               ~link.up
        PROVE  \E j \in 1 .. Len(events') : j > i /\ events'[j].type = "DISCONNECT"
    <3>1. i + 1 \in 1 .. Len(events) /\ events'[i] = events[i + 1]
      BY <1>2
    <3>2. PICK j \in 1 .. Len(events) : j > i + 1 /\ events[j].type = "DISCONNECT"
      BY <2>2, <3>1 DEF LinkInv, EndSeen
    <3>3. j - 1 \in 1 .. Len(events') /\ events'[j - 1] = events[j] /\ j - 1 > i
      BY <1>4, <3>2
    <3> QED BY <3>2, <3>3
  <2> QED BY <2>1, <2>2 DEF EndSeen
<1>6. ASSUME ~Failing(Head(events)), NEW i \in 1 .. Len(events), Failing(events[i])
      PROVE  \E j \in 1 .. Len(events') : Failing(events'[j])
  <2>1. i > 1
    BY <1>2, <1>6
  <2> QED BY <1>4, <1>6, <2>1
<1> QED BY <1>2, <1>3, <1>5, <1>6

-----------------------------------------------------------------------------
(* The steps of the stack.                                                   *)

\* The stack answers, loses links and posts its events.
LEMMA StackInv == ASSUME LinkInv, Stack PROVE LinkInv'
<1> USE DEF StackFrame
<1>0. /\ gap \in GapType /\ link \in LinkType /\ link.to \in Handles /\ Formed
      /\ gap.proc = "connect" => gap.to \in Peers
  BY Shapes DEF LinkInv, Formed, LinkType
<1>1. CASE ConnectDone
  <2> DEFINE e == Event("CONNECT", TRUE, gap.to)
  <2>1. gap.proc = "connect" /\ link = NoLink /\ gap' = NoProcedure /\ Post(e) /\ s_ctx' = s_ctx
    BY <1>1 DEF ConnectDone
  <2>2. /\ gap.to \in Peers /\ e \in Events /\ e \in HandleEvents /\ e \notin FlagEvents
        /\ HandleAfter[e] = gap.to
    BY <1>0, <2>1 DEF Event, Events, Types, Handles, HandleEvents, FlagEvents, HandleAfter
  <2>3. link' \in LinkType /\ link'.to = gap.to /\ ~link'.up /\ ~link.up
    <3>1. link' = [to |-> gap.to, up |-> FALSE, terminated |-> FALSE] /\ ~link.up
      BY <1>1 DEF ConnectDone, NoLink
    <3>2. gap.to \in Handles
      BY <2>2 DEF Handles
    <3> QED BY <3>1, <3>2 DEF LinkType
  <2>8. e.type = "CONNECT"
    BY DEF Event
  <2>4. Follows' /\ EndSeen' /\ events' \in Seq(Events)
    <3> HIDE DEF e
    <3> QED BY <2>1, <2>2, <2>3, <2>8, Posted DEF Flag
  <2>5. Formed'
    BY <1>1, <2>1, <2>2, <2>3, <2>4 DEF LinkInv, Formed, ConnectDone, GapType
  <2>6. NoScan' /\ Woken'
    <3>1. link' # NoLink
      BY <2>2, <2>3, BleLinkAssumption DEF NoLink
    <3> QED BY <2>1, <3>1 DEF NoScan, Woken, NoProcedure
  <2> QED BY <2>4, <2>5, <2>6 DEF LinkInv
<1>2. CASE ConnectFails
  <2> DEFINE e == Event("CONNECT", FALSE, gap.to)
  <2>1. gap.proc = "connect" /\ gap' = NoProcedure /\ Post(e) /\ s_ctx' = s_ctx /\ link' = link
    BY <1>2 DEF ConnectFails
  <2>2. e \in Events /\ e \notin HandleEvents /\ e \notin FlagEvents /\ Failing(e)
    BY <1>0, <2>1 DEF Event, Events, Types, Handles, HandleEvents, FlagEvents, Failing
  <2>3. /\ Follows' /\ EndSeen' /\ events' \in Seq(Events)
        /\ \E i \in 1 .. Len(events') : Failing(events'[i])
    BY <2>1, <2>2, Posted DEF Event
  <2>4. Formed'
    BY <1>2, <2>1, <2>3 DEF LinkInv, Formed, ConnectFails, GapType
  <2>5. NoScan' /\ Woken'
    BY <2>1, <2>3 DEF NoScan, Woken, NoProcedure, Failing
  <2> QED BY <2>3, <2>4, <2>5 DEF LinkInv
<1>3. CASE ScanEnds
  <2>1. /\ gap.proc = "scan" /\ gap' = NoProcedure /\ UNCHANGED <<link, events, s_ctx, timer, cb, api>>
    BY <1>3 DEF ScanEnds
  <2>2. Formed'
    BY <1>3 DEF LinkInv, Formed, ScanEnds, GapType
  <2>3. NoScan' /\ Woken'
    BY <2>1 DEF LinkInv, NoScan, Woken, NoProcedure, Failing
  <2> QED BY <2>1, <2>2, <2>3, Quiet DEF LinkInv
<1>4. CASE LinkEstablished
  <2> DEFINE e == Event("LINK_ESTAB", TRUE, link.to)
  <2>1. /\ link # NoLink /\ Post(e) /\ s_ctx' = s_ctx
        /\ link' \in LinkType /\ link'.to = link.to /\ link'.up
    BY <1>0, <1>4 DEF LinkEstablished, LinkType
  <2>2. /\ e \in Events /\ e \notin HandleEvents /\ e \in FlagEvents
        /\ FlagAfter[e] = Flag(link'.up)
    BY <1>0, <2>1 DEF Event, Events, Types, HandleEvents, FlagEvents, FlagAfter, Flag
  <2>3. Follows' /\ EndSeen' /\ events' \in Seq(Events)
    BY <2>1, <2>2, Posted
  <2>4. link.to \in Peers
    BY <1>0, <1>4 DEF LinkInv, Formed, LinkEstablished
  <2>5. Formed'
    BY <1>4, <2>1, <2>3, <2>4 DEF LinkInv, Formed, LinkEstablished
  <2>6. NoScan' /\ Woken'
    BY <1>4, <2>1 DEF LinkInv, NoScan, Woken, LinkEstablished, NoLink
  <2> QED BY <2>3, <2>5, <2>6 DEF LinkInv
<1>5. CASE LinkLost
  <2> DEFINE e == IF link.up THEN Event("DISCONNECT", TRUE, link.to)
                             ELSE Event("LINK_ESTAB", FALSE, link.to)
  <2>1. Post(e) /\ s_ctx' = s_ctx /\ link' = NoLink
    BY <1>5 DEF LinkLost
  <2>2. /\ e \in Events /\ e \in HandleEvents /\ HandleAfter[e] = NoPeer /\ Failing(e)
        /\ e \in FlagEvents <=> link.up
        /\ link.up => FlagAfter[e] = 0 /\ e.type = "DISCONNECT"
        /\ ~(e.type = "LINK_ESTAB" /\ e.ok)
    BY <1>0 DEF Event, Events, Types, HandleEvents, HandleAfter, FlagEvents, FlagAfter, Failing
  <2>3. link'.to = NoPeer /\ ~link'.up /\ link' \in LinkType
    BY <2>1 DEF NoLink, LinkType, Handles
  <2> HIDE DEF e
  <2>4. /\ Follows' /\ EndSeen' /\ events' \in Seq(Events)
        /\ \E i \in 1 .. Len(events') : Failing(events'[i])
    BY <2>1, <2>2, <2>3, Posted DEF Flag
  <2>5. Formed'
    BY <1>5, <2>3, <2>4 DEF LinkInv, Formed, LinkLost
  <2>6. NoScan' /\ Woken'
    BY <1>5, <2>4 DEF LinkInv, NoScan, Woken, LinkLost, Failing
  <2> QED BY <2>4, <2>5, <2>6 DEF LinkInv
<1> QED BY <1>1, <1>2, <1>3, <1>4, <1>5 DEF Stack

-----------------------------------------------------------------------------
(* The steps of the host task.                                               *)

\* The host starts to scan once it is synchronised.
LEMMA OnSyncInv == ASSUME LinkInv, OnSync PROVE LinkInv'
<1> USE DEF OnSync, HostFrame, counters
<1>1. s_ctx \in CtxType /\ stored \in Handles
  BY DEF LinkInv, Formed
<1>2. CASE ~s_ctx.peer_known /\ stored # NoPeer
  <2>1. /\ s_ctx' \in CtxType /\ s_ctx'.conn_handle = s_ctx.conn_handle /\ timer' = TRUE
        /\ s_ctx'.connected = s_ctx.connected /\ s_ctx'.peer_addr = stored /\ stored \in Peers
    BY <1>1, <1>2 DEF CtxType, Handles
  <2>2. Formed'
    BY <2>1 DEF LinkInv, Formed
  <2>3. NoScan' /\ Woken'
    BY <2>1 DEF LinkInv, NoScan, Woken
  <2> QED BY <2>1, <2>2, <2>3, Quiet DEF LinkInv
<1>3. CASE ~(~s_ctx.peer_known /\ stored # NoPeer)
  <2>1. UNCHANGED <<s_ctx, timer>>
    BY <1>3
  <2>2. Formed' /\ NoScan' /\ Woken'
    BY <2>1 DEF LinkInv, Formed, NoScan, Woken, Failing
  <2> QED BY <2>1, <2>2, Quiet DEF LinkInv
<1> QED BY <1>2, <1>3

\* The event handler of the host task.
LEMMA HostTaskInv == ASSUME LinkInv, HostTask PROVE LinkInv'
<1> USE DEF HostFrame, counters
<1> DEFINE e == Head(events)
<1>0. s_ctx \in CtxType /\ events \in Seq(Events) /\ (events # <<>> => e \in Events)
  BY TailSeq DEF LinkInv, Formed
<1>1. CASE OnConnect
  <2>1. /\ events # <<>> /\ events' = Tail(events) /\ e \in Events /\ e.type = "CONNECT" /\ e.ok
        /\ s_ctx' = [s_ctx EXCEPT !.conn_handle = e.peer] /\ estab = "idle"
        /\ UNCHANGED <<stored, timer, estab, synced, cb, api, gap, link>>
    BY <1>0, <1>1 DEF OnConnect, Taken
  <2>2. e \in HandleEvents /\ e \notin FlagEvents /\ HandleAfter[e] = e.peer /\ ~Failing(e)
        /\ e.peer \in Handles
    BY <2>1 DEF HandleEvents, FlagEvents, HandleAfter, Failing, Events
  <2> HIDE DEF e
  <2>3. /\ s_ctx' \in CtxType /\ s_ctx'.conn_handle = e.peer /\ s_ctx'.connected = s_ctx.connected
        /\ s_ctx'.peer_known = s_ctx.peer_known /\ s_ctx'.peer_addr = s_ctx.peer_addr
    BY <1>0, <2>1, <2>2 DEF CtxType
  <2>4. /\ Follows' /\ EndSeen' /\ events' \in Seq(Events)
        /\ (\E i \in 1 .. Len(events) : Failing(events[i]))
              => \E i \in 1 .. Len(events') : Failing(events'[i])
    BY <2>1, <2>2, <2>3, Handle DEF e
  <2>5. Formed' /\ NoScan' /\ Woken'
    BY <2>1, <2>3, <2>4 DEF LinkInv, Formed, NoScan, Woken, Failing
  <2> QED BY <2>4, <2>5 DEF LinkInv
<1>2. CASE OnConnectFailed
  <2>1. /\ events # <<>> /\ events' = Tail(events) /\ e \in Events /\ e.type = "CONNECT" /\ ~e.ok
        /\ timer' = (timer \/ s_ctx.peer_known)
        /\ UNCHANGED <<s_ctx, stored, estab, synced, cb, api, gap, link>>
    BY <1>0, <1>2 DEF OnConnectFailed, Taken
  <2>2. e \notin HandleEvents /\ e \notin FlagEvents
    BY <2>1 DEF HandleEvents, FlagEvents
  <2> HIDE DEF e
  <2>3. Follows' /\ EndSeen' /\ events' \in Seq(Events)
    BY <2>1, <2>2, Handle DEF e
  <2>4. timer' \in BOOLEAN /\ (s_ctx.peer_known => timer')
    BY <2>1
  <2>5. Formed' /\ NoScan' /\ Woken'
    BY <2>1, <2>3, <2>4 DEF LinkInv, Formed, NoScan, Woken
  <2> QED BY <2>3, <2>5 DEF LinkInv
<1>3. CASE OnLinkEstab
  <2>1. /\ events # <<>> /\ events' = Tail(events) /\ e \in Events /\ e.type = "LINK_ESTAB" /\ e.ok
        /\ s_ctx' = [s_ctx EXCEPT !.connected = TRUE] /\ estab' = "store"
        /\ UNCHANGED <<stored, timer, synced, cb, api, gap, link>>
    BY <1>0, <1>3 DEF OnLinkEstab, Taken
  <2>2. e \notin HandleEvents /\ e \in FlagEvents /\ FlagAfter[e] = 1 /\ ~Failing(e)
    BY <2>1 DEF HandleEvents, FlagEvents, FlagAfter, Failing
  <2> HIDE DEF e
  <2>3. /\ s_ctx' \in CtxType /\ s_ctx'.conn_handle = s_ctx.conn_handle /\ s_ctx'.connected
        /\ s_ctx'.peer_known = s_ctx.peer_known /\ s_ctx'.peer_addr = s_ctx.peer_addr
    BY <1>0, <2>1 DEF CtxType
  <2>4. /\ Follows' /\ EndSeen' /\ events' \in Seq(Events)
        /\ (\E i \in 1 .. Len(events) : Failing(events[i]))
              => \E i \in 1 .. Len(events') : Failing(events'[i])
    BY <2>1, <2>2, <2>3, Handle DEF e, Flag
  <2>5. Formed' /\ NoScan' /\ Woken'
    BY <2>1, <2>3, <2>4 DEF LinkInv, Formed, NoScan, Woken, Failing
  <2> QED BY <2>4, <2>5 DEF LinkInv
<1>4. CASE StorePeer
  <2>1. /\ stored' = s_ctx.peer_addr /\ stored' \in Handles /\ estab' = "idle"
        /\ UNCHANGED <<s_ctx, timer, events, synced, cb, api, gap, link>>
    BY <1>0, <1>4 DEF StorePeer, CtxType
  <2>2. Formed' /\ NoScan' /\ Woken'
    BY <2>1 DEF LinkInv, Formed, NoScan, Woken, Failing
  <2> QED BY <2>1, <2>2, Quiet DEF LinkInv
<1>5. CASE OnLinkEstabFailed
  <2>1. /\ events # <<>> /\ events' = Tail(events) /\ e \in Events /\ e.type = "LINK_ESTAB" /\ ~e.ok
        /\ s_ctx' = [s_ctx EXCEPT !.conn_handle = NoPeer] /\ timer' = (timer \/ s_ctx.peer_known)
        /\ UNCHANGED <<stored, estab, synced, cb, api, gap, link>>
    BY <1>0, <1>5 DEF OnLinkEstabFailed, Taken
  <2>2. e \in HandleEvents /\ e \notin FlagEvents /\ HandleAfter[e] = NoPeer
    BY <2>1 DEF HandleEvents, FlagEvents, HandleAfter
  <2> HIDE DEF e
  <2>3. /\ s_ctx' \in CtxType /\ s_ctx'.conn_handle = NoPeer /\ s_ctx'.connected = s_ctx.connected
        /\ s_ctx'.peer_known = s_ctx.peer_known /\ s_ctx'.peer_addr = s_ctx.peer_addr
        /\ timer' \in BOOLEAN /\ (s_ctx.peer_known => timer')
    BY <1>0, <2>1 DEF CtxType, Handles
  <2>4. Follows' /\ EndSeen' /\ events' \in Seq(Events)
    BY <2>1, <2>2, <2>3, Handle DEF e
  <2>5. Formed' /\ NoScan' /\ Woken'
    BY <2>1, <2>3, <2>4 DEF LinkInv, Formed, NoScan, Woken
  <2> QED BY <2>4, <2>5 DEF LinkInv
<1>6. CASE OnDisconnect
  <2>1. /\ events # <<>> /\ events' = Tail(events) /\ e \in Events /\ e.type = "DISCONNECT"
        /\ estab = "idle" /\ s_ctx' = [s_ctx EXCEPT !.connected = FALSE, !.conn_handle = NoPeer]
        /\ timer' = (timer \/ s_ctx.peer_known)
        /\ UNCHANGED <<stored, estab, synced, cb, api, gap, link>>
    BY <1>0, <1>6 DEF OnDisconnect, Taken
  <2>2. e \in HandleEvents /\ e \in FlagEvents /\ HandleAfter[e] = NoPeer /\ FlagAfter[e] = 0
    BY <2>1 DEF HandleEvents, FlagEvents, HandleAfter, FlagAfter
  <2> HIDE DEF e
  <2>3. /\ s_ctx' \in CtxType /\ s_ctx'.conn_handle = NoPeer /\ ~s_ctx'.connected
        /\ s_ctx'.peer_known = s_ctx.peer_known /\ s_ctx'.peer_addr = s_ctx.peer_addr
        /\ timer' \in BOOLEAN /\ (s_ctx.peer_known => timer')
    BY <1>0, <2>1 DEF CtxType, Handles
  <2>4. Follows' /\ EndSeen' /\ events' \in Seq(Events)
    BY <2>1, <2>2, <2>3, Handle DEF e, Flag
  <2>5. Formed' /\ NoScan' /\ Woken'
    BY <2>1, <2>3, <2>4 DEF LinkInv, Formed, NoScan, Woken
  <2> QED BY <2>4, <2>5 DEF LinkInv
<1> QED BY <1>1, <1>2, <1>3, <1>4, <1>5, <1>6 DEF HostTask

-----------------------------------------------------------------------------
(* The steps of the timer and of httpd.                                      *)

\* The timer that starts the next attempt.
LEMMA TimerTaskInv == ASSUME LinkInv, TimerTask PROVE LinkInv'
<1> USE DEF TimerFrame, counters
<1>1. CASE TimerFires
  <2>1. /\ timer' = FALSE /\ cb = "idle"
        /\ cb' = IF ~s_ctx.peer_known \/ s_ctx.connected THEN "idle" ELSE "connect"
        /\ UNCHANGED <<s_ctx, stored, estab, api, link, events, synced, gap>>
    BY <1>1 DEF TimerFires
  <2>2. Formed' /\ NoScan'
    BY <2>1 DEF LinkInv, Formed, NoScan
  \* When the keyboard is connected its link is up, or the end of it is in the queue.
  <2>3. Woken'
    <3>1. CASE ~s_ctx.peer_known \/ ~s_ctx.connected
      BY <2>1, <3>1 DEF Woken
    <3>2. CASE s_ctx.connected
      <4>1. CASE link.up
        BY <2>1, <4>1 DEF Woken, NoLink
      <4>2. CASE Ended
        BY <2>1, <4>2 DEF Woken, Ended, Failing
      <4> QED BY <3>2, <4>1, <4>2 DEF LinkInv, EndSeen
    <3> QED BY <3>1, <3>2
  <2> QED BY <2>1, <2>2, <2>3, Quiet DEF LinkInv
<1>2. CASE TimerConnect
  <2>1. /\ cb = "connect" /\ cb' = "idle" /\ GapConnect(s_ctx.peer_addr)
        /\ timer' = (timer \/ ConnectAnswer # "ok") /\ s_ctx.peer_addr \in Peers
        /\ UNCHANGED <<s_ctx, stored, estab, api, link, events, synced>>
    BY <1>2 DEF TimerConnect, LinkInv, Formed
  <2>2. /\ gap' \in GapType /\ (ConnectAnswer = "ok" => gap'.proc = "connect")
        /\ (gap'.proc = "scan" => gap.proc = "scan")
    BY <2>1, GapConnectType DEF LinkInv
  <2>3. timer' \in BOOLEAN /\ (ConnectAnswer # "ok" => timer')
    BY <2>1
  <2>4. Formed' /\ NoScan'
    BY <2>1, <2>2, <2>3 DEF LinkInv, Formed, NoScan
  <2>5. Woken'
    BY <2>2, <2>3 DEF Woken
  <2> QED BY <2>1, <2>4, <2>5, Quiet DEF LinkInv
<1> QED BY <1>1, <1>2 DEF TimerTask

\* The calls that httpd makes, step by step.
LEMMA HttpdInv == ASSUME LinkInv, Httpd PROVE LinkInv'
<1> USE DEF ApiFrame
<1>0. Formed /\ s_ctx \in CtxType /\ api \in ApiType
  BY DEF LinkInv, Formed
<1>1. CASE ConnectPeer
  <2>1. /\ api.at = "peer" /\ api' = [at |-> "attempt", to |-> api.to, n |-> 1] /\ api.to \in Peers
        /\ s_ctx' = [s_ctx EXCEPT !.peer_addr = api.to, !.peer_known = TRUE]
        /\ UNCHANGED <<stored, timer, gap, link, cb, estab, events, synced>>
    BY <1>0, <1>1, Shapes DEF ConnectPeer
  <2>2. /\ s_ctx' \in CtxType /\ s_ctx'.peer_addr = api.to
        /\ s_ctx'.conn_handle = s_ctx.conn_handle /\ s_ctx'.connected = s_ctx.connected
    BY <1>0, <2>1 DEF CtxType, Handles
  <2>3. api' \in ApiType /\ api'.at = "attempt"
    BY <2>1, BleLinkAssumption DEF ApiType
  <2>4. Formed'
    BY <2>1, <2>2, <2>3 DEF LinkInv, Formed
  <2>5. NoScan' /\ Woken'
    BY <2>1, <2>3 DEF LinkInv, NoScan, Woken
  <2> QED BY <2>1, <2>2, <2>4, <2>5, Quiet DEF LinkInv
<1>2. CASE ConnectAttempt
  <2>1. /\ api.at = "attempt" /\ GapConnect(api.to)
        /\ api \in [at : {"attempt", "again"}, to : Peers, n : 1 .. ATTEMPTS]
        /\ UNCHANGED <<s_ctx, stored, timer, link, cb, estab, events, synced>>
    BY <1>0, <1>2, Shapes DEF ConnectAttempt
  <2>2. /\ gap' \in GapType /\ gap.proc # "scan"
        /\ gap'.proc # "scan"
        /\ gap'.proc = "connect" \/ link # NoLink
    <3>1. gap.proc # "scan"
      BY <2>1 DEF LinkInv, NoScan
    <3> QED BY <1>0, <2>1, <3>1, GapConnectType
  <2>3. api' \in ApiType /\ api'.at \in {"idle", "again"}
    <3>1. CASE ConnectAnswer \in {"already", "busy"} /\ api.n < ATTEMPTS
      <4>1. api' = [api EXCEPT !.at = "again", !.n = api.n + 1]
        BY <1>2, <3>1 DEF ConnectAttempt
      <4>2. api \in [at : {"attempt", "again"}, to : Peers, n : 1 .. ATTEMPTS]
        BY <2>1
      <4>3. api.n + 1 \in 1 .. ATTEMPTS
        BY <3>1, <4>2, BleLinkAssumption
      <4>4. /\ api' \in [at : {"attempt", "again"}, to : Peers, n : 1 .. ATTEMPTS]
            /\ api'.at = "again"
        BY <4>1, <4>2, <4>3
      <4> QED BY <4>4 DEF ApiType
    <3>2. CASE ~(ConnectAnswer \in {"already", "busy"} /\ api.n < ATTEMPTS)
      BY <1>2, <3>2 DEF ConnectAttempt, ApiType, ApiIdle
    <3> QED BY <3>1, <3>2
  <2>4. Formed' /\ NoScan'
    BY <2>1, <2>2, <2>3 DEF LinkInv, Formed, NoScan
  <2>5. Woken'
    BY <2>1, <2>2 DEF Woken
  <2> QED BY <2>1, <2>4, <2>5, Quiet DEF LinkInv
<1>3. CASE ConnectAgain
  <2>1. /\ api.at = "again" /\ api' = [api EXCEPT !.at = "attempt"] /\ gap' = Cancelled
        /\ api \in [at : {"attempt", "again"}, to : Peers, n : 1 .. ATTEMPTS]
        /\ UNCHANGED <<s_ctx, stored, timer, link, cb, estab, events, synced>>
    BY <1>0, <1>3, Shapes DEF ConnectAgain
  <2>2. /\ gap' \in GapType /\ gap'.proc # "scan"
        /\ gap.proc = "connect" => gap'.proc = "connect"
    BY <1>0, <2>1, CancelledType
  <2>3. api' \in [at : {"attempt", "again"}, to : Peers, n : 1 .. ATTEMPTS] /\ api'.at = "attempt"
    BY <2>1
  <2>4. Formed' /\ NoScan'
    BY <2>1, <2>2, <2>3 DEF LinkInv, Formed, NoScan, ApiType
  <2>5. Woken'
    BY <2>3 DEF Woken
  <2> QED BY <2>1, <2>4, <2>5, Quiet DEF LinkInv
<1>4. CASE DisconnectForget
  <2>1. /\ api' = [at |-> "clear"] /\ s_ctx' = [s_ctx EXCEPT !.peer_known = FALSE]
        /\ timer' = FALSE /\ UNCHANGED <<stored, gap, link, cb, estab, events, synced>>
    BY <1>4 DEF DisconnectForget
  <2>2. /\ s_ctx' \in CtxType /\ ~s_ctx'.peer_known /\ s_ctx'.peer_addr = s_ctx.peer_addr
        /\ s_ctx'.conn_handle = s_ctx.conn_handle /\ s_ctx'.connected = s_ctx.connected
    BY <1>0, <2>1 DEF CtxType
  <2>3. api' \in ApiType /\ api'.at = "clear"
    BY <2>1 DEF ApiType
  <2>4. Formed' /\ NoScan' /\ Woken'
    BY <2>1, <2>2, <2>3 DEF LinkInv, Formed, NoScan, Woken
  <2> QED BY <2>1, <2>2, <2>4, Quiet DEF LinkInv
<1>5. CASE DisconnectClear
  <2>1. /\ api.at = "clear" /\ api' = [at |-> "terminate"] /\ stored' = NoPeer
        /\ UNCHANGED <<s_ctx, timer, gap, link, cb, estab, events, synced>>
    BY <1>5 DEF DisconnectClear
  <2>2. api' \in ApiType /\ api'.at = "terminate" /\ stored' \in Handles
    BY <2>1 DEF ApiType, Handles
  <2>3. Formed' /\ NoScan' /\ Woken'
    BY <2>1, <2>2 DEF LinkInv, Formed, NoScan, Woken, Failing
  <2> QED BY <2>1, <2>3, Quiet DEF LinkInv
<1>6. CASE DisconnectTerminate
  <2>1. /\ api.at = "terminate" /\ api' = ApiIdle
        /\ link' = [link EXCEPT !.terminated = link # NoLink /\ link.to = s_ctx.conn_handle]
        /\ UNCHANGED <<s_ctx, stored, timer, gap, cb, estab, events, synced>>
    BY <1>6 DEF DisconnectTerminate
  <2>2. /\ link' \in LinkType /\ link'.to = link.to /\ link'.up = link.up
        /\ (link # NoLink <=> link' # NoLink)
    <3>1. link \in LinkType
      BY <1>0 DEF Formed
    <3>2. CASE link = NoLink
      BY <2>1, <3>1, <3>2 DEF LinkType, NoLink
    <3>3. CASE link # NoLink
      <4>1. link.to \in Peers
        BY <1>0, <3>3 DEF Formed
      <4>2. CASE link.to = s_ctx.conn_handle
        BY <2>1, <3>1, <3>3, <4>1, <4>2, BleLinkAssumption DEF LinkType, NoLink
      <4>3. CASE link.to # s_ctx.conn_handle
        BY <2>1, <3>1, <3>3, <4>1, <4>3, BleLinkAssumption DEF LinkType, NoLink
      <4> QED BY <4>2, <4>3
    <3> QED BY <3>2, <3>3
  <2>3. api' \in ApiType /\ api'.at = "idle"
    BY <2>1 DEF ApiType, ApiIdle
  <2>4. Formed'
    BY <2>1, <2>2, <2>3 DEF LinkInv, Formed
  <2>5. NoScan' /\ Woken'
    BY <2>1, <2>2, <2>3 DEF LinkInv, NoScan, Woken, Failing
  <2> QED BY <2>1, <2>2, <2>4, <2>5, Quiet DEF LinkInv
<1> QED BY <1>1, <1>2, <1>3, <1>4, <1>5, <1>6 DEF Httpd

\* The calls of the user.
LEMMA CallInv ==
    ASSUME LinkInv, Scan \/ DisconnectCall \/ \E p \in Peers : ConnectCall(p) PROVE LinkInv'
<1> USE DEF ApiFrame, Call
<1>0. Formed /\ gap.proc \in {"none", "scan", "connect"}
  BY Shapes DEF LinkInv
<1>1. CASE Scan
  <2>1. /\ api = ApiIdle
        /\ gap' = IF gap.proc = "connect" THEN Cancelled ELSE [proc |-> "scan"]
        /\ UNCHANGED <<s_ctx, stored, timer, api, link, cb, estab, events, synced>>
    BY <1>1 DEF Scan
  <2>2. gap' \in GapType /\ (gap.proc = "connect" => gap'.proc = "connect")
    BY <1>0, <2>1, CancelledType DEF GapType
  <2>3. Formed' /\ NoScan' /\ Woken'
    BY <2>1, <2>2 DEF LinkInv, Formed, NoScan, Woken, Failing, ApiIdle
  <2> QED BY <2>1, <2>3, Quiet DEF LinkInv
<1>2. CASE DisconnectCall
  <2>1. /\ api = ApiIdle /\ api' \in {ApiIdle, [at |-> "forget"]}
        /\ UNCHANGED <<s_ctx, stored, timer, gap, link, cb, estab, events, synced>>
    BY <1>2 DEF DisconnectCall
  <2>2. api' \in ApiType /\ api'.at \in {"idle", "forget"} /\ api.at = "idle"
    BY <2>1 DEF ApiType, ApiIdle
  <2>3. Formed' /\ NoScan' /\ Woken'
    BY <2>1, <2>2 DEF LinkInv, Formed, NoScan, Woken, Failing
  <2> QED BY <2>1, <2>3, Quiet DEF LinkInv
<1>3. ASSUME NEW p \in Peers, ConnectCall(p) PROVE LinkInv'
  <2>1. /\ api' = [at |-> "peer", to |-> p] /\ timer' = FALSE /\ gap' = Cancelled
        /\ UNCHANGED <<s_ctx, stored, link, cb, estab, events, synced>>
    BY <1>3 DEF ConnectCall
  <2>2. api' \in ApiType /\ api'.at = "peer" /\ gap' \in GapType /\ gap'.proc # "scan"
    BY <1>0, <2>1, CancelledType DEF ApiType
  <2>3. Formed' /\ NoScan' /\ Woken'
    BY <2>1, <2>2 DEF LinkInv, Formed, NoScan, Woken
  <2> QED BY <2>1, <2>3, Quiet DEF LinkInv
<1> QED BY <1>1, <1>2, <1>3

\* A restart keeps only the bonds.
LEMMA RestartInv == ASSUME LinkInv, Restart PROVE LinkInv'
<1> USE DEF Restart
<1>1. s_ctx' \in CtxType /\ link' \in LinkType /\ link' = NoLink /\ ~s_ctx'.peer_known
  BY DEF FreshCtx, CtxType, NoLink, LinkType, Handles
<1>2. api' \in ApiType /\ gap' \in GapType /\ events' \in Seq(Events)
  BY DEF ApiType, GapType
<1>3. Formed'
  BY <1>1, <1>2 DEF LinkInv, Formed
<1>4. Follows'
  <2>1. events' = <<>> /\ s_ctx' = FreshCtx /\ link' = NoLink
    OBVIOUS
  <2> QED BY <2>1 DEF Follows, Tells, FreshCtx, NoLink, Flag
<1>5. NoScan' /\ EndSeen' /\ Woken'
  BY <1>1 DEF NoScan, EndSeen, Woken, ApiIdle, NoProcedure, FreshCtx
<1> QED BY <1>3, <1>4, <1>5 DEF LinkInv

\* Every step keeps the invariant of the link.
LEMMA StepInv == LinkInv /\ [Next]_vars => LinkInv'
<1> SUFFICES ASSUME LinkInv, [Next]_vars PROVE LinkInv'
  OBVIOUS
<1>1. CASE UNCHANGED vars
  <2>1. UNCHANGED <<s_ctx, stored, timer, cb, estab, api, gap, link, events, synced>>
    BY <1>1 DEF vars, stack
  <2>2. Formed' /\ NoScan' /\ Woken'
    BY <2>1 DEF LinkInv, Formed, NoScan, Woken, Failing
  <2> QED BY <2>1, <2>2, Quiet DEF LinkInv
<1>2. CASE Next
  BY <1>2, OnSyncInv, HostTaskInv, TimerTaskInv, HttpdInv, StackInv, RestartInv, CallInv DEF Next
<1> QED BY <1>1, <1>2

\* The invariant of the link holds.
LEMMA Invariance == Spec => []LinkInv
BY InitInv, StepInv, PTL DEF Spec

-----------------------------------------------------------------------------
\* The state is well formed: a connect of the user (ble_hid_host.c:722-755) and of the
\* timer (ble_hid_host.c:398-413) are only made to a keyboard that was set, in whatever order
\* the three tasks write s_ctx.
THEOREM TypeCorrect == Spec => []TypeOK
<1>1. LinkInv => TypeOK
  <2> SUFFICES ASSUME LinkInv PROVE TypeOK
    OBVIOUS
  <2>1. Formed
    BY DEF LinkInv
  <2>2. api.at \in ApiCalls /\ (api.at = "attempt" => api.n \in 1 .. ATTEMPTS)
    BY <2>1, Shapes
  <2>3. gap.proc \in {"none", "scan", "connect"} /\ (gap.proc = "connect" => gap.to \in Peers)
    BY <2>1, Shapes
  <2>4. link.up => link.to \in Peers
    BY <2>1 DEF Formed, NoLink
  <2> QED BY <2>1, <2>2, <2>3, <2>4 DEF Formed, TypeOK, CtxType, LinkType
<1> QED BY <1>1, Invariance, PTL

\* For any number of links and failures: once the host task has handled its events, the
\* flag and the handle that gap_event_handler keeps are those of the link.
THEOREM FlagIsTheLink == Spec => []ConnectedTracksLink
<1>1. LinkInv => ConnectedTracksLink
  <2> SUFFICES ASSUME LinkInv, Handled PROVE s_ctx.connected = link.up /\ s_ctx.conn_handle = link.to
    BY DEF ConnectedTracksLink
  <2>1. events = <<>> /\ s_ctx.connected \in BOOLEAN /\ link.up \in BOOLEAN
    BY DEF Handled, LinkInv, Formed, CtxType, LinkType
  <2>2. s_ctx.conn_handle = link.to /\ Flag(s_ctx.connected) = Flag(link.up)
    BY <2>1 DEF LinkInv, Follows, Tells
  <2> QED BY <2>1, <2>2 DEF Flag
<1> QED BY <1>1, Invariance, PTL

\* For any number of calls: the reconnection of a known keyboard always has something
\* that brings it on (ble_hid_host.c:398-413), in whatever order scans, connects of the
\* user, their cancelling and the timer came.
THEOREM AlwaysWoken == Spec => []NeverStranded
<1>1. LinkInv => NeverStranded
  <2> SUFFICES ASSUME LinkInv, Handled, api = ApiIdle, cb = "idle", s_ctx.peer_known
               PROVE  timer \/ gap.proc = "connect" \/ link # NoLink
    BY DEF NeverStranded
  <2>1. events = <<>> /\ api.at = "idle"
    BY DEF Handled, ApiIdle
  <2>2. ~ \E i \in 1 .. Len(events) : Failing(events[i])
    BY <2>1
  <2> QED BY <2>1, <2>2 DEF LinkInv, Woken
<1> QED BY <1>1, Invariance, PTL

-----------------------------------------------------------------------------
Gens == 0 .. GENERATIONS - 1
Ops == {"svcs", "chrs", "dscs", "ref", "write", "poll"}
OfReports == {"dscs", "ref", "write"}
Procs == {p \in [op : Ops, gen : Gens, idx : Nat, at : Nat, upto : Nat] :
            /\ p.gen <= s_disc_gen
            /\ p.op = "poll" => p.idx \in 1 .. MAX_POLL_HANDLES}
Gatts == [reports : Seq(Nat), cccd : Seq(Nat), ref : Seq({"unknown", "input", "output"}),
          waiting : BOOLEAN, subs : Seq(Nat)]
Polls == [handles : Seq(Nat), last_val : [1 .. MAX_POLL_HANDLES -> Nat], current : Nat]
Works == [gatt : Gatts, poll : Polls, polling : BOOLEAN, att : Seq(Procs), broken : BOOLEAN,
          disturbed : BOOLEAN, phase : {"none", "going", "ready"}]

\* The statics and the pool keep to their sizes.
Sized(w) ==
    /\ w \in Works /\ Len(w.att) <= MAX_PROCS
    /\ Len(w.gatt.reports) <= MAX_REPORTS /\ Len(w.gatt.subs) <= MAX_REPORTS
    /\ Len(w.gatt.cccd) = Len(w.gatt.reports) /\ Len(w.gatt.ref) = Len(w.gatt.reports)
    /\ Len(w.poll.handles) <= MAX_POLL_HANDLES /\ w.poll.current < MAX_POLL_HANDLES

\* The inputs that NoneForgotten is about.
Wanted == Inputs \ Misled
InputRefs == RefsOf("input")
OutputRefs == RefsOf("output")

\* A list is full; a report the discovery owes a place; one that has it.
WFull(w) == \/ Len(w.gatt.reports) = MAX_REPORTS \/ Len(w.gatt.subs) = MAX_REPORTS
            \/ Len(w.poll.handles) = MAX_POLL_HANDLES
Wants(w, i) == w.gatt.reports[i] \in Wanted
Covered(w, i) == w.gatt.reports[i] \in ToSet(w.gatt.subs) \cup ToSet(w.poll.handles)

\* The k-th procedure of w is one of the discovery g, or one for its report i.
IsCurrent(g, w, k) == w.att[k].gen = g /\ w.att[k].op # "poll"
Is(g, w, k, op, i) == w.att[k].gen = g /\ w.att[k].op = op /\ w.att[k].idx = i
\* Report i is in a list or will be by the answer to a write before the k-th procedure;
\* its Report Reference is asked for before the k-th procedure.
Settled(g, w, from, i, k) == Covered(w, i) \/ \E m \in from .. k - 1 : Is(g, w, m, "write", i)
Asked(g, w, from, i, k) ==
    \E m \in from .. k - 1 : Is(g, w, m, "ref", i) /\ w.att[m].at \in InputRefs

\* The reports are the values up to the attribute a, as far as there is room.
Scanned(w, a) ==
    /\ \A i \in 1 .. Len(w.gatt.reports) : w.gatt.reports[i] \in Values /\ w.gatt.reports[i] <= a
    /\ \A i, j \in 1 .. Len(w.gatt.reports) : i < j => w.gatt.reports[i] < w.gatt.reports[j]
    /\ \/ Len(w.gatt.reports) = MAX_REPORTS
       \/ \A v \in Values : v <= a => \E i \in 1 .. Len(w.gatt.reports) : w.gatt.reports[i] = v

\* No discovery: none of its procedures is left.
Silent(g, w) == w.phase = "none" /\ \A k \in 1 .. Len(w.att) : ~IsCurrent(g, w, k)

\* The reports are listed: one procedure, and no report has a type yet.
Listing(g, w) ==
    /\ w.phase = "going"
    /\ \A i \in 1 .. Len(w.gatt.reports) : w.gatt.ref[i] = "unknown"
    /\ \A k \in 1 .. Len(w.att) : IsCurrent(g, w, k) =>
          /\ \A m \in 1 .. Len(w.att) : IsCurrent(g, w, m) => m = k
          /\ \/ w.att[k].op = "svcs" /\ w.gatt.reports = <<>>
             \/ w.att[k].op = "chrs" /\ w.att[k].at <= SvcEnd /\ Scanned(w, w.att[k].at)

\* Behind the place from, each procedure of the discovery is one for a report, at an
\* attribute of the service behind the value of the report.
Placed(g, w, from) ==
    \A k \in from .. Len(w.att) : IsCurrent(g, w, k) =>
        /\ w.att[k].op \in OfReports /\ w.att[k].idx \in 1 .. Len(w.gatt.reports)
        /\ w.att[k].op = "dscs" => w.att[k].at \in w.gatt.reports[w.att[k].idx] .. SvcEnd
        /\ w.att[k].op = "ref" => /\ w.att[k].at \in InputRefs \cup OutputRefs
                                  /\ w.gatt.reports[w.att[k].idx] < w.att[k].at

\* When a procedure for report i is under way, those before i are settled before it.
Behind(g, w, from) ==
    \A k \in from .. Len(w.att) : IsCurrent(g, w, k) =>
        \A j \in 1 .. w.att[k].idx - 1 : Wants(w, j) => Settled(g, w, from, j, k)

\* A search that passed a reference has asked for it; only the report e is excepted.
Searched(g, w, from, e) ==
    \A k \in from .. Len(w.att), i \in 1 .. Len(w.gatt.reports) :
        /\ i # e /\ Is(g, w, k, "dscs", i) /\ Wants(w, i)
        /\ \E h \in InputRefs : w.gatt.reports[i] < h /\ h <= w.att[k].at
        => Settled(g, w, from, i, Len(w.att) + 1) \/ Asked(g, w, from, i, Len(w.att) + 1)

\* A reference of an output that is read for a report of an input, as searches run past
\* the next value, comes after that of its own.
Answers(g, w, from, e) ==
    \A k \in from .. Len(w.att), i \in 1 .. Len(w.gatt.reports) :
        /\ i # e /\ Is(g, w, k, "ref", i) /\ Wants(w, i) /\ w.att[k].at \in OutputRefs
        => Settled(g, w, from, i, Len(w.att) + 1) \/ Asked(g, w, from, i, k)

\* A report that was taken for an output although it is an input is settled all the same.
Skipped(g, w, from) ==
    \A i \in 1 .. Len(w.gatt.reports) :
        Wants(w, i) /\ w.gatt.ref[i] = "output" => Settled(g, w, from, i, Len(w.att) + 1)

\* Once the keyboard is called ready, each wanted report is in a list.
Ready(w) == w.phase = "ready" => \A i \in 1 .. Len(w.gatt.reports) : Wants(w, i) => Covered(w, i)

\* What NoneForgotten excepts.
Excused(w) == w.broken \/ WFull(w)

\* What holds of the procedures and of the lists otherwise.
Following(g, w, from, e) ==
    Excused(w) \/ /\ Behind(g, w, from) /\ Searched(g, w, from, e) /\ Answers(g, w, from, e)
                  /\ Skipped(g, w, from) /\ Ready(w)

\* The reports are handled one after another, each procedure asking for the next.
Chained(g, w, from, e) ==
    /\ w.phase # "none" /\ Scanned(w, SvcEnd) /\ Placed(g, w, from)
    /\ \A i \in 1 .. Len(w.gatt.reports) :
          w.gatt.ref[i] = "output" => \E h \in OutputRefs : w.gatt.reports[i] < h
    /\ Following(g, w, from, e)

\* The three modes of a discovery of the generation g.
Discovery(g, w) == Silent(g, w) \/ Listing(g, w) \/ Chained(g, w, 1, 0)

\* The types of all variables.
GattTypes ==
    /\ layout \in Layouts /\ Sized(Work) /\ s_disc_gen \in Gens
    /\ enabled \subseteq Nat /\ connected \in BOOLEAN /\ missed \in BOOLEAN
    /\ key \in {0} \cup Inputs /\ heard \in Nat
    /\ \/ pcb = NoPoll
       \/ pcb \in [idx : 1 .. MAX_POLL_HANDLES, count : 1 .. MAX_POLL_HANDLES]
    /\ left \in [links : Nat, sessions : Nat, errors : Nat, polls : Nat, keys : Nat]

\* The generations do not repeat.
Generations ==
    s_disc_gen + left.sessions + left.links + (IF connected THEN 1 ELSE 0) < GENERATIONS

\* The inductive invariant.
GattInv == GattTypes /\ Generations /\ Discovery(s_disc_gen, Work) /\ KeyUpHeard

-----------------------------------------------------------------------------
(* What the callbacks are made of.                                           *)

\* What the sizes say of each field of a record that a callback works on.
LEMMA WorkFields ==
    ASSUME NEW w, Sized(w)
    PROVE  /\ w.att \in Seq(Procs) /\ Len(w.att) \in Nat
           /\ w.gatt.reports \in Seq(Nat) /\ Len(w.gatt.reports) \in Nat
           /\ w.gatt.ref \in Seq({"unknown", "input", "output"}) /\ w.gatt.cccd \in Seq(Nat)
           /\ w.gatt.subs \in Seq(Nat) /\ Len(w.gatt.subs) \in Nat
           /\ w.poll.handles \in Seq(Nat) /\ Len(w.poll.handles) \in Nat
           /\ DOMAIN w.gatt.ref = 1 .. Len(w.gatt.reports)
           /\ DOMAIN w.gatt.cccd = 1 .. Len(w.gatt.reports)
           /\ \A k \in 1 .. Len(w.att) : w.att[k] \in Procs
           /\ \A i \in 1 .. Len(w.gatt.reports) : w.gatt.reports[i] \in Nat
BY DEF Sized, Works, Gatts, Polls

\* A request is the last procedure, or finds no room.
LEMMA SendDoes ==
    ASSUME NEW w, Sized(w), NEW p \in Procs
    PROVE  LET r == Send(w, p)
           IN  /\ Sized(r) /\ r.gatt = w.gatt /\ r.poll = w.poll /\ r.polling = w.polling
               /\ r.phase = w.phase /\ r.disturbed = w.disturbed
               /\ \/ r.att = Append(w.att, p) /\ r.broken = w.broken
                  \/ r.att = w.att /\ r.broken = TRUE
<1>1. CASE Len(w.att) < MAX_PROCS
  <2>1. Append(w.att, p) \in Seq(Procs) /\ Len(Append(w.att, p)) = Len(w.att) + 1
        /\ Len(w.att) \in Nat
    BY WorkFields, AppendSeq
  <2> DEFINE r == Send(w, p)
  <2>2. r = [w EXCEPT !.att = Append(@, p)]
    BY <1>1 DEF Send
  <2>3. /\ r.gatt = w.gatt /\ r.poll = w.poll /\ r.polling = w.polling /\ r.broken = w.broken
        /\ r.phase = w.phase /\ r.disturbed = w.disturbed /\ r.att = Append(w.att, p)
    BY <2>2 DEF Sized, Works
  <2>4. r \in Works
    BY <2>1, <2>2 DEF Sized, Works
  <2>5. Len(r.att) <= MAX_PROCS
    BY <1>1, <2>1, <2>3, BleGattAssumption
  <2> HIDE DEF r
  <2>6. Sized(r)
    BY <2>3, <2>4, <2>5 DEF Sized
  <2> QED BY <2>3, <2>6 DEF r
<1>2. CASE ~(Len(w.att) < MAX_PROCS)
  BY <1>2 DEF Send, Sized, Works
<1> QED BY <1>1, <1>2

\* An element that is appended is in the set of the list, beside those before.
LEMMA ToSetAppend ==
    ASSUME NEW S, NEW s \in Seq(S), NEW e \in S
    PROVE  ToSet(s) \subseteq ToSet(Append(s, e)) /\ e \in ToSet(Append(s, e))
<1>1. DOMAIN s = 1 .. Len(s) /\ DOMAIN Append(s, e) = 1 .. Len(s) + 1 /\ Len(s) \in Nat
      /\ \A i \in 1 .. Len(s) : Append(s, e)[i] = s[i]
      /\ Append(s, e)[Len(s) + 1] = e
  OBVIOUS
<1>2. \A i \in DOMAIN s : i \in DOMAIN Append(s, e) /\ Append(s, e)[i] = s[i]
  BY <1>1
<1>3. Len(s) + 1 \in DOMAIN Append(s, e)
  BY <1>1
<1> HIDE DEF ToSet
<1>4. ASSUME NEW z \in ToSet(s) PROVE z \in ToSet(Append(s, e))
  <2>1. PICK i \in DOMAIN s : z = s[i]
    BY <1>4 DEF ToSet
  <2> QED BY <2>1, <1>2 DEF ToSet
<1>5. e \in ToSet(Append(s, e))
  BY <1>1, <1>3 DEF ToSet
<1> QED BY <1>4, <1>5

\* After add_poll a report is in the list of polls, or that list is full; none is lost.
LEMMA AddPollDoes ==
    ASSUME NEW w, Sized(w), NEW i \in 1 .. Len(w.gatt.reports)
    PROVE  LET r == AddPoll(w, i)
           IN  /\ Sized(r) /\ r.gatt = w.gatt /\ r.att = w.att /\ r.polling = w.polling
               /\ r.phase = w.phase /\ r.disturbed = w.disturbed /\ r.broken = w.broken
               /\ \A j \in 1 .. Len(w.gatt.reports) : Covered(w, j) => Covered(r, j)
               /\ WFull(w) => WFull(r)
               /\ Covered(r, i) \/ WFull(r)
<1> DEFINE x == w.gatt.reports[i]
<1>0. x \in Nat /\ Len(w.poll.handles) \in Nat /\ w.poll.handles \in Seq(Nat)
  BY WorkFields
<1>1. CASE Len(w.poll.handles) < MAX_POLL_HANDLES
  <2> DEFINE r == AddPoll(w, i)
  <2>1. /\ Append(w.poll.handles, x) \in Seq(Nat)
        /\ Len(Append(w.poll.handles, x)) = Len(w.poll.handles) + 1
        /\ \A k \in 1 .. Len(w.poll.handles) : Append(w.poll.handles, x)[k] = w.poll.handles[k]
        /\ Append(w.poll.handles, x)[Len(w.poll.handles) + 1] = x
    BY <1>0, AppendSeq
  <2>2. r = [w EXCEPT !.poll.handles = Append(@, x)]
    BY <1>1 DEF AddPoll
  <2>3. /\ r.gatt = w.gatt /\ r.att = w.att /\ r.polling = w.polling
        /\ r.phase = w.phase /\ r.disturbed = w.disturbed /\ r.broken = w.broken
        /\ r.poll = [w.poll EXCEPT !.handles = Append(@, x)]
    BY <2>2 DEF Sized, Works
  <2>3a. r.poll \in Polls /\ r.poll.current = w.poll.current
         /\ r.poll.handles = Append(w.poll.handles, x)
    BY <2>1, <2>3 DEF Sized, Works, Polls
  <2>3b. r \in Works
    BY <2>2, <2>3, <2>3a DEF Sized, Works
  <2>4. ToSet(w.poll.handles) \subseteq ToSet(r.poll.handles) /\ x \in ToSet(r.poll.handles)
    BY <1>0, <2>3a, ToSetAppend
  <2>5. Sized(r)
    BY <1>0, <1>1, <2>1, <2>3, <2>3a, <2>3b, BleGattAssumption DEF Sized
  <2>6. WFull(w) => WFull(r)
    BY <1>0, <1>1, <2>1, <2>3, <2>3a, BleGattAssumption DEF WFull
  <2> QED BY <2>3, <2>4, <2>5, <2>6 DEF Covered
<1>2. CASE ~(Len(w.poll.handles) < MAX_POLL_HANDLES)
  <2>1. AddPoll(w, i) = w
    BY <1>2 DEF AddPoll
  <2> QED BY <1>0, <1>2, <2>1, BleGattAssumption DEF WFull, Sized
<1> QED BY <1>1, <1>2

-----------------------------------------------------------------------------
(* What a new procedure, a longer list and an answered procedure change.        *)

\* Positions: what is promised before a procedure is promised later as well.
LEMMA Later ==
    ASSUME NEW g, NEW w, NEW from \in Nat, NEW i, NEW k \in Int, NEW n \in Int, k <= n
    PROVE  /\ Settled(g, w, from, i, k) => Settled(g, w, from, i, n)
           /\ Asked(g, w, from, i, k) => Asked(g, w, from, i, n)
BY DEF Settled, Asked

\* More procedures behind the others keep every promise.
LEMMA Longer ==
    ASSUME NEW g, NEW w, NEW r, NEW from \in Nat, NEW i, NEW k \in Int, NEW last \in Nat,
           k <= last + 1, from >= 1, Covered(w, i) => Covered(r, i),
           \A m \in 1 .. last : r.att[m] = w.att[m]
    PROVE  /\ Settled(g, w, from, i, k) => Settled(g, r, from, i, k)
           /\ Asked(g, w, from, i, k) => Asked(g, r, from, i, k)
BY DEF Settled, Asked, Is

\* A new procedure of the discovery.
LEMMA Extended ==
    ASSUME NEW g \in Gens, NEW w, NEW r, Sized(w), Sized(r), NEW from \in {1, 2},
           NEW e \in Nat, NEW f \in Nat, NEW p \in Procs, Chained(g, w, from, e),
           r.gatt = w.gatt, r.poll = w.poll, r.phase = w.phase, r.broken = w.broken,
           r.att = Append(w.att, p), from <= Len(w.att) + 1,
           p.gen = g, p.op \in OfReports, p.idx \in 1 .. Len(w.gatt.reports),
           p.op = "dscs" => p.at \in w.gatt.reports[p.idx] .. SvcEnd,
           p.op = "ref" => /\ p.at \in InputRefs \cup OutputRefs
                           /\ w.gatt.reports[p.idx] < p.at,
           \/ Excused(w)
           \/ /\ \A j \in 1 .. p.idx - 1 :
                    Wants(w, j) => Settled(g, w, from, j, Len(w.att) + 1)
              /\ p.op = "ref" /\ Wants(w, p.idx) /\ p.at \in OutputRefs
                    => \/ Settled(g, w, from, p.idx, Len(w.att) + 1)
                       \/ Asked(g, w, from, p.idx, Len(w.att) + 1)
              /\ \A h \in InputRefs :
                    p.op = "dscs" /\ Wants(w, p.idx) /\ w.gatt.reports[p.idx] < h /\ h <= p.at
                       => \/ Settled(g, w, from, p.idx, Len(w.att) + 1)
                          \/ Asked(g, w, from, p.idx, Len(w.att) + 1),
           f = e \/ (f = 0 /\ p.op = "write" /\ p.idx = e)
    PROVE  Chained(g, r, from, f)
<1> DEFINE n == Len(w.att)
<1> DEFINE reports == w.gatt.reports
<1>1. /\ n \in Nat /\ Len(r.att) = n + 1 /\ r.att[n + 1] = p
      /\ \A m \in 1 .. n : r.att[m] = w.att[m]
  BY WorkFields, AppendSeq
<1>2. /\ r.gatt.reports = reports /\ Len(reports) \in Nat
      /\ \A i \in 1 .. Len(reports) : reports[i] \in Nat
      /\ \A i : Covered(w, i) <=> Covered(r, i)
      /\ \A i : Wants(w, i) <=> Wants(r, i)
      /\ Excused(w) <=> Excused(r)
  BY WorkFields DEF Covered, Wants, Excused, WFull
<1>3. \A i, k \in Int : k <= n + 1 =>
         /\ Settled(g, w, from, i, k) => Settled(g, r, from, i, k)
         /\ Asked(g, w, from, i, k) => Asked(g, r, from, i, k)
  <2> TAKE i, k \in Int
  <2> HAVE k <= n + 1
  <2>1. from \in Nat /\ from >= 1
    OBVIOUS
  <2>2. Covered(w, i) => Covered(r, i)
    BY <1>2
  <2>3. n \in Nat /\ \A m \in 1 .. n : r.att[m] = w.att[m]
    BY <1>1
  <2> HIDE DEF n
  <2> QED BY <2>1, <2>2, <2>3, Longer
<1>4. \A i \in Int :
         /\ Settled(g, w, from, i, n + 1) => Settled(g, r, from, i, n + 2)
         /\ Asked(g, w, from, i, n + 1) => Asked(g, r, from, i, n + 2)
  <2> TAKE i \in Int
  <2>1. n + 1 \in Int /\ n + 2 \in Int /\ from \in Nat /\ n + 1 <= n + 2 /\ n + 1 <= n + 1
    BY <1>1
  <2>2. /\ Settled(g, w, from, i, n + 1) => Settled(g, r, from, i, n + 1)
        /\ Asked(g, w, from, i, n + 1) => Asked(g, r, from, i, n + 1)
    BY <2>1, <1>3
  <2> QED BY <2>1, <2>2, Later
<1>5. \A k \in from .. n : /\ IsCurrent(g, r, k) <=> IsCurrent(g, w, k)
                          /\ \A op, i : Is(g, r, k, op, i) <=> Is(g, w, k, op, i)
  BY <1>1 DEF IsCurrent, Is
<1>6. Placed(g, r, from)
  <2> SUFFICES ASSUME NEW k \in from .. n + 1, IsCurrent(g, r, k)
               PROVE  /\ r.att[k].op \in OfReports /\ r.att[k].idx \in 1 .. Len(reports)
                      /\ r.att[k].op = "dscs" => r.att[k].at \in reports[r.att[k].idx] .. SvcEnd
                      /\ r.att[k].op = "ref" => /\ r.att[k].at \in InputRefs \cup OutputRefs
                                                /\ reports[r.att[k].idx] < r.att[k].at
    BY <1>1, <1>2 DEF Placed
  <2>1. CASE k = n + 1
    BY <2>1, <1>1
  <2>2. CASE k # n + 1
    <3>1. k \in from .. n
      BY <2>2, <1>1
    <3> QED BY <3>1, <1>1, <1>5 DEF Chained, Placed
  <2> QED BY <2>1, <2>2
<1>7. ASSUME ~Excused(w) PROVE Behind(g, r, from)
  <2> SUFFICES ASSUME NEW k \in from .. n + 1, IsCurrent(g, r, k),
                      NEW j \in 1 .. r.att[k].idx - 1, Wants(w, j)
               PROVE  Settled(g, r, from, j, k)
    BY <1>1, <1>2 DEF Behind
  <2>1. CASE k = n + 1
    BY <2>1, <1>1, <1>3, <1>7
  <2>2. CASE k # n + 1
    <3>1. k \in from .. n
      BY <2>2, <1>1
    <3>2. j \in 1 .. w.att[k].idx - 1 /\ IsCurrent(g, w, k)
      BY <3>1, <1>1, <1>5
    <3>3. Settled(g, w, from, j, k)
      BY <3>1, <3>2, <1>7 DEF Chained, Following, Behind
    <3> QED BY <3>1, <3>3, <1>3
  <2> QED BY <2>1, <2>2
<1>8. ASSUME ~Excused(w) PROVE Searched(g, r, from, f)
  <2> SUFFICES ASSUME NEW k \in from .. n + 1, NEW i \in 1 .. Len(reports),
                      i # f, Is(g, r, k, "dscs", i), Wants(w, i),
                      NEW h \in InputRefs, reports[i] < h, h <= r.att[k].at
               PROVE  Settled(g, r, from, i, n + 2) \/ Asked(g, r, from, i, n + 2)
    BY <1>1, <1>2 DEF Searched
  <2>1. CASE k = n + 1
    <3>1. p.op = "dscs" /\ p.idx = i
      BY <2>1, <1>1 DEF Is
    <3> QED BY <3>1, <2>1, <1>1, <1>4, <1>8
  <2>2. CASE k # n + 1 /\ i # e
    <3>1. k \in from .. n
      BY <2>2, <1>1
    <3>2. Is(g, w, k, "dscs", i) /\ h <= w.att[k].at
      BY <3>1, <1>1, <1>5
    <3>3. Settled(g, w, from, i, n + 1) \/ Asked(g, w, from, i, n + 1)
      BY <2>2, <3>1, <3>2, <1>8 DEF Chained, Following, Searched
    <3> QED BY <3>3, <1>4
  <2>3. CASE i = e
    <3>1. p.op = "write" /\ p.idx = i
      BY <2>3
    <3>2. Is(g, r, n + 1, "write", i)
      BY <3>1, <1>1 DEF Is
    <3> QED BY <3>2, <1>1 DEF Settled
  <2> QED BY <2>1, <2>2, <2>3
<1>9. ASSUME ~Excused(w) PROVE Answers(g, r, from, f)
  <2> SUFFICES ASSUME NEW k \in from .. n + 1, NEW i \in 1 .. Len(reports),
                      i # f, Is(g, r, k, "ref", i), Wants(w, i), r.att[k].at \in OutputRefs
               PROVE  Settled(g, r, from, i, n + 2) \/ Asked(g, r, from, i, k)
    BY SMTT(30), <1>1, <1>2 DEF Answers
  <2>1. CASE k = n + 1
    <3>1. p.op = "ref" /\ p.idx = i /\ p.at \in OutputRefs
      BY <2>1, <1>1 DEF Is
    <3> QED BY <3>1, <2>1, <1>1, <1>3, <1>4, <1>9
  <2>2. CASE k # n + 1 /\ i # e
    <3>1. k \in from .. n
      BY <2>2, <1>1
    <3>2. Is(g, w, k, "ref", i) /\ w.att[k].at \in OutputRefs
      BY <3>1, <1>1, <1>5
    <3>3. Settled(g, w, from, i, n + 1) \/ Asked(g, w, from, i, k)
      BY <2>2, <3>1, <3>2, <1>9 DEF Chained, Following, Answers
    <3> QED BY <3>1, <3>3, <1>3, <1>4
  <2>3. CASE i = e
    <3>1. p.op = "write" /\ p.idx = i
      BY <2>3
    <3>2. Is(g, r, n + 1, "write", i)
      BY <3>1, <1>1 DEF Is
    <3> QED BY <3>2, <1>1 DEF Settled
  <2> QED BY <2>1, <2>2, <2>3
<1>10. ASSUME ~Excused(w) PROVE Skipped(g, r, from) /\ Ready(r)
  <2>1. Skipped(g, r, from)
    BY <1>1, <1>2, <1>4, <1>10 DEF Chained, Following, Skipped
  <2>2. Ready(r)
    BY <1>2, <1>10 DEF Chained, Following, Ready
  <2> QED BY <2>1, <2>2
<1>11. Following(g, r, from, f)
  BY <1>2, <1>7, <1>8, <1>9, <1>10 DEF Following
<1>12. Scanned(r, SvcEnd) /\ r.phase # "none"
       /\ \A i \in 1 .. Len(reports) :
             r.gatt.ref[i] = "output" => \E h \in OutputRefs : reports[i] < h
  BY DEF Chained, Scanned
<1> QED BY <1>2, <1>6, <1>11, <1>12 DEF Chained

\* Longer lists and forgotten references keep every promise.
LEMMA Grown ==
    ASSUME NEW g \in Gens, NEW w, NEW r, Sized(w), Sized(r), NEW from \in {1, 2},
           NEW e \in Nat, NEW f \in Nat, Chained(g, w, from, e),
           r.att = w.att, r.gatt.reports = w.gatt.reports, w.broken => r.broken,
           WFull(w) => WFull(r),
           \A i \in 1 .. Len(w.gatt.reports) : Covered(w, i) => Covered(r, i),
           \A i \in 1 .. Len(w.gatt.reports) : r.gatt.ref[i] = "output" =>
               \/ w.gatt.ref[i] = "output"
               \/ /\ \E h \in OutputRefs : w.gatt.reports[i] < h
                  /\ \/ Excused(w) \/ ~Wants(w, i)
                     \/ Settled(g, w, from, i, Len(w.att) + 1),
           \/ r.phase = w.phase
           \/ /\ r.phase = "ready"
              /\ \/ Excused(w)
                 \/ \A i \in 1 .. Len(w.gatt.reports) : Wants(w, i) => Covered(w, i),
           \/ f = e
           \/ /\ f = 0
              /\ \/ r.broken \/ WFull(r) \/ ~Wants(w, e) \/ Covered(r, e)
                 \/ Settled(g, w, from, e, Len(w.att) + 1)
    PROVE  Chained(g, r, from, f)
<1> DEFINE n == Len(w.att)
<1> DEFINE reports == w.gatt.reports
<1>1. /\ n \in Nat /\ Len(reports) \in Nat /\ r.gatt.reports = reports
      /\ \A i : Wants(w, i) <=> Wants(r, i)
      /\ Excused(w) => Excused(r)
  BY WorkFields DEF Wants, Excused
<1>2. ASSUME NEW i \in 1 .. Len(reports), NEW k \in Int, k <= n + 1
      PROVE  /\ Settled(g, w, from, i, k) => Settled(g, r, from, i, k)
             /\ Asked(g, w, from, i, k) => Asked(g, r, from, i, k)
  <2>1. Covered(w, i) => Covered(r, i)
    OBVIOUS
  <2> QED BY <2>1 DEF Settled, Asked, Is
<1>3. ASSUME NEW k, NEW op, NEW i
      PROVE  /\ IsCurrent(g, r, k) <=> IsCurrent(g, w, k)
             /\ Is(g, r, k, op, i) <=> Is(g, w, k, op, i)
  BY DEF IsCurrent, Is
<1>4. Placed(g, r, from)
  BY <1>1, <1>3 DEF Chained, Placed
<1>5. ASSUME ~Excused(r) PROVE Behind(g, r, from)
  <2> SUFFICES ASSUME NEW k \in from .. n, IsCurrent(g, w, k),
                      NEW j \in 1 .. w.att[k].idx - 1, Wants(w, j)
               PROVE  Settled(g, r, from, j, k)
    BY <1>1, <1>3 DEF Behind
  <2>1. Settled(g, w, from, j, k)
    BY <1>1, <1>5 DEF Chained, Following, Behind
  <2>2. w.att[k].idx \in 1 .. Len(reports) /\ k \in Int /\ k <= n + 1
    BY <1>1 DEF Chained, Placed
  <2>3. j \in 1 .. Len(reports)
    BY SMTT(30), <1>1, <2>2
  <2> QED BY <1>2, <2>1, <2>2, <2>3
<1>6. ASSUME ~Excused(r) PROVE Searched(g, r, from, f)
  <2> SUFFICES ASSUME NEW k \in from .. n, NEW i \in 1 .. Len(reports),
                      i # f, Is(g, w, k, "dscs", i), Wants(w, i),
                      NEW h \in InputRefs, reports[i] < h, h <= w.att[k].at
               PROVE  Settled(g, r, from, i, n + 1) \/ Asked(g, r, from, i, n + 1)
    BY <1>1, <1>3 DEF Searched
  <2>1. CASE i # e
    <3>1. Settled(g, w, from, i, n + 1) \/ Asked(g, w, from, i, n + 1)
      BY <1>1, <1>6, <2>1 DEF Chained, Following, Searched
    <3> QED BY <1>1, <1>2, <3>1
  <2>2. CASE i = e
    <3>1. Covered(r, i) \/ Settled(g, w, from, i, n + 1)
      BY <2>2, <1>6 DEF Excused
    <3>2. Covered(r, i) => Settled(g, r, from, i, n + 1)
      BY DEF Settled
    <3>3. n + 1 \in Int /\ n + 1 <= n + 1
      BY <1>1
    <3> QED BY <3>1, <3>2, <3>3, <1>2
  <2> QED BY <2>1, <2>2
<1>7. ASSUME ~Excused(r) PROVE Answers(g, r, from, f)
  <2> SUFFICES ASSUME NEW k \in from .. n, NEW i \in 1 .. Len(reports),
                      i # f, Is(g, w, k, "ref", i), Wants(w, i), w.att[k].at \in OutputRefs
               PROVE  Settled(g, r, from, i, n + 1) \/ Asked(g, r, from, i, k)
    BY <1>1, <1>3 DEF Answers
  <2>1. CASE i # e
    <3>1. Settled(g, w, from, i, n + 1) \/ Asked(g, w, from, i, k)
      BY <1>1, <1>7, <2>1 DEF Chained, Following, Answers
    <3> QED BY <1>1, <1>2, <3>1
  <2>2. CASE i = e
    <3>1. Covered(r, i) \/ Settled(g, w, from, i, n + 1)
      BY <2>2, <1>7 DEF Excused
    <3>2. Covered(r, i) => Settled(g, r, from, i, n + 1)
      BY DEF Settled
    <3>3. n + 1 \in Int /\ n + 1 <= n + 1
      BY <1>1
    <3> QED BY <3>1, <3>2, <3>3, <1>2
  <2> QED BY <2>1, <2>2
<1>8. ASSUME ~Excused(r) PROVE Skipped(g, r, from)
  <2> SUFFICES ASSUME NEW i \in 1 .. Len(reports), Wants(w, i), r.gatt.ref[i] = "output"
               PROVE  Settled(g, r, from, i, n + 1)
    BY <1>1 DEF Skipped
  <2>1. Settled(g, w, from, i, n + 1)
    BY <1>1, <1>8 DEF Chained, Following, Skipped
  <2> QED BY <1>1, <1>2, <2>1
<1>9. ASSUME ~Excused(r) PROVE Ready(r)
  <2> SUFFICES ASSUME r.phase = "ready", NEW i \in 1 .. Len(reports), Wants(w, i)
               PROVE  Covered(r, i)
    BY <1>1 DEF Ready
  <2>1. Covered(w, i)
    BY <1>1, <1>9 DEF Chained, Following, Ready
  <2> QED BY <2>1
<1>10. Following(g, r, from, f)
  BY <1>5, <1>6, <1>7, <1>8, <1>9 DEF Following
<1>11. /\ Scanned(r, SvcEnd) /\ r.phase # "none"
       /\ \A i \in 1 .. Len(reports) :
             r.gatt.ref[i] = "output" => \E h \in OutputRefs : reports[i] < h
  BY <1>1 DEF Chained, Scanned
<1> QED BY <1>1, <1>4, <1>10, <1>11 DEF Chained

\* The first procedure no longer counts.  A write has entered its report into a list; of
\* the answer to a read, the report e has not heard yet.
LEMMA Popped ==
    ASSUME NEW g \in Gens, NEW w, Sized(w), NEW e \in Nat, Len(w.att) >= 1,
           Chained(g, w, 1, 0),
           \A i \in 1 .. Len(w.gatt.reports) :
              /\ Is(g, w, 1, "write", i) => Excused(w) \/ Covered(w, i)
              /\ Is(g, w, 1, "ref", i) => i = e
    PROVE  Chained(g, w, 2, e)
<1> DEFINE n == Len(w.att)
<1> DEFINE reports == w.gatt.reports
<1>1. n \in Nat /\ Len(reports) \in Nat
  BY WorkFields
<1>2. ASSUME ~Excused(w), NEW i \in 1 .. Len(reports), NEW k \in Int
      PROVE  /\ Settled(g, w, 1, i, k) => Settled(g, w, 2, i, k)
             /\ Asked(g, w, 1, i, k) /\ i # e => Asked(g, w, 2, i, k)
  <2>1. ASSUME NEW m \in 1 .. k - 1, m \notin 2 .. k - 1 PROVE m = 1
    BY <2>1
  <2>2. Is(g, w, 1, "write", i) => Covered(w, i)
    BY <1>2
  <2>3. Is(g, w, 1, "ref", i) => i = e
    OBVIOUS
  <2>4. Settled(g, w, 1, i, k) => Settled(g, w, 2, i, k)
    BY <2>1, <2>2 DEF Settled
  <2>5. Asked(g, w, 1, i, k) /\ i # e => Asked(g, w, 2, i, k)
    BY <2>1, <2>3 DEF Asked
  <2> QED BY <2>4, <2>5
<1>3. \A k \in 2 .. n : k \in 1 .. n /\ k \in Int
  BY <1>1
<1>4. Placed(g, w, 2)
  BY <1>3 DEF Chained, Placed
<1>5. ASSUME ~Excused(w) PROVE Behind(g, w, 2)
  <2> SUFFICES ASSUME NEW k \in 2 .. n, IsCurrent(g, w, k),
                      NEW j \in 1 .. w.att[k].idx - 1, Wants(w, j)
               PROVE  Settled(g, w, 2, j, k)
    BY DEF Behind
  <2>1. Settled(g, w, 1, j, k)
    BY <1>3, <1>5 DEF Chained, Following, Behind
  <2>2. w.att[k].idx \in 1 .. Len(reports)
    BY <1>3 DEF Chained, Placed
  <2>3. j \in 1 .. Len(reports)
    BY <1>1, <2>2
  <2> QED BY <1>2, <1>3, <1>5, <2>1, <2>3
<1>6. ASSUME ~Excused(w) PROVE Searched(g, w, 2, e)
  <2> SUFFICES ASSUME NEW k \in 2 .. n, NEW i \in 1 .. Len(reports),
                      i # e, Is(g, w, k, "dscs", i), Wants(w, i),
                      NEW h \in InputRefs, reports[i] < h, h <= w.att[k].at
               PROVE  Settled(g, w, 2, i, n + 1) \/ Asked(g, w, 2, i, n + 1)
    BY DEF Searched
  <2>1. Settled(g, w, 1, i, n + 1) \/ Asked(g, w, 1, i, n + 1)
    BY SMTT(30), <1>1, <1>3, <1>6 DEF Chained, Following, Searched
  <2> QED BY <1>1, <1>2, <1>6, <2>1
<1>7. ASSUME ~Excused(w) PROVE Answers(g, w, 2, e)
  <2> SUFFICES ASSUME NEW k \in 2 .. n, NEW i \in 1 .. Len(reports),
                      i # e, Is(g, w, k, "ref", i), Wants(w, i), w.att[k].at \in OutputRefs
               PROVE  Settled(g, w, 2, i, n + 1) \/ Asked(g, w, 2, i, k)
    BY DEF Answers
  <2>1. Settled(g, w, 1, i, n + 1) \/ Asked(g, w, 1, i, k)
    BY <1>1, <1>3, <1>7 DEF Chained, Following, Answers
  <2> QED BY <1>1, <1>2, <1>3, <1>7, <2>1
<1>8. ASSUME ~Excused(w) PROVE Skipped(g, w, 2)
  <2>1. n + 1 \in Int
    BY <1>1
  <2> QED BY <1>2, <1>8, <2>1 DEF Chained, Following, Skipped
<1>9. Following(g, w, 2, e)
  BY <1>5, <1>6, <1>7, <1>8 DEF Chained, Following
<1> QED BY <1>4, <1>9 DEF Chained

\* The answered procedure leaves the pool.
LEMMA DoneDoes ==
    ASSUME NEW w, Sized(w), Len(w.att) >= 1
    PROVE  LET r == Done(w)
           IN  /\ Sized(r) /\ r.gatt = w.gatt /\ r.poll = w.poll /\ r.polling = w.polling
               /\ r.phase = w.phase /\ r.disturbed = w.disturbed /\ r.broken = w.broken
               /\ Len(r.att) = Len(w.att) - 1
               /\ \A k \in 1 .. Len(w.att) - 1 : r.att[k] = w.att[k + 1]
<1> DEFINE r == Done(w)
<1>1. w.att \in Seq(Procs) /\ w.att # <<>> /\ Len(w.att) \in Nat
  BY WorkFields
<1>2. /\ Tail(w.att) \in Seq(Procs) /\ Len(Tail(w.att)) = Len(w.att) - 1
      /\ \A k \in 1 .. Len(w.att) - 1 : Tail(w.att)[k] = w.att[k + 1]
  BY <1>1, TailSeq
<1>3. r = [w EXCEPT !.att = Tail(@)]
  BY DEF Done
<1>4. /\ r.gatt = w.gatt /\ r.poll = w.poll /\ r.polling = w.polling
      /\ r.phase = w.phase /\ r.disturbed = w.disturbed /\ r.broken = w.broken
      /\ r.att = Tail(w.att)
  BY <1>3 DEF Sized, Works
<1>5. r \in Works
  BY <1>2, <1>3 DEF Sized, Works
<1> HIDE DEF r
<1>6. Sized(r)
  BY <1>1, <1>2, <1>4, <1>5, BleGattAssumption DEF Sized
<1> QED BY <1>2, <1>4, <1>6 DEF r

\* What holds of the procedures behind the oldest holds of all once it is done.
LEMMA Shifted ==
    ASSUME NEW g \in Gens, NEW w, Sized(w), Len(w.att) >= 1, Chained(g, w, 2, 0)
    PROVE  Chained(g, Done(w), 1, 0)
<1> DEFINE r == Done(w)
<1> DEFINE n == Len(w.att)
<1> DEFINE reports == w.gatt.reports
<1>1. /\ n \in Nat /\ n >= 1 /\ Len(reports) \in Nat /\ Len(r.att) = n - 1 /\ r.gatt = w.gatt
      /\ r.poll = w.poll /\ r.phase = w.phase /\ r.broken = w.broken
      /\ \A k \in 1 .. n - 1 : r.att[k] = w.att[k + 1]
  BY WorkFields, DoneDoes
<1> HIDE DEF r
<1>2. /\ \A i : Covered(w, i) <=> Covered(r, i)
      /\ \A i : Wants(w, i) <=> Wants(r, i)
      /\ Excused(w) <=> Excused(r)
  BY <1>1 DEF Covered, Wants, Excused, WFull
<1>3. ASSUME NEW k \in 1 .. n - 1
      PROVE  /\ k + 1 \in 2 .. n /\ r.att[k] = w.att[k + 1]
             /\ IsCurrent(g, r, k) <=> IsCurrent(g, w, k + 1)
             /\ \A op, i : Is(g, r, k, op, i) <=> Is(g, w, k + 1, op, i)
  BY SMTT(30), <1>1 DEF IsCurrent, Is
<1>4. ASSUME NEW i, NEW k \in 1 .. n
      PROVE  /\ Settled(g, w, 2, i, k + 1) => Settled(g, r, 1, i, k)
             /\ Asked(g, w, 2, i, k + 1) => Asked(g, r, 1, i, k)
  <2>1. ASSUME NEW m \in 2 .. k + 1 - 1
        PROVE  /\ m - 1 \in 1 .. k - 1 /\ r.att[m - 1] = w.att[m]
               /\ \A op : Is(g, w, m, op, i) <=> Is(g, r, m - 1, op, i)
    <3>1. m - 1 \in 1 .. n - 1 /\ m - 1 + 1 = m /\ m - 1 \in 1 .. k - 1
      BY <1>1
    <3> QED BY <3>1, <1>3
  <2>2. Settled(g, w, 2, i, k + 1) => Settled(g, r, 1, i, k)
    BY <1>2, <2>1 DEF Settled
  <2>3. Asked(g, w, 2, i, k + 1) => Asked(g, r, 1, i, k)
    BY <2>1 DEF Asked
  <2> QED BY <2>2, <2>3
<1>5. Placed(g, r, 1)
  <2> SUFFICES ASSUME NEW k \in 1 .. n - 1, IsCurrent(g, r, k)
               PROVE  /\ r.att[k].op \in OfReports /\ r.att[k].idx \in 1 .. Len(reports)
                      /\ r.att[k].op = "dscs" => r.att[k].at \in reports[r.att[k].idx] .. SvcEnd
                      /\ r.att[k].op = "ref" => /\ r.att[k].at \in InputRefs \cup OutputRefs
                                                /\ reports[r.att[k].idx] < r.att[k].at
    BY <1>1 DEF Placed
  <2>1. k + 1 \in 2 .. n /\ r.att[k] = w.att[k + 1] /\ IsCurrent(g, w, k + 1)
    BY <1>3
  <2> QED BY <2>1 DEF Chained, Placed
<1>6. ASSUME ~Excused(w) PROVE Behind(g, r, 1)
  <2> SUFFICES ASSUME NEW k \in 1 .. n - 1, IsCurrent(g, r, k),
                      NEW j \in 1 .. r.att[k].idx - 1, Wants(w, j)
               PROVE  Settled(g, r, 1, j, k)
    BY <1>1, <1>2 DEF Behind
  <2>1. Settled(g, w, 2, j, k + 1)
    BY <1>3, <1>6 DEF Chained, Following, Behind
  <2> QED BY <1>1, <1>4, <2>1
<1>7. ASSUME ~Excused(w) PROVE Searched(g, r, 1, 0)
  <2> SUFFICES ASSUME NEW k \in 1 .. n - 1, NEW i \in 1 .. Len(reports),
                      Is(g, r, k, "dscs", i), Wants(w, i),
                      NEW h \in InputRefs, reports[i] < h, h <= r.att[k].at
               PROVE  Settled(g, r, 1, i, n) \/ Asked(g, r, 1, i, n)
    BY <1>1, <1>2 DEF Searched
  <2>1. Settled(g, w, 2, i, n + 1) \/ Asked(g, w, 2, i, n + 1)
    BY <1>3, <1>7 DEF Chained, Following, Searched
  <2>2. n \in 1 .. n
    BY <1>1
  <2> QED BY <2>2, <1>4, <2>1
<1>8. ASSUME ~Excused(w) PROVE Answers(g, r, 1, 0)
  <2> SUFFICES ASSUME NEW k \in 1 .. n - 1, NEW i \in 1 .. Len(reports),
                      Is(g, r, k, "ref", i), Wants(w, i), r.att[k].at \in OutputRefs
               PROVE  Settled(g, r, 1, i, n) \/ Asked(g, r, 1, i, k)
    BY <1>1, <1>2 DEF Answers
  <2>1. Settled(g, w, 2, i, n + 1) \/ Asked(g, w, 2, i, k + 1)
    BY <1>3, <1>8 DEF Chained, Following, Answers
  <2> QED BY <1>1, <1>4, <2>1
<1>9. ASSUME ~Excused(w) PROVE Skipped(g, r, 1) /\ Ready(r)
  <2>1. n \in 1 .. n /\ n - 1 + 1 = n
    BY <1>1
  <2>2. Skipped(g, r, 1)
    BY <1>1, <1>2, <1>4, <1>9, <2>1 DEF Chained, Following, Skipped
  <2>3. Ready(r)
    BY <1>1, <1>2, <1>9 DEF Chained, Following, Ready
  <2> QED BY <2>2, <2>3
<1>10. Following(g, r, 1, 0)
  BY <1>2, <1>6, <1>7, <1>8, <1>9 DEF Following
<1> QED BY <1>1, <1>5, <1>10 DEF Chained, Scanned, r

\* The first procedure goes on with its search.
LEMMA Headed ==
    ASSUME NEW g \in Gens, NEW w, NEW r, Sized(w), Sized(r), Len(w.att) >= 1,
           Chained(g, w, 2, 0), NEW q \in Procs, q.op \in {"svcs", "chrs", "dscs"},
           r.gatt = w.gatt, r.poll = w.poll, r.phase = w.phase, r.broken = w.broken,
           r.att = [w.att EXCEPT ![1] = q],
           q.gen = g => /\ q.op = "dscs" /\ q.idx \in 1 .. Len(w.gatt.reports)
                        /\ q.at \in w.gatt.reports[q.idx] .. SvcEnd,
           \/ q.gen # g \/ Excused(w)
           \/ /\ \A j \in 1 .. q.idx - 1 : Wants(w, j) => Covered(w, j)
              /\ \A h \in InputRefs :
                    Wants(w, q.idx) /\ w.gatt.reports[q.idx] < h /\ h <= q.at
                       => \/ Settled(g, w, 2, q.idx, Len(w.att) + 1)
                          \/ Asked(g, w, 2, q.idx, Len(w.att) + 1)
    PROVE  Chained(g, r, 1, 0)
<1> DEFINE n == Len(w.att)
<1> DEFINE reports == w.gatt.reports
<1>1. /\ n \in Nat /\ n >= 1 /\ Len(reports) \in Nat /\ Len(r.att) = n /\ r.att[1] = q
      /\ \A k \in 2 .. n : r.att[k] = w.att[k]
  BY WorkFields
<1>2. /\ \A i : Covered(w, i) <=> Covered(r, i)
      /\ \A i : Wants(w, i) <=> Wants(r, i)
      /\ Excused(w) <=> Excused(r)
  BY DEF Covered, Wants, Excused, WFull
<1>3. ASSUME NEW k \in 2 .. n
      PROVE  /\ IsCurrent(g, r, k) <=> IsCurrent(g, w, k)
             /\ \A op, i : Is(g, r, k, op, i) <=> Is(g, w, k, op, i)
  BY <1>1 DEF IsCurrent, Is
<1>4. ASSUME NEW i, NEW k \in Int, k <= n + 1
      PROVE  /\ Settled(g, w, 2, i, k) => Settled(g, r, 1, i, k)
             /\ Asked(g, w, 2, i, k) => Asked(g, r, 1, i, k)
  <2>1. ASSUME NEW m \in 2 .. k - 1
        PROVE  /\ m \in 1 .. k - 1 /\ r.att[m] = w.att[m]
               /\ \A op : Is(g, w, m, op, i) <=> Is(g, r, m, op, i)
    <3>1. m \in 2 .. n /\ m \in 1 .. k - 1
      BY <1>1, <1>4
    <3> QED BY <3>1, <1>1, <1>3
  <2>2. Settled(g, w, 2, i, k) => Settled(g, r, 1, i, k)
    BY <1>2, <2>1 DEF Settled
  <2>3. Asked(g, w, 2, i, k) => Asked(g, r, 1, i, k)
    BY <2>1 DEF Asked
  <2> QED BY <2>2, <2>3
<1>5. \A k \in 1 .. n : k = 1 \/ k \in 2 .. n
  BY <1>1
<1>6. Placed(g, r, 1)
  <2> SUFFICES ASSUME NEW k \in 1 .. n, IsCurrent(g, r, k)
               PROVE  /\ r.att[k].op \in OfReports /\ r.att[k].idx \in 1 .. Len(reports)
                      /\ r.att[k].op = "dscs" => r.att[k].at \in reports[r.att[k].idx] .. SvcEnd
                      /\ r.att[k].op = "ref" => /\ r.att[k].at \in InputRefs \cup OutputRefs
                                                /\ reports[r.att[k].idx] < r.att[k].at
    BY <1>1 DEF Placed
  <2>1. CASE k = 1
    BY <2>1, <1>1 DEF IsCurrent, OfReports
  <2>2. CASE k \in 2 .. n
    BY <2>2, <1>1, <1>3 DEF Chained, Placed
  <2> QED BY <2>1, <2>2, <1>5
<1>7. ASSUME ~Excused(w) PROVE Behind(g, r, 1)
  <2> SUFFICES ASSUME NEW k \in 1 .. n, IsCurrent(g, r, k),
                      NEW j \in 1 .. r.att[k].idx - 1, Wants(w, j)
               PROVE  Settled(g, r, 1, j, k)
    BY <1>1, <1>2 DEF Behind
  <2>1. CASE k = 1
    BY <2>1, <1>1, <1>2, <1>7 DEF IsCurrent, Settled
  <2>2. CASE k \in 2 .. n
    <3>1. Settled(g, w, 2, j, k)
      BY <2>2, <1>1, <1>3, <1>7 DEF Chained, Following, Behind
    <3> QED BY <3>1, <2>2, <1>1, <1>4
  <2> QED BY <2>1, <2>2, <1>5
<1>8. ASSUME ~Excused(w) PROVE Searched(g, r, 1, 0)
  <2> SUFFICES ASSUME NEW k \in 1 .. n, NEW i \in 1 .. Len(reports),
                      Is(g, r, k, "dscs", i), Wants(w, i),
                      NEW h \in InputRefs, reports[i] < h, h <= r.att[k].at
               PROVE  Settled(g, r, 1, i, n + 1) \/ Asked(g, r, 1, i, n + 1)
    BY <1>1, <1>2 DEF Searched
  <2>1. Settled(g, w, 2, i, n + 1) \/ Asked(g, w, 2, i, n + 1)
    <3>1. CASE k = 1
      BY <3>1, <1>1, <1>8 DEF Is
    <3>2. CASE k \in 2 .. n
      BY SMTT(30), <3>2, <1>1, <1>3, <1>8 DEF Chained, Following, Searched
    <3> QED BY <3>1, <3>2, <1>5
  <2> QED BY <1>1, <1>4, <2>1
<1>9. ASSUME ~Excused(w) PROVE Answers(g, r, 1, 0)
  <2> SUFFICES ASSUME NEW k \in 1 .. n, NEW i \in 1 .. Len(reports),
                      Is(g, r, k, "ref", i), Wants(w, i), r.att[k].at \in OutputRefs
               PROVE  Settled(g, r, 1, i, n + 1) \/ Asked(g, r, 1, i, k)
    BY <1>1, <1>2 DEF Answers
  <2>1. k \in 2 .. n
    BY <1>1, <1>5 DEF Is
  <2>2. Settled(g, w, 2, i, n + 1) \/ Asked(g, w, 2, i, k)
    BY <2>1, <1>1, <1>3, <1>9 DEF Chained, Following, Answers
  <2> QED BY <1>1, <1>4, <2>1, <2>2
<1>10. ASSUME ~Excused(w) PROVE Skipped(g, r, 1) /\ Ready(r)
  <2>1. n + 1 \in Int /\ n + 1 <= n + 1
    BY <1>1
  <2>2. Skipped(g, r, 1)
    BY <1>1, <1>2, <1>4, <1>10, <2>1 DEF Chained, Following, Skipped
  <2>3. Ready(r)
    BY <1>1, <1>2, <1>10 DEF Chained, Following, Ready
  <2> QED BY <2>2, <2>3
<1>11. Following(g, r, 1, 0)
  BY <1>2, <1>7, <1>8, <1>9, <1>10 DEF Following
<1>12. r.phase # "none" /\ Scanned(r, SvcEnd)
  BY DEF Chained, Scanned
<1>13. \A i \in 1 .. Len(r.gatt.reports) :
          r.gatt.ref[i] = "output" => \E h \in OutputRefs : r.gatt.reports[i] < h
  BY DEF Chained
<1> QED BY <1>6, <1>11, <1>12, <1>13 DEF Chained

\* A procedure of another discovery, or a poll, joins.
LEMMA Ignored ==
    ASSUME NEW g \in Gens, NEW w, NEW r, Sized(w), Sized(r), NEW p \in Procs,
           p.gen # g \/ p.op = "poll", Discovery(g, w),
           r.gatt = w.gatt, r.phase = w.phase, r.broken = w.broken,
           r.poll.handles = w.poll.handles, r.att = Append(w.att, p)
    PROVE  Discovery(g, r)
<1> DEFINE n == Len(w.att)
<1> DEFINE reports == w.gatt.reports
<1>1. /\ n \in Nat /\ Len(reports) \in Nat /\ Len(r.att) = n + 1 /\ r.att[n + 1] = p
      /\ \A k \in 1 .. n : r.att[k] = w.att[k]
  BY WorkFields, AppendSeq
<1>2. /\ \A i : Covered(w, i) <=> Covered(r, i)
      /\ \A i : Wants(w, i) <=> Wants(r, i)
      /\ Excused(w) <=> Excused(r)
  BY DEF Covered, Wants, Excused, WFull
<1>3. /\ ~IsCurrent(g, r, n + 1)
      /\ \A op \in OfReports : \A i : ~Is(g, r, n + 1, op, i)
  BY <1>1 DEF IsCurrent, Is, OfReports
<1>4. ASSUME NEW k \in 1 .. n
      PROVE  /\ r.att[k] = w.att[k]
             /\ IsCurrent(g, r, k) <=> IsCurrent(g, w, k)
             /\ \A op, i : Is(g, r, k, op, i) <=> Is(g, w, k, op, i)
  BY <1>1 DEF IsCurrent, Is
<1>5. \A k \in 1 .. n + 1 : k = n + 1 \/ k \in 1 .. n
  BY <1>1
<1>6. CASE Silent(g, w)
  BY <1>1, <1>3, <1>4, <1>5, <1>6 DEF Silent, Discovery
<1>7. CASE Listing(g, w)
  <2>1. \A k \in 1 .. n + 1 : IsCurrent(g, r, k) => k \in 1 .. n /\ IsCurrent(g, w, k)
    BY <1>3, <1>4, <1>5
  <2>2. Listing(g, r)
    BY <1>1, <1>4, <1>7, <2>1 DEF Listing, Scanned
  <2> QED BY <2>2 DEF Discovery
<1>8. CASE Chained(g, w, 1, 0)
  <2>1. ASSUME NEW i, NEW k \in Int, k <= n + 1
        PROVE  /\ Settled(g, w, 1, i, k) => Settled(g, r, 1, i, k)
               /\ Asked(g, w, 1, i, k) => Asked(g, r, 1, i, k)
               /\ Settled(g, w, 1, i, n + 1) => Settled(g, r, 1, i, n + 2)
               /\ Asked(g, w, 1, i, n + 1) => Asked(g, r, 1, i, n + 2)
    <3>1. n + 1 \in Int /\ n + 2 \in Int /\ n + 1 <= n + 1 /\ n + 1 <= n + 2 /\ 1 \in Nat /\ 1 >= 1
      BY <1>1
    <3>2. Covered(w, i) => Covered(r, i)
      BY <1>2
    <3>3. n \in Nat /\ \A m \in 1 .. n : r.att[m] = w.att[m]
      BY <1>1
    <3> HIDE DEF n
    <3>4. /\ Settled(g, w, 1, i, k) => Settled(g, r, 1, i, k)
          /\ Asked(g, w, 1, i, k) => Asked(g, r, 1, i, k)
      BY <3>1, <3>2, <3>3, <2>1, Longer
    <3>5. /\ Settled(g, w, 1, i, n + 1) => Settled(g, r, 1, i, n + 1)
          /\ Asked(g, w, 1, i, n + 1) => Asked(g, r, 1, i, n + 1)
      BY <3>1, <3>2, <3>3, Longer
    <3>6. /\ Settled(g, r, 1, i, n + 1) => Settled(g, r, 1, i, n + 2)
          /\ Asked(g, r, 1, i, n + 1) => Asked(g, r, 1, i, n + 2)
      BY <3>1, Later
    <3> QED BY <3>4, <3>5, <3>6
  <2>2. n + 1 \in Int /\ n + 1 <= n + 1 /\ \A k \in 1 .. n : k \in Int /\ k <= n + 1
    BY <1>1
  <2>3. Placed(g, r, 1)
    BY <1>1, <1>3, <1>4, <1>5, <1>8 DEF Chained, Placed
  <2>4. ASSUME ~Excused(w) PROVE Behind(g, r, 1)
    <3> SUFFICES ASSUME NEW k \in 1 .. n, IsCurrent(g, w, k),
                        NEW j \in 1 .. w.att[k].idx - 1, Wants(w, j)
                 PROVE  Settled(g, r, 1, j, k)
      BY <1>1, <1>2, <1>3, <1>4, <1>5 DEF Behind
    <3>1. Settled(g, w, 1, j, k)
      BY <1>8, <2>4 DEF Chained, Following, Behind
    <3> QED BY <3>1, <2>1, <2>2
  <2>5. ASSUME ~Excused(w) PROVE Searched(g, r, 1, 0)
    <3> SUFFICES ASSUME NEW k \in 1 .. n, NEW i \in 1 .. Len(reports),
                        Is(g, w, k, "dscs", i), Wants(w, i),
                        NEW h \in InputRefs, reports[i] < h, h <= w.att[k].at
                 PROVE  Settled(g, r, 1, i, n + 2) \/ Asked(g, r, 1, i, n + 2)
      BY <1>1, <1>2, <1>3, <1>4, <1>5 DEF Searched, OfReports
    <3>1. i # 0
      BY <1>1
    <3>2. Settled(g, w, 1, i, n + 1) \/ Asked(g, w, 1, i, n + 1)
      BY <3>1, <1>8, <2>5 DEF Chained, Following, Searched
    <3> QED BY <3>2, <2>1, <2>2
  <2>6. ASSUME ~Excused(w) PROVE Answers(g, r, 1, 0)
    <3> SUFFICES ASSUME NEW k \in 1 .. n, NEW i \in 1 .. Len(reports),
                        Is(g, w, k, "ref", i), Wants(w, i), w.att[k].at \in OutputRefs
                 PROVE  Settled(g, r, 1, i, n + 2) \/ Asked(g, r, 1, i, k)
      BY <1>1, <1>2, <1>3, <1>4, <1>5 DEF Answers, OfReports
    <3>1. i # 0
      BY <1>1
    <3>2. Settled(g, w, 1, i, n + 1) \/ Asked(g, w, 1, i, k)
      BY <3>1, <1>8, <2>6 DEF Chained, Following, Answers
    <3> QED BY <3>2, <2>1, <2>2
  <2>7. ASSUME ~Excused(w) PROVE Skipped(g, r, 1) /\ Ready(r)
    <3>1. Skipped(g, r, 1)
      <4> SUFFICES ASSUME NEW i \in 1 .. Len(reports), Wants(w, i), w.gatt.ref[i] = "output"
                   PROVE  Settled(g, r, 1, i, n + 2)
        BY <1>1, <1>2 DEF Skipped
      <4>1. Settled(g, w, 1, i, n + 1)
        BY <1>8, <2>7 DEF Chained, Following, Skipped
      <4> QED BY <4>1, <2>1, <2>2
    <3>2. Ready(r)
      BY <1>2, <1>8, <2>7 DEF Chained, Following, Ready
    <3> QED BY <3>1, <3>2
  <2>8. Following(g, r, 1, 0)
    BY <1>2, <2>4, <2>5, <2>6, <2>7 DEF Following
  <2>9. Chained(g, r, 1, 0)
    BY <1>8, <2>3, <2>8 DEF Chained, Scanned
  <2> QED BY <2>9 DEF Discovery
<1> QED BY <1>6, <1>7, <1>8 DEF Discovery

-----------------------------------------------------------------------------
(* The end of a callback.                                                    *)

\* The arrays beside the reports keep their size.
LEMMA CccdSet ==
    ASSUME NEW w, Sized(w), NEW i \in Int, NEW e \in Nat
    PROVE  LET t == [w.gatt.cccd EXCEPT ![i] = e]
           IN  t \in Seq(Nat) /\ Len(t) = Len(w.gatt.reports)
<1> DEFINE s == w.gatt.cccd
<1> DEFINE t == [s EXCEPT ![i] = e]
<1>1. s \in Seq(Nat) /\ Len(s) = Len(w.gatt.reports)
  BY WorkFields DEF Sized
<1> HIDE DEF s
<1>2. Len(s) \in Nat /\ DOMAIN t = 1 .. Len(s) /\ \A k \in 1 .. Len(s) : t[k] \in Nat
  BY <1>1
<1>3. t \in [1 .. Len(s) -> Nat]
  BY <1>2
<1> HIDE DEF t
<1>4. t \in Seq(Nat) /\ Len(t) = Len(s)
  BY <1>2, <1>3
<1> QED BY <1>1, <1>4 DEF s, t

\* A type that is written at any index leaves a list of types of the same length.
LEMMA RefSet ==
    ASSUME NEW w, Sized(w), NEW i \in Int, NEW e \in {"unknown", "input", "output"}
    PROVE  LET t == [w.gatt.ref EXCEPT ![i] = e]
           IN  t \in Seq({"unknown", "input", "output"}) /\ Len(t) = Len(w.gatt.reports)
<1> DEFINE s == w.gatt.ref
<1> DEFINE t == [s EXCEPT ![i] = e]
<1> DEFINE S == {"unknown", "input", "output"}
<1>1. s \in Seq(S) /\ Len(s) = Len(w.gatt.reports)
  BY WorkFields DEF Sized
<1>e. e \in S
  OBVIOUS
<1> HIDE DEF s, S
<1>2. Len(s) \in Nat /\ DOMAIN t = 1 .. Len(s) /\ \A k \in 1 .. Len(s) : t[k] \in S
  BY <1>1, <1>e
<1>3. t \in [1 .. Len(s) -> S]
  BY <1>2
<1> HIDE DEF t
<1>4. t \in Seq(S) /\ Len(t) = Len(s)
  BY <1>2, <1>3
<1> QED BY <1>1, <1>4 DEF s, S, t

\* A request of the discovery under way.
LEMMA ProcIs ==
    ASSUME s_disc_gen \in Gens, NEW op \in Ops \ {"poll"}, NEW idx \in Nat, NEW at \in Nat
    PROVE  LET p == Proc(op, idx, at)
           IN  /\ p \in Procs /\ p.op = op /\ p.gen = s_disc_gen /\ p.idx = idx /\ p.at = at
               /\ p.upto = 0
<1>1. /\ Proc(op, idx, at) = [op |-> op, gen |-> s_disc_gen, idx |-> idx, at |-> at, upto |-> 0]
      /\ s_disc_gen \in Int
  BY DEF Proc, Gens
<1> QED BY <1>1 DEF Procs

\* subscribe_report goes on with report i, or calls the keyboard ready, when the reports
\* before i are in a list or wait for the answer to a write.
LEMMA SubscribeKeeps ==
    ASSUME NEW w, Sized(w), s_disc_gen \in Gens, Len(w.att) >= 1,
           NEW i \in 1 .. Len(w.gatt.reports) + 1, Chained(s_disc_gen, w, 2, 0),
           \/ Excused(w)
           \/ /\ \A j \in 1 .. i - 1 :
                    Wants(w, j) => Settled(s_disc_gen, w, 2, j, Len(w.att) + 1)
              /\ i = Len(w.gatt.reports) + 1
                    => \A j \in 1 .. Len(w.gatt.reports) : Wants(w, j) => Covered(w, j)
    PROVE  LET r == SubscribeReport(w, i)
           IN  Sized(r) /\ Len(r.att) >= 1 /\ Chained(s_disc_gen, r, 2, 0)
<1> DEFINE g == s_disc_gen
<1> DEFINE reports == w.gatt.reports
<1>0. /\ Len(w.att) \in Nat /\ Len(reports) \in Nat /\ \A j \in 1 .. Len(reports) : reports[j] \in Nat
      /\ w.gatt.ref \in Seq({"unknown", "input", "output"}) /\ w.gatt.cccd \in Seq(Nat)
      /\ DOMAIN w.gatt.ref = 1 .. Len(reports) /\ DOMAIN w.gatt.cccd = 1 .. Len(reports)
      /\ w.att \in Seq(Procs)
  BY WorkFields
<1>1. CASE i > Len(reports)
  <2> DEFINE r == HidReady(w)
  <2>1. r = [w EXCEPT !.polling = @ \/ w.poll.handles # <<>>, !.phase = "ready"]
    BY DEF HidReady
  <2>2. /\ r.gatt = w.gatt /\ r.poll = w.poll /\ r.att = w.att /\ r.phase = "ready"
        /\ r.broken = w.broken /\ r \in Works
    BY <2>1 DEF Sized, Works
  <2> HIDE DEF r
  <2>3. Sized(r)
    BY <2>2 DEF Sized
  <2>4. \A j : Covered(w, j) => Covered(r, j)
    BY <2>2 DEF Covered
  <2>5. WFull(w) => WFull(r)
    BY <2>2 DEF WFull
  <2>5a. \/ Excused(w)
         \/ \A j \in 1 .. Len(w.gatt.reports) : Wants(w, j) => Covered(w, j)
    <3>1. i = Len(w.gatt.reports) + 1
      BY <1>0, <1>1
    <3> QED BY <3>1
  <2>5b. \A j \in 1 .. Len(reports) : r.gatt.ref[j] = "output" => w.gatt.ref[j] = "output"
    BY <2>2
  <2>6. Chained(g, r, 2, 0)
    BY <2>2, <2>3, <2>4, <2>5, <2>5a, <2>5b, Grown
  <2>7. SubscribeReport(w, i) = r
    BY <1>1 DEF SubscribeReport, r
  <2> QED BY <2>2, <2>3, <2>6, <2>7
<1>2. CASE ~(i > Len(reports))
  <2> DEFINE v == [w EXCEPT !.gatt.cccd[i] = 0, !.gatt.ref[i] = "unknown",
                            !.gatt.waiting = FALSE]
  <2> DEFINE p == Proc("dscs", i, reports[i])
  <2> DEFINE r == Send(v, p)
  <2>0. i \in 1 .. Len(reports)
    BY <1>0, <1>2
  <2> DEFINE gatt == [w.gatt EXCEPT !.cccd = [@ EXCEPT ![i] = 0],
                                    !.ref = [@ EXCEPT ![i] = "unknown"], !.waiting = FALSE]
  <2>1. v = [w EXCEPT !.gatt = gatt]
    BY DEF Sized, Works, Gatts
  <2> HIDE DEF v, gatt
  <2>2. /\ v.gatt = gatt /\ v.poll = w.poll /\ v.att = w.att /\ v.phase = w.phase
        /\ v.broken = w.broken
    BY <2>1 DEF Sized, Works
  <2>3. /\ v.gatt.reports = reports /\ v.gatt.subs = w.gatt.subs
        /\ v.gatt.cccd = [w.gatt.cccd EXCEPT ![i] = 0]
        /\ v.gatt.ref = [w.gatt.ref EXCEPT ![i] = "unknown"]
    BY <2>2 DEF Sized, Works, Gatts, gatt
  <2>4. /\ v.gatt.cccd \in Seq(Nat) /\ Len(v.gatt.cccd) = Len(reports)
        /\ v.gatt.ref \in Seq({"unknown", "input", "output"}) /\ Len(v.gatt.ref) = Len(reports)
    <3>1. i \in Int
      BY <2>0
    <3>2. /\ [w.gatt.cccd EXCEPT ![i] = 0] \in Seq(Nat)
          /\ Len([w.gatt.cccd EXCEPT ![i] = 0]) = Len(reports)
      BY <3>1, CccdSet
    <3>3. /\ [w.gatt.ref EXCEPT ![i] = "unknown"] \in Seq({"unknown", "input", "output"})
          /\ Len([w.gatt.ref EXCEPT ![i] = "unknown"]) = Len(reports)
      BY <3>1, RefSet
    <3> QED BY <2>3, <3>2, <3>3
  <2>5. v.gatt \in Gatts
    BY <2>2, <2>3, <2>4 DEF Sized, Works, Gatts, gatt
  <2>6. v \in Works
    BY <2>1, <2>2, <2>5 DEF Sized, Works
  <2>7. Sized(v)
    BY <2>2, <2>3, <2>4, <2>6 DEF Sized
  <2>8. \A j \in 1 .. Len(reports) : v.gatt.ref[j] = "output" => w.gatt.ref[j] = "output"
    BY <1>0, <2>0, <2>3
  <2>9. /\ \A j : Covered(w, j) <=> Covered(v, j)
        /\ WFull(w) <=> WFull(v)
        /\ \A j : Wants(w, j) <=> Wants(v, j)
    BY <2>2, <2>3 DEF Covered, WFull, Wants
  <2>10. Chained(g, v, 2, 0)
    BY <1>0, <2>2, <2>3, <2>7, <2>8, <2>9, Grown
  <2>11. reports[i] \in 1 .. SvcEnd /\ reports[i] \in Nat
    BY <1>0, <2>0 DEF Chained, Scanned, Values
  <2>12. /\ p \in Procs /\ p.op = "dscs" /\ p.gen = g /\ p.idx = i /\ p.at = reports[i]
    <3>1. i \in Nat /\ "dscs" \in Ops \ {"poll"}
      BY <2>0 DEF Ops
    <3> QED BY <2>11, <3>1, ProcIs
  <2> HIDE DEF p
  <2>13. /\ Sized(r) /\ r.gatt = v.gatt /\ r.poll = v.poll /\ r.phase = v.phase
         /\ \/ r.att = Append(v.att, p) /\ r.broken = v.broken
            \/ r.att = v.att /\ r.broken = TRUE
    BY <2>7, <2>12, SendDoes
  <2> HIDE DEF r
  <2>14. CASE r.att = Append(v.att, p) /\ r.broken = v.broken
    <3>1. \/ Excused(v)
          \/ \A j \in 1 .. i - 1 : Wants(v, j) => Settled(g, v, 2, j, Len(v.att) + 1)
      BY <2>2, <2>9 DEF Excused, Settled, Is
    <3>2. \A h \in InputRefs : ~(v.gatt.reports[i] < h /\ h <= p.at)
      <4> SUFFICES ASSUME NEW h \in InputRefs PROVE ~(reports[i] < h /\ h <= reports[i])
        BY <2>3, <2>12
      <4>1. h \in Int
        BY DEF InputRefs, RefsOf
      <4> QED BY <4>1, <2>11
    <3>3. 2 <= Len(v.att) + 1
      BY <1>0, <2>2
    <3>4. p.at \in v.gatt.reports[p.idx] .. SvcEnd /\ p.idx \in 1 .. Len(v.gatt.reports)
      BY <2>0, <2>3, <2>11, <2>12
    <3>5. Chained(g, r, 2, 0)
      BY <2>7, <2>10, <2>12, <2>13, <2>14, <3>1, <3>2, <3>3, <3>4, Extended DEF OfReports
    <3>6. Len(r.att) >= 1
      BY <1>0, <2>2, <2>12, <2>14, AppendSeq
    <3> QED BY <1>2, <2>13, <3>5, <3>6 DEF SubscribeReport, r, v, p
  <2>15. CASE r.att = v.att /\ r.broken = TRUE
    <3>1. WFull(v) => WFull(r)
      BY <2>13 DEF WFull
    <3>2. \A j : Covered(v, j) => Covered(r, j)
      BY <2>13 DEF Covered
    <3>3. Chained(g, r, 2, 0)
      BY <2>7, <2>10, <2>13, <2>15, <3>1, <3>2, Grown
    <3> QED BY <1>2, <2>2, <2>13, <2>15, <3>3 DEF SubscribeReport, r, v, p
  <2> QED BY <2>13, <2>14, <2>15
<1> QED BY <1>0, <1>1, <1>2

\* A descriptor behind the last value belongs to it.
LEMMA LastOwner ==
    ASSUME layout \in Layouts, NEW v \in Values, NEW h \in 1 .. SvcEnd, v <= h,
           \A u \in Values : u <= v
    PROVE  Owner(h) = v
<1>1. SvcEnd \in Nat
  BY BleGattAssumption DEF SvcEnd
<1>2. BelongsTo(layout, h, v)
  BY <1>1 DEF Values, IsKind, BelongsTo
<1>3. ASSUME NEW o \in 1 .. h, BelongsTo(layout, h, o) PROVE o = v
  <2>1. o \in Values
    BY <1>1, <1>3 DEF BelongsTo, Values, IsKind
  <2>2. o <= v
    BY <2>1
  <2>3. CASE o < v
    BY <1>1, <1>3, <2>3 DEF BelongsTo, Values, IsKind
  <2> QED BY <1>1, <2>2, <2>3 DEF Values
<1>4. v \in 1 .. h
  BY <1>2 DEF BelongsTo
<1> QED BY <1>2, <1>3, <1>4 DEF Owner

\* The end of on_disc_dscs and of on_read_report_ref puts report i into a list, writes its
\* CCCD or skips it, and may be the last to handle a reference that was asked for.
LEMMA ChooseKeeps ==
    ASSUME layout \in Layouts, NEW w, Sized(w), s_disc_gen \in Gens, Len(w.att) >= 1,
           NEW i \in 1 .. Len(w.gatt.reports), Chained(s_disc_gen, w, 2, i),
           Excused(w) \/ \A j \in 1 .. i - 1 : Wants(w, j) => Covered(w, j)
    PROVE  LET r == Choose(w, i)
           IN  Sized(r) /\ Len(r.att) >= 1 /\ Chained(s_disc_gen, r, 2, 0)
<1> DEFINE g == s_disc_gen
<1> DEFINE reports == w.gatt.reports
<1> DEFINE cccd == w.gatt.cccd[i]
<1>0. /\ Len(w.att) \in Nat /\ Len(reports) \in Nat /\ \A j \in 1 .. Len(reports) : reports[j] \in Nat
      /\ cccd \in Nat /\ w.att \in Seq(Procs)
  <2>1. w.gatt.cccd \in Seq(Nat) /\ i \in 1 .. Len(w.gatt.cccd)
    BY WorkFields DEF Sized
  <2>2. cccd \in Nat
    BY <2>1
  <2> QED BY <2>2, WorkFields
<1>1. CASE w.gatt.ref[i] # "output" /\ cccd # 0 /\ layout[reports[i]].notify
  <2> DEFINE p == Proc("write", i, cccd)
  <2> DEFINE r == Send(w, p)
  <2>1. Choose(w, i) = r
    BY <1>1 DEF Choose
  <2>2. p \in Procs /\ p.op = "write" /\ p.gen = g /\ p.idx = i
    <3>1. i \in Nat /\ "write" \in Ops \ {"poll"}
      BY <1>0 DEF Ops
    <3> QED BY <1>0, <3>1, ProcIs
  <2> HIDE DEF p
  <2>3. /\ Sized(r) /\ r.gatt = w.gatt /\ r.poll = w.poll /\ r.phase = w.phase
        /\ \/ r.att = Append(w.att, p) /\ r.broken = w.broken
           \/ r.att = w.att /\ r.broken = TRUE
    BY <2>2, SendDoes
  <2> HIDE DEF r
  <2>4. CASE r.att = Append(w.att, p) /\ r.broken = w.broken
    <3>1. \/ Excused(w)
          \/ \A j \in 1 .. i - 1 : Wants(w, j) => Settled(g, w, 2, j, Len(w.att) + 1)
      BY DEF Settled
    <3>2. 2 <= Len(w.att) + 1
      BY <1>0
    <3>3. Chained(g, r, 2, 0)
      BY SMTT(30), <1>0, <2>2, <2>3, <2>4, <3>1, <3>2, Extended DEF OfReports
    <3>4. Len(r.att) >= 1
      BY <1>0, <2>2, <2>4, AppendSeq
    <3> QED BY <2>1, <2>3, <3>3, <3>4
  <2>5. CASE r.att = w.att /\ r.broken = TRUE
    <3>1. WFull(w) => WFull(r)
      BY <2>3 DEF WFull
    <3>2. \A j : Covered(w, j) => Covered(r, j)
      BY <2>3 DEF Covered
    <3>3. Chained(g, r, 2, 0)
      BY SMTT(30), <1>0, <2>3, <2>5, <3>1, <3>2, Grown
    <3> QED BY <2>1, <2>3, <2>5, <3>3
  <2> QED BY <2>3, <2>4, <2>5
<1>2. CASE w.gatt.ref[i] # "output" /\ ~(cccd # 0 /\ layout[reports[i]].notify)
  <2> DEFINE v == AddPoll(w, i)
  <2>1. Choose(w, i) = SubscribeReport(v, i + 1)
    BY <1>2 DEF Choose
  <2>2. /\ Sized(v) /\ v.gatt = w.gatt /\ v.att = w.att /\ v.phase = w.phase
        /\ v.broken = w.broken
        /\ \A j \in 1 .. Len(reports) : Covered(w, j) => Covered(v, j)
        /\ WFull(w) => WFull(v)
        /\ Covered(v, i) \/ WFull(v)
    BY AddPollDoes
  <2> HIDE DEF v
  <2>3. Chained(g, v, 2, 0)
    BY <1>0, <2>2, Grown
  <2>4. \/ Excused(v)
        \/ \A j \in 1 .. i : Wants(v, j) => Covered(v, j)
    <3>1. ASSUME ~Excused(v), NEW j \in 1 .. i, Wants(v, j) PROVE Covered(v, j)
      <4>1. ~Excused(w) /\ Wants(w, j)
        BY <2>2, <3>1 DEF Excused, Wants
      <4>2. CASE j = i
        BY <2>2, <3>1, <4>2 DEF Excused
      <4>3. CASE j # i
        <5>1. j \in 1 .. i - 1 /\ j \in 1 .. Len(reports)
          BY <1>0, <4>3
        <5> QED BY <5>1, <4>1, <2>2
      <4> QED BY <4>2, <4>3
    <3> QED BY <3>1
  <2>5. /\ i + 1 \in 1 .. Len(v.gatt.reports) + 1
        /\ \/ Excused(v)
           \/ /\ \A j \in 1 .. i + 1 - 1 : Wants(v, j) => Settled(g, v, 2, j, Len(v.att) + 1)
              /\ i + 1 = Len(v.gatt.reports) + 1
                    => \A j \in 1 .. Len(v.gatt.reports) : Wants(v, j) => Covered(v, j)
    BY <1>0, <2>2, <2>4 DEF Settled
  <2> QED BY SMTT(30), <2>1, <2>2, <2>3, <2>5, SubscribeKeeps
<1>3. CASE w.gatt.ref[i] = "output"
  <2>1. Choose(w, i) = SubscribeReport(w, i + 1)
    BY <1>3 DEF Choose
  <2>2. Excused(w) \/ ~Wants(w, i) \/ Settled(g, w, 2, i, Len(w.att) + 1)
    BY <1>3 DEF Chained, Following, Skipped
  <2>3. Chained(g, w, 2, 0)
    <3>1. w.broken \/ WFull(w) \/ ~Wants(w, i) \/ Covered(w, i)
          \/ Settled(g, w, 2, i, Len(w.att) + 1)
      BY <2>2 DEF Excused
    <3> QED BY <1>0, <3>1, Grown
  <2>4. ASSUME ~Excused(w), i = Len(reports) PROVE ~Wants(w, i)
    <3>1. PICK h \in OutputRefs : reports[i] < h
      BY <1>3 DEF Chained
    <3>2. h \in 1 .. SvcEnd /\ RefType(h) = "output" /\ h \in Int /\ SvcEnd \in Nat
      BY BleGattAssumption DEF OutputRefs, RefsOf, SvcEnd
    <3>3. reports[i] \in Values
      BY DEF Chained, Scanned
    <3>4. ASSUME NEW u \in Values PROVE u <= reports[i]
      <4>1. u \in 1 .. SvcEnd
        BY DEF Values
      <4>2. Len(reports) # MAX_REPORTS
        BY <2>4 DEF Excused, WFull
      <4>3. PICK j \in 1 .. Len(reports) : reports[j] = u
        BY <3>2, <4>1, <4>2 DEF Chained, Scanned
      <4>4. j < i => reports[j] < reports[i]
        BY <2>4 DEF Chained, Scanned
      <4> QED BY <1>0, <2>4, <4>3, <4>4
    <3>5. Owner(h) = reports[i]
      BY <1>0, <3>1, <3>2, <3>3, <3>4, LastOwner
    <3>6. ~layout[reports[i]].input
      BY <3>2, <3>5 DEF RefType
    <3> QED BY <3>6 DEF Wants, Wanted, Inputs
  <2>5. /\ i + 1 \in 1 .. Len(reports) + 1
        /\ \/ Excused(w)
           \/ /\ \A j \in 1 .. i + 1 - 1 : Wants(w, j) => Settled(g, w, 2, j, Len(w.att) + 1)
              /\ i + 1 = Len(reports) + 1
                    => \A j \in 1 .. Len(reports) : Wants(w, j) => Covered(w, j)
    <3>1. \A j \in 1 .. i : j = i \/ j \in 1 .. i - 1
      BY <1>0
    <3>2. \/ Excused(w)
          \/ \A j \in 1 .. i : Wants(w, j) => Settled(g, w, 2, j, Len(w.att) + 1)
      BY <2>2, <3>1 DEF Settled
    <3>3. \/ Excused(w) \/ i # Len(reports)
          \/ \A j \in 1 .. Len(reports) : Wants(w, j) => Covered(w, j)
      BY <2>4, <3>1
    <3> QED BY <1>0, <3>2, <3>3
  <2> QED BY <2>1, <2>3, <2>5, SubscribeKeeps
<1> QED BY <1>1, <1>2, <1>3

\* What the discovery does not look at changes, or a search failed.
LEMMA Unmoved ==
    ASSUME NEW g \in Gens, NEW w, NEW r, Sized(w), Sized(r), Discovery(g, w),
           r.gatt = w.gatt, r.phase = w.phase, w.broken => r.broken,
           r.poll.handles = w.poll.handles, r.att = w.att
    PROVE  Discovery(g, r)
<1>1. \A k : IsCurrent(g, r, k) <=> IsCurrent(g, w, k)
  BY DEF IsCurrent
<1>2. CASE Silent(g, w)
  BY <1>1, <1>2 DEF Silent, Discovery
<1>3. CASE Listing(g, w)
  <2>1. Listing(g, r)
    BY <1>1, <1>3 DEF Listing, Scanned
  <2> QED BY <2>1 DEF Discovery
<1>4. CASE Chained(g, w, 1, 0)
  <2>1. \A i : Covered(w, i) => Covered(r, i)
    BY DEF Covered
  <2>2. WFull(w) => WFull(r)
    BY DEF WFull
  <2>3. 1 \in {1, 2} /\ 0 \in Nat
    OBVIOUS
  <2>4. Chained(g, r, 1, 0)
    BY <1>4, <2>1, <2>2, <2>3, Grown
  <2> QED BY <2>4 DEF Discovery
<1> QED BY <1>2, <1>3, <1>4 DEF Discovery

\* An answer to another discovery, a search that ends, or a poll, is removed.
LEMMA Passed ==
    ASSUME NEW g \in Gens, NEW w, Sized(w), Len(w.att) >= 1, Discovery(g, w),
           w.att[1].gen # g \/ w.att[1].op \notin {"ref", "write"}
    PROVE  Sized(Done(w)) /\ Discovery(g, Done(w))
<1> DEFINE n == Len(w.att)
<1> DEFINE r == Done(w)
<1>1. /\ Sized(r) /\ r.gatt = w.gatt /\ r.poll = w.poll
      /\ r.phase = w.phase /\ r.broken = w.broken /\ Len(r.att) = n - 1
      /\ \A k \in 1 .. n - 1 : r.att[k] = w.att[k + 1]
  BY DoneDoes
<1> HIDE DEF r
<1>2. n \in Nat /\ n >= 1
  BY WorkFields
<1>3. \A k \in 1 .. n - 1 : k + 1 \in 1 .. n /\ (IsCurrent(g, r, k) <=> IsCurrent(g, w, k + 1))
  BY <1>1, <1>2 DEF IsCurrent
<1>4. CASE Silent(g, w)
  <2>1. \A k \in 1 .. n - 1 : ~IsCurrent(g, r, k)
    BY <1>3, <1>4 DEF Silent
  <2> QED BY <1>1, <1>4, <2>1 DEF Silent, Discovery, r
<1>5. CASE Listing(g, w)
  <2>1. ASSUME NEW k \in 1 .. n - 1, IsCurrent(g, r, k)
        PROVE  /\ \A m \in 1 .. n - 1 : IsCurrent(g, r, m) => m = k
               /\ \/ r.att[k].op = "svcs" /\ r.gatt.reports = <<>>
                  \/ r.att[k].op = "chrs" /\ r.att[k].at <= SvcEnd /\ Scanned(r, r.att[k].at)
    <3>1. /\ \A m \in 1 .. n : IsCurrent(g, w, m) => m = k + 1
          /\ \/ r.att[k].op = "svcs" /\ w.gatt.reports = <<>>
             \/ r.att[k].op = "chrs" /\ r.att[k].at <= SvcEnd /\ Scanned(w, r.att[k].at)
      BY <1>1, <1>3, <1>5, <2>1 DEF Listing
    <3>2. \A m \in 1 .. n - 1 : m + 1 = k + 1 => m = k
      BY <1>2
    <3>3. \A a : Scanned(w, a) => Scanned(r, a)
      BY <1>1 DEF Scanned
    <3> QED BY <1>1, <1>3, <3>1, <3>2, <3>3
  <2>2. Listing(g, r)
    BY <1>1, <1>5, <2>1 DEF Listing
  <2> QED BY <1>1, <2>2 DEF Discovery, r
<1>6. CASE Chained(g, w, 1, 0)
  <2>1. \A i : ~Is(g, w, 1, "write", i) /\ ~Is(g, w, 1, "ref", i)
    BY DEF Is
  <2>2. Chained(g, w, 2, 0)
    BY <1>6, <2>1, Popped
  <2>3. Chained(g, r, 1, 0)
    BY <2>2, Shifted DEF r
  <2> QED BY <1>1, <2>3 DEF Discovery, r
<1> QED BY <1>1, <1>4, <1>5, <1>6 DEF Discovery, r

\* A search of another discovery goes on.
LEMMA Replaced ==
    ASSUME NEW g \in Gens, NEW w, NEW r, Sized(w), Sized(r), Len(w.att) >= 1, Discovery(g, w),
           w.att[1].gen # g, NEW q \in Procs, q.gen # g, q.op \in {"svcs", "chrs", "dscs"},
           r.gatt = w.gatt, r.poll = w.poll, r.phase = w.phase, r.broken = w.broken,
           r.att = [w.att EXCEPT ![1] = q]
    PROVE  Discovery(g, r)
<1> DEFINE n == Len(w.att)
<1>1. /\ n \in Nat /\ n >= 1 /\ Len(r.att) = n /\ r.att[1] = q
      /\ \A k \in 2 .. n : r.att[k] = w.att[k]
  BY WorkFields
<1>2. /\ ~IsCurrent(g, w, 1) /\ ~IsCurrent(g, r, 1)
      /\ \A k \in 2 .. n : IsCurrent(g, r, k) <=> IsCurrent(g, w, k)
      /\ \A k \in 1 .. n : k = 1 \/ k \in 2 .. n
  BY <1>1 DEF IsCurrent
<1>3. CASE Silent(g, w)
  BY <1>1, <1>2, <1>3 DEF Silent, Discovery
<1>4. CASE Listing(g, w)
  <2>1. \A k \in 1 .. n : IsCurrent(g, r, k) => k \in 2 .. n /\ IsCurrent(g, w, k)
    BY <1>2
  <2>2. Listing(g, r)
    BY <1>1, <1>4, <2>1 DEF Listing, Scanned
  <2> QED BY <2>2 DEF Discovery
<1>5. CASE Chained(g, w, 1, 0)
  <2>1. \A i : ~Is(g, w, 1, "write", i) /\ ~Is(g, w, 1, "ref", i)
    BY DEF Is
  <2>2. Chained(g, w, 2, 0)
    BY <1>5, <2>1, Popped
  <2>3. Chained(g, r, 1, 0)
    BY <2>2, Headed
  <2> QED BY <2>3 DEF Discovery
<1> QED BY <1>3, <1>4, <1>5 DEF Discovery

\* The attributes of a service.
LEMMA ServiceFacts ==
    ASSUME layout \in Layouts
    PROVE  /\ SvcEnd \in Nat
           /\ Values \subseteq 1 .. SvcEnd /\ Wanted \subseteq Values
           /\ InputRefs \subseteq 1 .. SvcEnd /\ OutputRefs \subseteq 1 .. SvcEnd
           /\ \A h \in 1 .. SvcEnd : IsKind(h, "ref") => h \in InputRefs \cup OutputRefs
<1>1. SvcEnd \in Nat
  BY BleGattAssumption DEF SvcEnd
<1>2. \A h : RefType(h) \in {"input", "output"}
  BY DEF RefType
<1> QED BY <1>1, <1>2 DEF Values, Wanted, Inputs, InputRefs, OutputRefs, RefsOf

\* What the discovery owes to the search at the head.
LEMMA SearchHeads ==
    ASSUME NEW g \in Gens, NEW w, Sized(w), Len(w.att) >= 1, Chained(g, w, 1, 0),
           NEW i, Is(g, w, 1, "dscs", i), NEW a, a = w.att[1].at
    PROVE  /\ Chained(g, w, 2, 0) /\ i \in 1 .. Len(w.gatt.reports)
           /\ a \in w.gatt.reports[i] .. SvcEnd
           /\ \/ Excused(w)
              \/ /\ \A j \in 1 .. i - 1 : Wants(w, j) => Covered(w, j)
                 /\ \A h \in InputRefs :
                       Wants(w, i) /\ w.gatt.reports[i] < h /\ h <= a
                          => \/ Settled(g, w, 2, i, Len(w.att) + 1)
                             \/ Asked(g, w, 2, i, Len(w.att) + 1)
<1> DEFINE n == Len(w.att)
<1>1. /\ n \in Nat /\ n >= 1 /\ 1 \in 1 .. n /\ IsCurrent(g, w, 1)
      /\ w.att[1].op = "dscs" /\ w.att[1].idx = i
  BY WorkFields DEF IsCurrent, Is
<1>2. Chained(g, w, 2, 0)
  <2>1. \A j : ~Is(g, w, 1, "write", j) /\ ~Is(g, w, 1, "ref", j)
    BY <1>1 DEF Is
  <2> QED BY <2>1, Popped
<1>3. i \in 1 .. Len(w.gatt.reports) /\ a \in w.gatt.reports[i] .. SvcEnd
  BY <1>1 DEF Chained, Placed
<1>4. ASSUME ~Excused(w), NEW j \in 1 .. i - 1, Wants(w, j) PROVE Covered(w, j)
  <2>1. Settled(g, w, 1, j, 1)
    BY <1>1, <1>4 DEF Chained, Following, Behind
  <2> QED BY <2>1 DEF Settled
<1>5. ASSUME ~Excused(w), NEW h \in InputRefs, Wants(w, i), w.gatt.reports[i] < h, h <= a
      PROVE  Settled(g, w, 2, i, n + 1) \/ Asked(g, w, 2, i, n + 1)
  <2>1. Settled(g, w, 1, i, n + 1) \/ Asked(g, w, 1, i, n + 1)
    <3>1. i # 0 /\ i \in 1 .. Len(w.gatt.reports)
      BY <1>3
    <3> QED BY <1>1, <1>5, <3>1 DEF Chained, Following, Searched
  <2>2. \A m \in 1 .. n + 1 - 1 : m = 1 \/ m \in 2 .. n + 1 - 1
    BY <1>1
  <2>3. ~Is(g, w, 1, "write", i) /\ ~Is(g, w, 1, "ref", i)
    BY <1>1 DEF Is
  <2> QED BY <2>1, <2>2, <2>3 DEF Settled, Asked
<1> QED BY <1>2, <1>3, <1>4, <1>5

\* Every other procedure moves up.
LEMMA MovedUp ==
    ASSUME NEW g, NEW w, Sized(w), Len(w.att) >= 1, NEW i
    PROVE  LET r == Done(w)
           IN  /\ Settled(g, w, 2, i, Len(w.att) + 1) => Settled(g, r, 1, i, Len(r.att) + 1)
               /\ Asked(g, w, 2, i, Len(w.att) + 1) => Asked(g, r, 1, i, Len(r.att) + 1)
<1> DEFINE n == Len(w.att)
<1> DEFINE r == Done(w)
<1>1. /\ r.gatt = w.gatt /\ r.poll = w.poll /\ Len(r.att) = n - 1
      /\ \A k \in 1 .. n - 1 : r.att[k] = w.att[k + 1]
      /\ n \in Nat /\ n >= 1
  BY DoneDoes, WorkFields
<1> HIDE DEF r
<1>2. ASSUME NEW m \in 2 .. n + 1 - 1
      PROVE  /\ m - 1 \in 1 .. Len(r.att) + 1 - 1 /\ r.att[m - 1] = w.att[m]
             /\ \A op : Is(g, w, m, op, i) => Is(g, r, m - 1, op, i)
  <2>1. m - 1 \in 1 .. n - 1 /\ m - 1 + 1 = m
    BY <1>1
  <2> QED BY <1>1, <2>1 DEF Is
<1>3. Covered(w, i) => Covered(r, i)
  BY <1>1 DEF Covered
<1>4. Settled(g, w, 2, i, n + 1) => Settled(g, r, 1, i, Len(r.att) + 1)
  BY <1>2, <1>3 DEF Settled
<1>5. Asked(g, w, 2, i, n + 1) => Asked(g, r, 1, i, Len(r.att) + 1)
  BY <1>2 DEF Asked
<1> QED BY <1>4, <1>5 DEF r

\* A descriptor of the search at the head is a CCCD, or a Report Reference to read.
LEMMA OnDscKeeps ==
    ASSUME layout \in Layouts, s_disc_gen \in Gens, NEW w, Sized(w), Len(w.att) >= 1,
           Chained(s_disc_gen, w, 1, 0), NEW i, Is(s_disc_gen, w, 1, "dscs", i),
           NEW h, h = w.att[1].at + 1, h <= SvcEnd
    PROVE  LET r == OnDsc(w, h, i)
           IN  /\ Sized(r) /\ Len(r.att) >= 1 /\ r.att[1] = w.att[1]
               /\ Chained(s_disc_gen, r, 2, 0)
               /\ i \in 1 .. Len(r.gatt.reports) /\ h \in r.gatt.reports[i] .. SvcEnd
               /\ \/ Excused(r)
                  \/ /\ \A j \in 1 .. i - 1 : Wants(r, j) => Covered(r, j)
                     /\ \A d \in InputRefs :
                           Wants(r, i) /\ r.gatt.reports[i] < d /\ d <= h
                              => \/ Settled(s_disc_gen, r, 2, i, Len(r.att) + 1)
                                 \/ Asked(s_disc_gen, r, 2, i, Len(r.att) + 1)
<1> DEFINE g == s_disc_gen
<1> DEFINE reports == w.gatt.reports
<1> DEFINE n == Len(w.att)
<1> DEFINE a == w.att[1].at
<1>0. /\ n \in Nat /\ n >= 1 /\ Len(reports) \in Nat
      /\ \A j \in 1 .. Len(reports) : reports[j] \in Nat
      /\ w.att \in Seq(Procs) /\ w.att[1] \in Procs
      /\ a \in Nat /\ h = a + 1
  <2>1. w.att[1] \in Procs /\ n \in Nat /\ n >= 1
    BY WorkFields
  <2> QED BY <2>1, WorkFields DEF Procs
<1>1. /\ Chained(g, w, 2, 0) /\ i \in 1 .. Len(reports) /\ a \in reports[i] .. SvcEnd
      /\ \/ Excused(w)
         \/ /\ \A j \in 1 .. i - 1 : Wants(w, j) => Covered(w, j)
            /\ \A d \in InputRefs :
                  Wants(w, i) /\ reports[i] < d /\ d <= a
                     => Settled(g, w, 2, i, n + 1) \/ Asked(g, w, 2, i, n + 1)
  BY SearchHeads
<1>2. /\ SvcEnd \in Nat /\ h \in 1 .. SvcEnd /\ reports[i] < h /\ h \in reports[i] .. SvcEnd
      /\ h \in Nat /\ i \in Nat /\ a \in Nat
  <2>1. SvcEnd \in Nat /\ reports[i] \in Nat /\ i \in Nat
    BY <1>0, <1>1, ServiceFacts
  <2>2. a \in Nat /\ reports[i] <= a
    BY <1>1, <2>1
  <2> QED BY SMTT(30), <2>1, <2>2
<1>3. InputRefs \subseteq Int /\ \A d \in InputRefs : d <= h => d = h \/ d <= a
  BY <1>2, ServiceFacts
<1>4. CASE IsKind(h, "ref")
  <2> DEFINE v == [w EXCEPT !.gatt.waiting = TRUE]
  <2> DEFINE p == Proc("ref", i, h)
  <2> DEFINE r == Send(v, p)
  <2>1. OnDsc(w, h, i) = r
    BY <1>4 DEF OnDsc, IsKind
  <2>2. /\ v \in Works /\ v.poll = w.poll /\ v.att = w.att /\ v.phase = w.phase
        /\ v.broken = w.broken /\ v.gatt.reports = reports /\ v.gatt.ref = w.gatt.ref
        /\ v.gatt.cccd = w.gatt.cccd /\ v.gatt.subs = w.gatt.subs
    BY DEF Sized, Works, Gatts
  <2> HIDE DEF v
  <2>3. Sized(v)
    BY <2>2 DEF Sized
  <2>4. /\ \A j : Covered(w, j) <=> Covered(v, j)
        /\ WFull(w) <=> WFull(v)
        /\ \A j : Wants(w, j) <=> Wants(v, j)
        /\ Excused(w) <=> Excused(v)
    BY <2>2 DEF Covered, WFull, Wants, Excused
  <2>5. Chained(g, v, 2, 0)
    BY <1>0, <1>1, <2>2, <2>3, <2>4, Grown
  <2>6. \A j, k : /\ Settled(g, w, 2, j, k) <=> Settled(g, v, 2, j, k)
                  /\ Asked(g, w, 2, j, k) <=> Asked(g, v, 2, j, k)
    BY <2>2, <2>4 DEF Settled, Asked, Is
  <2>7. p \in Procs /\ p.op = "ref" /\ p.gen = g /\ p.idx = i /\ p.at = h
    <3>1. "ref" \in Ops \ {"poll"}
      BY DEF Ops
    <3> QED BY <3>1, <1>2, ProcIs
  <2> HIDE DEF p
  <2>8. /\ Sized(r) /\ r.gatt = v.gatt /\ r.poll = v.poll /\ r.phase = v.phase
        /\ \/ r.att = Append(v.att, p) /\ r.broken = v.broken
           \/ r.att = v.att /\ r.broken = TRUE
    BY <2>3, <2>7, SendDoes
  <2> HIDE DEF r
  <2>9. /\ \A j : Covered(w, j) <=> Covered(r, j)
        /\ \A j : Wants(w, j) <=> Wants(r, j)
        /\ Excused(w) => Excused(r)
    BY <2>2, <2>4, <2>8 DEF Covered, Wants, Excused, WFull
  <2>10. h \in InputRefs \cup OutputRefs
    BY <1>2, <1>4, ServiceFacts
  <2>11. CASE r.att = Append(v.att, p) /\ r.broken = v.broken
    <3>1. /\ Len(r.att) = n + 1 /\ r.att[n + 1] = p
          /\ \A k \in 1 .. n : r.att[k] = w.att[k]
      BY <1>0, <2>2, <2>7, <2>11, AppendSeq
    <3>2. ASSUME ~Excused(w), Wants(w, i), h \in OutputRefs
          PROVE  Settled(g, w, 2, i, n + 1) \/ Asked(g, w, 2, i, n + 1)
      <4>1. reports[i] \in Inputs \ Misled
        BY <3>2 DEF Wants, Wanted
      <4>2. PICK d \in InputRefs : d \in reports[i] + 1 .. h - 1
        BY <1>2, <3>2, <4>1 DEF Misled, InputRefs, OutputRefs
      <4>3. reports[i] < d /\ d <= a
        BY SMTT(30), <1>0, <1>1, <1>2, <4>2
      <4> QED BY <1>1, <3>2, <4>3
    <3>3. \/ Excused(v)
          \/ /\ \A j \in 1 .. i - 1 : Wants(v, j) => Settled(g, v, 2, j, n + 1)
             /\ Wants(v, i) /\ h \in OutputRefs
                   => Settled(g, v, 2, i, n + 1) \/ Asked(g, v, 2, i, n + 1)
      <4>1. \A j : Covered(w, j) => Settled(g, w, 2, j, n + 1)
        BY DEF Settled
      <4> QED BY <1>1, <2>4, <2>6, <3>2, <4>1
    <3>4. Chained(g, r, 2, 0)
      <4>1. 2 <= n + 1 /\ 2 \in {1, 2} /\ 0 \in Nat /\ "ref" \in OfReports
        BY <1>0 DEF OfReports
      <4>2. p.op # "dscs" /\ p.op # "write"
        BY <2>7
      <4>3. Len(v.att) = n /\ p.idx \in 1 .. Len(v.gatt.reports) /\ v.gatt.reports[p.idx] < p.at
        BY <1>1, <1>2, <2>2, <2>7
      <4>4. \/ Excused(v)
            \/ /\ \A j \in 1 .. p.idx - 1 : Wants(v, j) => Settled(g, v, 2, j, Len(v.att) + 1)
               /\ p.op = "ref" /\ Wants(v, p.idx) /\ p.at \in OutputRefs
                     => \/ Settled(g, v, 2, p.idx, Len(v.att) + 1)
                        \/ Asked(g, v, 2, p.idx, Len(v.att) + 1)
        BY <2>7, <3>3, <4>3
      <4>5. p.op \in OfReports /\ p.at \in InputRefs \cup OutputRefs
        BY <2>7, <2>10, <4>1
      <4> QED BY <2>3, <2>5, <2>7, <2>8, <2>11, <4>1, <4>2, <4>3, <4>4, <4>5, Extended
    <3>5. ASSUME NEW j
          PROVE  /\ Settled(g, w, 2, j, n + 1) => Settled(g, r, 2, j, n + 2)
                 /\ Asked(g, w, 2, j, n + 1) => Asked(g, r, 2, j, n + 2)
      <4>1. \A m \in 2 .. n + 1 - 1 : m \in 2 .. n + 2 - 1 /\ m \in 1 .. n
        BY <1>0
      <4>2. Settled(g, w, 2, j, n + 1) => Settled(g, r, 2, j, n + 2)
        BY <2>9, <3>1, <4>1 DEF Settled, Is
      <4>3. Asked(g, w, 2, j, n + 1) => Asked(g, r, 2, j, n + 2)
        BY <3>1, <4>1 DEF Asked, Is
      <4> QED BY <4>2, <4>3
    <3>6. ASSUME h \in InputRefs PROVE Asked(g, r, 2, i, n + 2)
      <4>1. n + 1 \in 2 .. n + 2 - 1
        BY <1>0
      <4> QED BY <2>7, <3>1, <3>6, <4>1 DEF Asked, Is
    <3>7. \/ Excused(r)
          \/ /\ \A j \in 1 .. i - 1 : Wants(r, j) => Covered(r, j)
             /\ \A d \in InputRefs :
                   Wants(r, i) /\ reports[i] < d /\ d <= h
                      => Settled(g, r, 2, i, n + 2) \/ Asked(g, r, 2, i, n + 2)
      BY <1>1, <1>3, <2>9, <3>5, <3>6
    <3>8. Len(r.att) + 1 = n + 2 /\ Len(r.att) >= 1 /\ r.att[1] = w.att[1]
      BY <1>0, <3>1
    <3> QED BY <1>1, <1>2, <2>1, <2>2, <2>8, <3>4, <3>7, <3>8
  <2>12. CASE r.att = v.att /\ r.broken = TRUE
    <3>1. Excused(r)
      BY <2>12 DEF Excused
    <3>2. /\ WFull(v) => WFull(r)
          /\ \A j : Covered(v, j) => Covered(r, j)
      BY <2>8 DEF WFull, Covered
    <3>3. Chained(g, r, 2, 0)
      BY <2>3, <2>5, <2>8, <2>12, <3>2, Grown
    <3> QED BY <1>0, <1>1, <1>2, <2>1, <2>2, <2>8, <2>12, <3>1, <3>3
  <2> QED BY <2>8, <2>11, <2>12
<1>5. CASE IsKind(h, "cccd")
  <2> DEFINE r == [w EXCEPT !.gatt.cccd[i] = h]
  <2>1. OnDsc(w, h, i) = r
    BY <1>5 DEF OnDsc, IsKind
  <2>2. [w.gatt.cccd EXCEPT ![i] = h] \in Seq(Nat) /\ Len([w.gatt.cccd EXCEPT ![i] = h]) = Len(reports)
    <3>1. i \in Int
      BY <1>2
    <3> QED BY <1>2, <3>1, CccdSet
  <2>3. /\ r \in Works /\ r.poll = w.poll /\ r.att = w.att /\ r.phase = w.phase
        /\ r.broken = w.broken /\ r.gatt.reports = reports /\ r.gatt.ref = w.gatt.ref
        /\ Len(r.gatt.cccd) = Len(reports) /\ r.gatt.subs = w.gatt.subs
    BY <2>2 DEF Sized, Works, Gatts
  <2> HIDE DEF r
  <2>4. Sized(r)
    BY <2>3 DEF Sized
  <2>5. /\ \A j : Covered(w, j) <=> Covered(r, j)
        /\ WFull(w) <=> WFull(r)
        /\ \A j : Wants(w, j) <=> Wants(r, j)
        /\ Excused(w) <=> Excused(r)
    BY <2>3 DEF Covered, WFull, Wants, Excused
  <2>6. Chained(g, r, 2, 0)
    BY <1>0, <1>1, <2>3, <2>4, <2>5, Grown
  <2>7. \A j, k : /\ Settled(g, w, 2, j, k) <=> Settled(g, r, 2, j, k)
                  /\ Asked(g, w, 2, j, k) <=> Asked(g, r, 2, j, k)
    BY <2>3, <2>5 DEF Settled, Asked, Is
  <2>8. h \notin InputRefs
    BY <1>5 DEF InputRefs, RefsOf, IsKind
  <2> QED BY <1>0, <1>1, <1>2, <1>3, <2>1, <2>3, <2>4, <2>5, <2>6, <2>7, <2>8
<1>6. CASE ~IsKind(h, "ref") /\ ~IsKind(h, "cccd")
  <2>1. OnDsc(w, h, i) = w
    BY <1>6 DEF OnDsc
  <2>2. h \notin InputRefs
    BY <1>6 DEF InputRefs, RefsOf
  <2> QED BY <1>0, <1>1, <1>2, <1>3, <2>1, <2>2
<1> QED BY <1>4, <1>5, <1>6

\* A search for descriptors belongs to a discovery whose reports are known.
LEMMA InChain ==
    ASSUME NEW g, NEW w, Discovery(g, w), Len(w.att) \in Nat, Len(w.att) >= 1,
           w.att[1].gen = g, w.att[1].op \in OfReports
    PROVE  Chained(g, w, 1, 0)
<1>1. 1 \in 1 .. Len(w.att) /\ IsCurrent(g, w, 1)
  BY DEF IsCurrent, OfReports
<1>2. ~Silent(g, w) /\ ~Listing(g, w)
  BY <1>1 DEF Silent, Listing, OfReports
<1> QED BY <1>2 DEF Discovery

\* A search goes on with its next attribute.
LEMMA ProcMoves ==
    ASSUME NEW p \in Procs, NEW h \in Nat, NEW u \in Nat
    PROVE  LET q == [p EXCEPT !.at = h, !.upto = u]
           IN  q \in Procs /\ q.op = p.op /\ q.gen = p.gen /\ q.idx = p.idx /\ q.at = h
BY DEF Procs

\* Another procedure is at the head.
LEMMA HeadSet ==
    ASSUME NEW s \in Seq(Procs), Len(s) >= 1, NEW q \in Procs
    PROVE  LET t == [s EXCEPT ![1] = q] IN t \in Seq(Procs) /\ Len(t) = Len(s)
<1> DEFINE t == [s EXCEPT ![1] = q]
<1>1. Len(s) \in Nat /\ DOMAIN t = 1 .. Len(s) /\ \A k \in 1 .. Len(s) : t[k] \in Procs
  OBVIOUS
<1>2. t \in [1 .. Len(s) -> Procs]
  BY <1>1
<1> HIDE DEF t
<1>3. t \in Seq(Procs) /\ Len(t) = Len(s)
  BY <1>1, <1>2
<1> QED BY <1>3 DEF t

\* Only the procedures change.
LEMMA AttSet ==
    ASSUME NEW w, Sized(w), NEW s \in Seq(Procs), Len(s) <= MAX_PROCS
    PROVE  LET r == [w EXCEPT !.att = s]
           IN  /\ Sized(r) /\ r.gatt = w.gatt /\ r.poll = w.poll /\ r.polling = w.polling
               /\ r.phase = w.phase /\ r.disturbed = w.disturbed /\ r.broken = w.broken
               /\ r.att = s
<1> DEFINE r == [w EXCEPT !.att = s]
<1>1. /\ r \in Works /\ r.gatt = w.gatt /\ r.poll = w.poll /\ r.polling = w.polling
      /\ r.phase = w.phase /\ r.disturbed = w.disturbed /\ r.broken = w.broken
      /\ r.att = s
  BY DEF Sized, Works
<1> HIDE DEF r
<1>2. Sized(r)
  BY <1>1 DEF Sized
<1> QED BY <1>1, <1>2 DEF r

\* The search at the head goes on in the response under way.
LEMMA SearchGoesOn ==
    ASSUME layout \in Layouts, s_disc_gen \in Gens, NEW w, Sized(w), Len(w.att) >= 1,
           Discovery(s_disc_gen, w), w.att[1].op = "dscs",
           NEW h, h = w.att[1].at + 1, h <= SvcEnd, NEW r, Sized(r), NEW f, Sized(f),
           NEW q \in Procs, q.op = "dscs", q.gen = w.att[1].gen, q.idx = w.att[1].idx, q.at = h,
           w.att[1].gen = s_disc_gen => r = OnDsc(w, h, w.att[1].idx),
           w.att[1].gen # s_disc_gen => r = w,
           f.gatt = r.gatt, f.poll = r.poll, f.phase = r.phase, f.broken = r.broken,
           f.att = [r.att EXCEPT ![1] = q]
    PROVE  Discovery(s_disc_gen, f)
<1> DEFINE g == s_disc_gen
<1>0. Len(w.att) \in Nat
  BY WorkFields
<1>1. CASE w.att[1].gen = g
  <2>1. Chained(g, w, 1, 0)
    BY <1>0, <1>1, InChain DEF OfReports
  <2>2. Is(g, w, 1, "dscs", q.idx)
    BY <1>1 DEF Is
  <2>3. r = OnDsc(w, h, q.idx)
    BY <1>1
  <2>4. /\ Len(r.att) >= 1 /\ Chained(g, r, 2, 0)
        /\ q.idx \in 1 .. Len(r.gatt.reports) /\ h \in r.gatt.reports[q.idx] .. SvcEnd
        /\ \/ Excused(r)
           \/ /\ \A j \in 1 .. q.idx - 1 : Wants(r, j) => Covered(r, j)
              /\ \A x \in InputRefs :
                    Wants(r, q.idx) /\ r.gatt.reports[q.idx] < x /\ x <= h
                       => \/ Settled(g, r, 2, q.idx, Len(r.att) + 1)
                          \/ Asked(g, r, 2, q.idx, Len(r.att) + 1)
    BY <2>1, <2>2, <2>3, OnDscKeeps
  <2>5. Chained(g, f, 1, 0)
    <3>1. /\ q.op \in {"svcs", "chrs", "dscs"} /\ q.at \in r.gatt.reports[q.idx] .. SvcEnd
          /\ \/ Excused(r)
             \/ /\ \A j \in 1 .. q.idx - 1 : Wants(r, j) => Covered(r, j)
                /\ \A x \in InputRefs :
                      Wants(r, q.idx) /\ r.gatt.reports[q.idx] < x /\ x <= q.at
                         => \/ Settled(g, r, 2, q.idx, Len(r.att) + 1)
                            \/ Asked(g, r, 2, q.idx, Len(r.att) + 1)
      BY <2>4
    <3> QED BY <1>1, <2>4, <3>1, Headed
  <2> QED BY <2>5 DEF Discovery
<1>2. CASE w.att[1].gen # g
  BY <1>2, Replaced
<1> QED BY <1>1, <1>2

\* The search at the head waits for the next response behind the others.
LEMMA SearchWaits ==
    ASSUME layout \in Layouts, s_disc_gen \in Gens, NEW w, Sized(w), Len(w.att) >= 1,
           Discovery(s_disc_gen, w), w.att[1].op = "dscs",
           NEW h, h = w.att[1].at + 1, h <= SvcEnd, NEW r, Sized(r), NEW f, Sized(f),
           NEW q \in Procs, q.op = "dscs", q.gen = w.att[1].gen, q.idx = w.att[1].idx, q.at = h,
           w.att[1].gen = s_disc_gen => r = OnDsc(w, h, w.att[1].idx),
           w.att[1].gen # s_disc_gen => r = w,
           NEW d, d = Done(r),
           f.gatt = d.gatt, f.poll = d.poll, f.phase = d.phase, f.broken = d.broken,
           f.att = Append(d.att, q)
    PROVE  Discovery(s_disc_gen, f)
<1> DEFINE g == s_disc_gen
<1>0. Len(w.att) \in Nat
  BY WorkFields
<1>1. CASE w.att[1].gen = g
  <2>1. Chained(g, w, 1, 0)
    BY <1>0, <1>1, InChain DEF OfReports
  <2>2. Is(g, w, 1, "dscs", q.idx)
    BY <1>1 DEF Is
  <2>3. r = OnDsc(w, h, q.idx)
    BY <1>1
  <2>4. /\ Len(r.att) >= 1 /\ Chained(g, r, 2, 0)
        /\ q.idx \in 1 .. Len(r.gatt.reports) /\ h \in r.gatt.reports[q.idx] .. SvcEnd
        /\ \/ Excused(r)
           \/ /\ \A j \in 1 .. q.idx - 1 : Wants(r, j) => Covered(r, j)
              /\ \A x \in InputRefs :
                    Wants(r, q.idx) /\ r.gatt.reports[q.idx] < x /\ x <= h
                       => \/ Settled(g, r, 2, q.idx, Len(r.att) + 1)
                          \/ Asked(g, r, 2, q.idx, Len(r.att) + 1)
    BY <2>1, <2>2, <2>3, OnDscKeeps
  <2>5. /\ Sized(d) /\ d.gatt = r.gatt /\ d.poll = r.poll /\ d.phase = r.phase
        /\ d.broken = r.broken /\ Chained(g, d, 1, 0)
    BY <2>4, DoneDoes, Shifted
  <2>6. \A j : /\ Settled(g, r, 2, j, Len(r.att) + 1) => Settled(g, d, 1, j, Len(d.att) + 1)
               /\ Asked(g, r, 2, j, Len(r.att) + 1) => Asked(g, d, 1, j, Len(d.att) + 1)
    BY <2>4, MovedUp
  <2>7. /\ \A j : Covered(r, j) => Settled(g, d, 1, j, Len(d.att) + 1)
        /\ \A j : Wants(d, j) <=> Wants(r, j)
        /\ Excused(r) => Excused(d)
    BY <2>5 DEF Covered, Wants, Excused, WFull, Settled
  <2>8. \/ Excused(d)
        \/ /\ \A j \in 1 .. q.idx - 1 : Wants(d, j) => Settled(g, d, 1, j, Len(d.att) + 1)
           /\ \A x \in InputRefs :
                 Wants(d, q.idx) /\ d.gatt.reports[q.idx] < x /\ x <= q.at
                    => \/ Settled(g, d, 1, q.idx, Len(d.att) + 1)
                       \/ Asked(g, d, 1, q.idx, Len(d.att) + 1)
    BY <2>4, <2>5, <2>6, <2>7
  <2>9. /\ q.idx \in 1 .. Len(d.gatt.reports) /\ q.at \in d.gatt.reports[q.idx] .. SvcEnd
        /\ q.op \in OfReports /\ q.gen = g
    BY <1>1, <2>4, <2>5 DEF OfReports
  <2>10. 1 <= Len(d.att) + 1 /\ 1 \in {1, 2} /\ 0 \in Nat
    BY <2>5, WorkFields
  <2>11. Chained(g, f, 1, 0)
    BY <2>5, <2>8, <2>9, <2>10, Extended
  <2> QED BY <2>11 DEF Discovery
<1>2. CASE w.att[1].gen # g
  <2>1. Sized(d) /\ Discovery(g, d)
    BY <1>2, Passed
  <2> QED BY <1>2, <2>1, Ignored
<1> QED BY <1>1, <1>2

\* The end of a callback for the procedure at the head.
LEMMA Finished ==
    ASSUME s_disc_gen \in Gens, NEW r, Sized(r), Len(r.att) >= 1, Chained(s_disc_gen, r, 2, 0)
    PROVE  Sized(Done(r)) /\ Discovery(s_disc_gen, Done(r))
BY DoneDoes, Shifted DEF Discovery

\* What the discovery owes to the procedure at the head: the reports before its own are in
\* a list.
LEMMA HeadIsNext ==
    ASSUME NEW g, NEW w, Sized(w), Len(w.att) >= 1, Chained(g, w, 1, 0),
           w.att[1].gen = g, w.att[1].op \in OfReports, NEW i, i = w.att[1].idx
    PROVE  /\ i \in 1 .. Len(w.gatt.reports)
           /\ Excused(w) \/ \A j \in 1 .. i - 1 : Wants(w, j) => Covered(w, j)
<1>1. 1 \in 1 .. Len(w.att) /\ IsCurrent(g, w, 1)
  BY WorkFields DEF IsCurrent, OfReports
<1>2. i \in 1 .. Len(w.gatt.reports)
  BY <1>1 DEF Chained, Placed
<1>3. ASSUME ~Excused(w), NEW j \in 1 .. i - 1, Wants(w, j) PROVE Covered(w, j)
  <2>1. Settled(g, w, 1, j, 1)
    BY <1>1, <1>3 DEF Chained, Following, Behind
  <2> QED BY <2>1 DEF Settled
<1> QED BY <1>2, <1>3

\* The search for the descriptors of a report is over.
LEMMA SearchEnds ==
    ASSUME layout \in Layouts, s_disc_gen \in Gens, NEW w, Sized(w), Len(w.att) >= 1,
           Discovery(s_disc_gen, w), w.att[1].gen = s_disc_gen, w.att[1].op = "dscs",
           NEW r, r = Choose(w, w.att[1].idx)
    PROVE  Sized(Done(r)) /\ Discovery(s_disc_gen, Done(r))
<1> DEFINE g == s_disc_gen
<1> DEFINE i == w.att[1].idx
<1>1. Chained(g, w, 1, 0) /\ w.att[1].op \in OfReports
  BY WorkFields, InChain DEF OfReports
<1>2. /\ i \in 1 .. Len(w.gatt.reports) /\ i \in Nat
      /\ Excused(w) \/ \A j \in 1 .. i - 1 : Wants(w, j) => Covered(w, j)
  BY <1>1, HeadIsNext
<1>3. \A j : ~Is(g, w, 1, "write", j) /\ ~Is(g, w, 1, "ref", j)
  BY DEF Is
<1>4. Chained(g, w, 2, i)
  BY <1>1, <1>2, <1>3, Popped
<1>5. Sized(r) /\ Len(r.att) >= 1 /\ Chained(g, r, 2, 0)
  BY <1>2, <1>4, ChooseKeeps
<1> QED BY <1>5, Finished

\* The Report Reference of a report was read, or could not be.
LEMMA ReadEnds ==
    ASSUME layout \in Layouts, s_disc_gen \in Gens, NEW w, Sized(w), Len(w.att) >= 1,
           Discovery(s_disc_gen, w), w.att[1].gen = s_disc_gen, w.att[1].op = "ref",
           NEW i, i = w.att[1].idx, NEW v, Sized(v), v.att = w.att, v.poll = w.poll,
           v.phase = w.phase, v.broken = w.broken, v.gatt.reports = w.gatt.reports,
           v.gatt.subs = w.gatt.subs,
           \/ v.gatt.ref = w.gatt.ref
           \/ v.gatt.ref = [w.gatt.ref EXCEPT ![i] = RefType(w.att[1].at)],
           NEW r, r = Choose(v, i)
    PROVE  Sized(Done(r)) /\ Discovery(s_disc_gen, Done(r))
<1> DEFINE g == s_disc_gen
<1> DEFINE n == Len(w.att)
<1> DEFINE reports == w.gatt.reports
<1> DEFINE x == w.att[1].at
<1>1. Chained(g, w, 1, 0) /\ w.att[1].op \in OfReports
  BY WorkFields, InChain DEF OfReports
<1>2. /\ i \in 1 .. Len(reports) /\ i \in Nat
      /\ Excused(w) \/ \A j \in 1 .. i - 1 : Wants(w, j) => Covered(w, j)
  BY <1>1, HeadIsNext
<1>3. /\ \A j : Covered(w, j) <=> Covered(v, j)
      /\ \A j : Wants(w, j) <=> Wants(v, j)
      /\ WFull(w) <=> WFull(v)
      /\ Excused(w) <=> Excused(v)
  BY DEF Covered, Wants, Excused, WFull
<1>4. n \in Nat /\ 1 \in 1 .. n /\ IsCurrent(g, w, 1) /\ Is(g, w, 1, "ref", i)
  BY WorkFields DEF IsCurrent, Is
<1>5. x \in InputRefs \cup OutputRefs /\ reports[i] < x
  BY <1>1, <1>4 DEF Chained, Placed
<1>6. ASSUME NEW j \in 1 .. Len(reports), v.gatt.ref[j] = "output"
      PROVE  \/ w.gatt.ref[j] = "output"
             \/ /\ \E h \in OutputRefs : reports[j] < h
                /\ \/ Excused(w) \/ ~Wants(w, j)
                   \/ Settled(g, w, 1, j, n + 1)
  <2>1. CASE w.gatt.ref[j] # "output"
    <3>1. j = i /\ RefType(x) = "output"
      <4>1. j \in DOMAIN w.gatt.ref
        BY WorkFields
      <4> QED BY <1>6, <2>1, <4>1
    <3>2. x \in OutputRefs
      BY <1>5, <3>1 DEF InputRefs, OutputRefs, RefsOf
    <3>3. ASSUME ~Excused(w), Wants(w, i) PROVE Settled(g, w, 1, i, n + 1)
      <4>1. Settled(g, w, 1, i, n + 1) \/ Asked(g, w, 1, i, 1)
        <5>1. i # 0
          BY <1>2
        <5> QED BY <1>1, <1>2, <1>4, <3>2, <3>3, <5>1 DEF Chained, Following, Answers
      <4>2. ~Asked(g, w, 1, i, 1)
        BY DEF Asked
      <4> QED BY <4>1, <4>2
    <3> QED BY <1>5, <3>1, <3>2, <3>3
  <2> QED BY <2>1
<1>7. Chained(g, v, 1, 0)
  <2>1. 1 \in {1, 2} /\ 0 \in Nat
    OBVIOUS
  <2> QED BY <1>1, <1>3, <1>6, <2>1, Grown
<1>8. \A j : ~Is(g, v, 1, "write", j) /\ (Is(g, v, 1, "ref", j) => j = i)
  BY DEF Is
<1>9. Chained(g, v, 2, i)
  BY <1>2, <1>7, <1>8, Popped
<1>10. Sized(r) /\ Len(r.att) >= 1 /\ Chained(g, r, 2, 0)
  <2>1. i \in 1 .. Len(v.gatt.reports) /\ Len(v.att) >= 1
    BY <1>2
  <2>2. Excused(v) \/ \A j \in 1 .. i - 1 : Wants(v, j) => Covered(v, j)
    BY <1>2, <1>3
  <2> QED BY <1>9, <2>1, <2>2, ChooseKeeps
<1> QED BY <1>10, Finished

\* A CCCD was written and the report is entered into a list, if there is room.
LEMMA WriteEnds ==
    ASSUME layout \in Layouts, s_disc_gen \in Gens, NEW w, Sized(w), Len(w.att) >= 1,
           Discovery(s_disc_gen, w), w.att[1].gen = s_disc_gen, w.att[1].op = "write",
           NEW i, i = w.att[1].idx, NEW v, Sized(v), v.att = w.att,
           v.phase = w.phase, v.broken = w.broken, v.gatt.reports = w.gatt.reports,
           v.gatt.ref = w.gatt.ref, WFull(w) => WFull(v),
           \A j \in 1 .. Len(w.gatt.reports) : Covered(w, j) => Covered(v, j),
           Covered(v, i) \/ WFull(v), NEW r, r = SubscribeReport(v, i + 1)
    PROVE  Sized(Done(r)) /\ Discovery(s_disc_gen, Done(r))
<1> DEFINE g == s_disc_gen
<1> DEFINE reports == w.gatt.reports
<1>1. Chained(g, w, 1, 0) /\ w.att[1].op \in OfReports
  BY WorkFields, InChain DEF OfReports
<1>2. /\ i \in 1 .. Len(reports) /\ Len(reports) \in Nat
      /\ Excused(w) \/ \A j \in 1 .. i - 1 : Wants(w, j) => Covered(w, j)
  BY <1>1, HeadIsNext, WorkFields
<1>3. (\A j : Wants(w, j) <=> Wants(v, j)) /\ (Excused(w) => Excused(v))
  BY DEF Wants, Excused
<1>4. Chained(g, v, 1, 0)
  <2>1. 1 \in {1, 2} /\ 0 \in Nat
    OBVIOUS
  <2> QED BY <1>1, <2>1, Grown
<1>5. Chained(g, v, 2, 0)
  <2>1. /\ \A j : ~Is(g, v, 1, "ref", j)
        /\ \A j : Is(g, v, 1, "write", j) => Excused(v) \/ Covered(v, j)
    BY DEF Is, Excused
  <2> QED BY <1>4, <2>1, Popped
<1>6. Excused(v) \/ \A j \in 1 .. i : Wants(v, j) => Covered(v, j)
  <2>1. \A j \in 1 .. i : j = i \/ (j \in 1 .. i - 1 /\ j \in 1 .. Len(reports))
    BY <1>2
  <2> QED BY <1>2, <1>3, <2>1 DEF Excused
<1>7. Sized(r) /\ Len(r.att) >= 1 /\ Chained(g, r, 2, 0)
  <2> DEFINE k == i + 1
  <2>1. /\ k \in 1 .. Len(v.gatt.reports) + 1 /\ k - 1 = i /\ Len(v.att) >= 1
        /\ r = SubscribeReport(v, k) /\ (k = Len(v.gatt.reports) + 1 => i = Len(v.gatt.reports))
    BY <1>2
  <2> HIDE DEF k
  <2>2. \/ Excused(v)
        \/ /\ \A j \in 1 .. k - 1 : Wants(v, j) => Settled(g, v, 2, j, Len(v.att) + 1)
           /\ k = Len(v.gatt.reports) + 1
                 => \A j \in 1 .. Len(v.gatt.reports) : Wants(v, j) => Covered(v, j)
    BY <1>6, <2>1 DEF Settled
  <2> QED BY <1>5, <2>1, <2>2, SubscribeKeeps
<1> QED BY <1>7, Finished

\* The services and the characteristics are found while nothing else is under way.
LEMMA InListing ==
    ASSUME NEW g, NEW w, Sized(w), Discovery(g, w), Len(w.att) >= 1,
           w.att[1].gen = g, w.att[1].op \in {"svcs", "chrs"}
    PROVE  /\ Listing(g, w) /\ \A k \in 2 .. Len(w.att) : ~IsCurrent(g, w, k)
           /\ w.att[1].op = "svcs" => w.gatt.reports = <<>>
           /\ w.att[1].op = "chrs" => w.att[1].at <= SvcEnd /\ Scanned(w, w.att[1].at)
<1>1. Len(w.att) \in Nat /\ 1 \in 1 .. Len(w.att) /\ IsCurrent(g, w, 1)
  BY WorkFields DEF IsCurrent
<1>2. ~Silent(g, w) /\ ~Chained(g, w, 1, 0)
  BY <1>1 DEF Silent, Chained, Placed, OfReports
<1>3. Listing(g, w)
  BY <1>2 DEF Discovery
<1>4. \A k \in 2 .. Len(w.att) : k \in 1 .. Len(w.att) /\ k # 1
  BY <1>1
<1> QED BY <1>1, <1>3, <1>4 DEF Listing

\* The service is found.
LEMMA ServiceFound ==
    ASSUME layout \in Layouts, s_disc_gen \in Gens, NEW w, Sized(w), Len(w.att) >= 1,
           Discovery(s_disc_gen, w), w.att[1].gen = s_disc_gen, w.att[1].op = "svcs",
           NEW r, r = Send(w, Proc("chrs", 0, 0))
    PROVE  Sized(Done(r)) /\ Discovery(s_disc_gen, Done(r))
<1> DEFINE g == s_disc_gen
<1> DEFINE n == Len(w.att)
<1> DEFINE p == Proc("chrs", 0, 0)
<1> DEFINE d == Done(r)
<1>1. /\ Listing(g, w) /\ w.gatt.reports = <<>>
      /\ \A k \in 2 .. n : ~IsCurrent(g, w, k)
  BY InListing
<1>2. p \in Procs /\ p.op = "chrs" /\ p.gen = g /\ p.at = 0
  <2>1. "chrs" \in Ops \ {"poll"} /\ 0 \in Nat
    BY DEF Ops
  <2> QED BY <2>1, ProcIs
<1> HIDE DEF p
<1>3. /\ Sized(r) /\ r.gatt = w.gatt /\ r.phase = w.phase
      /\ r.att = Append(w.att, p) \/ r.att = w.att
  BY <1>2, SendDoes DEF p
<1>4. /\ n \in Nat /\ n >= 1 /\ Len(r.att) \in {n, n + 1}
      /\ \A k \in 1 .. n : r.att[k] = w.att[k]
      /\ Len(r.att) = n + 1 => r.att[n + 1] = p
  BY <1>2, <1>3, WorkFields, AppendSeq
<1>5. /\ Sized(d) /\ d.gatt = w.gatt /\ d.phase = w.phase /\ Len(d.att) = Len(r.att) - 1
      /\ \A k \in 1 .. Len(r.att) - 1 : d.att[k] = r.att[k + 1]
  BY <1>3, <1>4, DoneDoes
<1> HIDE DEF d
<1>6. ASSUME NEW k \in 1 .. Len(d.att), IsCurrent(g, d, k)
      PROVE  k = n /\ d.att[k] = p
  <2>1. k \in 1 .. Len(r.att) - 1 /\ d.att[k] = r.att[k + 1]
    BY <1>5
  <2>2. CASE k = n
    BY <1>4, <2>1, <2>2
  <2>3. CASE k # n
    <3>1. k + 1 \in 2 .. n /\ k + 1 \in 1 .. n
      BY SMTT(30), <1>4, <2>1, <2>3
    <3>2. d.att[k] = w.att[k + 1]
      BY <1>4, <2>1, <3>1
    <3> QED BY <1>1, <1>6, <3>1, <3>2 DEF IsCurrent
  <2> QED BY <2>2, <2>3
<1>7. Scanned(d, 0) /\ 0 <= SvcEnd
  BY <1>1, <1>5, ServiceFacts DEF Scanned
<1>8. Listing(g, d)
  BY <1>1, <1>2, <1>5, <1>6, <1>7 DEF Listing
<1> QED BY <1>5, <1>8 DEF Discovery, d

\* A value is entered, if there is room.
LEMMA NewReportDoes ==
    ASSUME NEW w, Sized(w), NEW v \in Nat
    PROVE  LET r == NewReport(w, v)
           IN  /\ Sized(r) /\ r.att = w.att /\ r.phase = w.phase /\ r.poll = w.poll
               /\ r.broken = w.broken
               /\ \/ r = w /\ Len(w.gatt.reports) = MAX_REPORTS
                  \/ /\ r.gatt.reports = Append(w.gatt.reports, v)
                     /\ r.gatt.ref = Append(w.gatt.ref, "unknown")
<1>0. MAX_REPORTS \in Nat
  BY BleGattAssumption
<1>1. CASE Len(w.gatt.reports) < MAX_REPORTS
  <2> DEFINE r == [w EXCEPT !.gatt.reports = Append(@, v), !.gatt.cccd = Append(@, 0),
                            !.gatt.ref = Append(@, "unknown")]
  <2>1. NewReport(w, v) = r
    BY <1>1 DEF NewReport
  <2>2. /\ w \in Works /\ w.gatt \in Gatts
        /\ w.gatt.reports \in Seq(Nat) /\ w.gatt.cccd \in Seq(Nat)
        /\ w.gatt.ref \in Seq({"unknown", "input", "output"})
    BY WorkFields DEF Sized, Works
  <2>3. /\ Append(w.gatt.reports, v) \in Seq(Nat)
        /\ Len(Append(w.gatt.reports, v)) = Len(w.gatt.reports) + 1
    BY <2>2, AppendSeq
  <2>4. /\ Append(w.gatt.cccd, 0) \in Seq(Nat)
        /\ Len(Append(w.gatt.cccd, 0)) = Len(w.gatt.cccd) + 1
    <3>1. 0 \in Nat
      OBVIOUS
    <3> QED BY <2>2, <3>1, AppendSeq
  <2>5. /\ Append(w.gatt.ref, "unknown") \in Seq({"unknown", "input", "output"})
        /\ Len(Append(w.gatt.ref, "unknown")) = Len(w.gatt.ref) + 1
    <3>1. "unknown" \in {"unknown", "input", "output"}
      OBVIOUS
    <3> QED BY <2>2, <3>1, AppendSeq
  <2>6. r = [w EXCEPT !.gatt = [w.gatt EXCEPT !.reports = Append(@, v), !.cccd = Append(@, 0),
                                              !.ref = Append(@, "unknown")]]
    BY <2>2 DEF Works, Gatts
  <2> HIDE DEF r
  <2>7. /\ r.gatt = [w.gatt EXCEPT !.reports = Append(@, v), !.cccd = Append(@, 0),
                                   !.ref = Append(@, "unknown")]
        /\ r.poll = w.poll /\ r.att = w.att /\ r.phase = w.phase /\ r.broken = w.broken
    BY <2>2, <2>6 DEF Works
  <2>8. /\ r.gatt.reports = Append(w.gatt.reports, v) /\ r.gatt.cccd = Append(w.gatt.cccd, 0)
        /\ r.gatt.ref = Append(w.gatt.ref, "unknown") /\ r.gatt.subs = w.gatt.subs
        /\ r.gatt \in Gatts
    BY <2>2, <2>3, <2>4, <2>5, <2>7 DEF Gatts
  <2>9. r \in Works
    BY <2>2, <2>6, <2>7, <2>8 DEF Works
  <2>10. Sized(r)
    <3>1. Len(w.gatt.reports) + 1 <= MAX_REPORTS
      BY <1>0, <1>1, WorkFields
    <3> QED BY <2>3, <2>4, <2>5, <2>7, <2>8, <2>9, <3>1 DEF Sized
  <2> QED BY <2>1, <2>7, <2>8, <2>10
<1>2. CASE ~(Len(w.gatt.reports) < MAX_REPORTS)
  <2>1. NewReport(w, v) = w
    BY <1>2 DEF NewReport
  <2>2. Len(w.gatt.reports) = MAX_REPORTS
    BY <1>0, <1>2, WorkFields DEF Sized
  <2> QED BY <2>1, <2>2
<1> QED BY <1>1, <1>2

\* The next attribute is looked at.
LEMMA AttributeScanned ==
    ASSUME layout \in Layouts, NEW w, Sized(w), NEW a \in Nat, Scanned(w, a), a < SvcEnd,
           \A i \in 1 .. Len(w.gatt.reports) : w.gatt.ref[i] = "unknown"
    PROVE  LET h == a + 1
               r == IF IsKind(h, "val") THEN NewReport(w, h) ELSE w
           IN  /\ Sized(r) /\ Scanned(r, h) /\ r.att = w.att /\ r.phase = w.phase
               /\ r.poll = w.poll /\ r.broken = w.broken
               /\ \A i \in 1 .. Len(r.gatt.reports) : r.gatt.ref[i] = "unknown"
<1> SUFFICES ASSUME NEW h, h = a + 1, NEW r, r = IF IsKind(h, "val") THEN NewReport(w, h) ELSE w
             PROVE  /\ Sized(r) /\ Scanned(r, h) /\ r.att = w.att /\ r.phase = w.phase
                    /\ r.poll = w.poll /\ r.broken = w.broken
                    /\ \A i \in 1 .. Len(r.gatt.reports) : r.gatt.ref[i] = "unknown"
  OBVIOUS
<1> DEFINE reports == w.gatt.reports
<1> DEFINE m == Len(reports)
<1>0. /\ SvcEnd \in Nat /\ h \in Nat /\ h > a /\ h \in 1 .. SvcEnd /\ Values \subseteq 1 .. SvcEnd
      /\ reports \in Seq(Nat) /\ m \in Nat /\ MAX_REPORTS \in Nat
      /\ w.gatt.ref \in Seq({"unknown", "input", "output"}) /\ Len(w.gatt.ref) = m
  BY SMTT(30), ServiceFacts, WorkFields, BleGattAssumption DEF Sized
<1>1. CASE IsKind(h, "val")
  <2>1. r = NewReport(w, h) /\ h \in Values
    BY <1>0, <1>1 DEF Values
  <2>2. /\ Sized(r) /\ r.att = w.att /\ r.phase = w.phase /\ r.poll = w.poll
        /\ r.broken = w.broken
        /\ \/ r = w /\ m = MAX_REPORTS
           \/ /\ r.gatt.reports = Append(reports, h)
              /\ r.gatt.ref = Append(w.gatt.ref, "unknown")
    <3>1. h \in Nat
      BY <1>0
    <3>2. /\ Sized(NewReport(w, h)) /\ NewReport(w, h).att = w.att
          /\ NewReport(w, h).phase = w.phase /\ NewReport(w, h).poll = w.poll
          /\ NewReport(w, h).broken = w.broken
          /\ \/ NewReport(w, h) = w /\ m = MAX_REPORTS
             \/ /\ NewReport(w, h).gatt.reports = Append(reports, h)
                /\ NewReport(w, h).gatt.ref = Append(w.gatt.ref, "unknown")
      BY <3>1, NewReportDoes
    <3> QED BY <2>1, <3>2
  <2>3. CASE r = w /\ m = MAX_REPORTS
    <3>1. \A i \in 1 .. m : reports[i] \in Nat /\ reports[i] <= a
      BY SMTT(30), <1>0 DEF Scanned
    <3>2. \A i \in 1 .. m : reports[i] <= h
      BY SMTT(30), <1>0, <3>1
    <3>3. Scanned(w, h)
      BY <2>3, <3>2 DEF Scanned
    <3> QED BY <2>3, <3>3
  <2>4. CASE /\ r.gatt.reports = Append(reports, h)
             /\ r.gatt.ref = Append(w.gatt.ref, "unknown")
    <3> DEFINE t == r.gatt.reports
    <3>1. /\ Len(t) = m + 1 /\ \A i \in 1 .. m : t[i] = reports[i] /\ t[i] <= a /\ t[i] \in Values
          /\ t[m + 1] = h
      <4>1. /\ Len(t) = m + 1 /\ \A i \in 1 .. m : t[i] = reports[i]
            /\ t[m + 1] = h
        <5>1. /\ Len(Append(reports, h)) = m + 1 /\ Append(reports, h)[m + 1] = h
              /\ \A i \in 1 .. m : Append(reports, h)[i] = reports[i]
          BY <1>0, AppendSeq
        <5> QED BY <2>4, <5>1
      <4> QED BY <4>1 DEF Scanned
    <3>2. /\ Len(r.gatt.ref) = m + 1 /\ r.gatt.ref[m + 1] = "unknown"
          /\ \A i \in 1 .. m : r.gatt.ref[i] = "unknown"
      <4> DEFINE Refs == {"unknown", "input", "output"}
      <4>1. w.gatt.ref \in Seq(Refs) /\ "unknown" \in Refs
        BY <1>0
      <4> HIDE DEF Refs
      <4>2. /\ Len(Append(w.gatt.ref, "unknown")) = m + 1
            /\ Append(w.gatt.ref, "unknown")[m + 1] = "unknown"
            /\ \A i \in 1 .. m : Append(w.gatt.ref, "unknown")[i] = w.gatt.ref[i]
        BY SMTT(30), <1>0, <4>1, AppendSeq
      <4> QED BY <2>4, <4>2
    <3> HIDE DEF t
    <3>3. \A i \in 1 .. m + 1 : i \in 1 .. m \/ i = m + 1
      BY <1>0
    <3>4. \A i \in 1 .. m + 1 : t[i] \in Values /\ t[i] <= h
      <4>1. ASSUME NEW i \in 1 .. m PROVE t[i] \in Values /\ t[i] \in Nat /\ t[i] <= h
        <5>1. t[i] \in Values /\ t[i] <= a
          BY <3>1
        <5>2. \A v \in Values : v \in Nat
          BY <1>0
        <5>3. t[i] \in Nat
          BY <5>1, <5>2
        <5> QED BY <1>0, <5>1, <5>3
      <4> QED BY <1>0, <2>1, <3>1, <3>3, <4>1
    <3>5. ASSUME NEW i \in 1 .. m + 1, NEW j \in 1 .. m + 1, i < j PROVE t[i] < t[j]
      <4>1. i \in 1 .. m
        BY <1>0, <3>5
      <4>2. CASE j \in 1 .. m
        <5>1. reports[i] < reports[j]
          BY <3>5, <4>1, <4>2 DEF Scanned
        <5> QED BY <3>1, <4>1, <4>2, <5>1
      <4>3. CASE j = m + 1
        <5>1. t[i] \in Int /\ t[i] <= a /\ t[j] = h
          BY SMTT(30), <1>0, <3>1, <4>1, <4>3
        <5> QED BY <1>0, <5>1
      <4> QED BY <3>3, <4>2, <4>3
    <3>6. \/ Len(t) = MAX_REPORTS
          \/ \A v \in Values : v <= h => \E i \in 1 .. m + 1 : t[i] = v
      <4>1. CASE m = MAX_REPORTS
        <5>1. Len(t) <= MAX_REPORTS
          BY <2>2 DEF Sized, t
        <5> QED BY <1>0, <3>1, <4>1, <5>1
      <4>2. CASE m # MAX_REPORTS
        <5> SUFFICES ASSUME NEW v \in Values, v <= h
                     PROVE  \E i \in 1 .. m + 1 : t[i] = v
          OBVIOUS
        <5>1. CASE v = h
          <6>1. m + 1 \in 1 .. m + 1
            BY <1>0
          <6> QED BY <3>1, <5>1, <6>1
        <5>2. CASE v # h
          <6>1. v <= a
            BY <1>0, <5>2
          <6>2. PICK i \in 1 .. m : reports[i] = v
            BY <4>2, <6>1 DEF Scanned
          <6>3. i \in 1 .. m + 1
            BY <1>0
          <6> QED BY <3>1, <6>2, <6>3
        <5> QED BY <5>1, <5>2
      <4> QED BY <4>1, <4>2
    <3>7. Scanned(r, h)
      BY <3>1, <3>4, <3>5, <3>6 DEF Scanned, t
    <3>8. \A i \in 1 .. Len(r.gatt.reports) : r.gatt.ref[i] = "unknown"
      BY <3>1, <3>2, <3>3 DEF t
    <3> QED BY <2>2, <3>7, <3>8
  <2> QED BY <2>2, <2>3, <2>4
<1>2. CASE ~IsKind(h, "val")
  <2>1. r = w /\ h \notin Values
    BY <1>2 DEF Values
  <2>2. \A v \in Values : v <= h => v <= a
    BY <1>0, <2>1
  <2>3. \A i \in 1 .. m : reports[i] <= h
    BY <1>0 DEF Scanned
  <2>4. Scanned(w, h)
    BY <2>2, <2>3 DEF Scanned
  <2> QED BY <2>1, <2>4
<1> QED BY <1>1, <1>2

\* A characteristic is found.
LEMMA CharacteristicFound ==
    ASSUME layout \in Layouts, s_disc_gen \in Gens, NEW w, Sized(w), Len(w.att) >= 1,
           Discovery(s_disc_gen, w), w.att[1].op = "chrs", NEW a, a = w.att[1].at,
           NEW h, h = a + 1, a < SvcEnd,
           NEW r, w.att[1].gen # s_disc_gen => r = w,
           w.att[1].gen = s_disc_gen => r = IF IsKind(h, "val") THEN NewReport(w, h) ELSE w,
           NEW q \in Procs, q.op = "chrs", q.gen = w.att[1].gen, q.at = h, NEW f, Sized(f),
           f.gatt = r.gatt, f.poll = r.poll, f.phase = r.phase, f.broken = r.broken,
           f.att = [r.att EXCEPT ![1] = q]
    PROVE  Discovery(s_disc_gen, f)
<1> DEFINE g == s_disc_gen
<1> DEFINE n == Len(w.att)
<1>1. CASE w.att[1].gen = g
  <2>1. /\ Listing(g, w) /\ Scanned(w, a)
        /\ \A k \in 2 .. n : ~IsCurrent(g, w, k)
    BY <1>1, InListing
  <2>2. a \in Nat /\ n \in Nat /\ n >= 1 /\ w.att \in Seq(Procs)
    <3>1. w.att[1] \in Procs /\ n \in Nat /\ n >= 1
      BY WorkFields
    <3> QED BY <3>1, WorkFields DEF Procs
  <2>3. /\ Scanned(r, h) /\ r.att = w.att /\ r.phase = w.phase
        /\ \A i \in 1 .. Len(r.gatt.reports) : r.gatt.ref[i] = "unknown"
    <3>1. \A i \in 1 .. Len(w.gatt.reports) : w.gatt.ref[i] = "unknown"
      BY <2>1 DEF Listing
    <3>2. r = IF IsKind(h, "val") THEN NewReport(w, h) ELSE w
      BY <1>1
    <3> DEFINE s == IF IsKind(a + 1, "val") THEN NewReport(w, a + 1) ELSE w
    <3>3. /\ Scanned(s, a + 1) /\ s.att = w.att /\ s.phase = w.phase
          /\ \A i \in 1 .. Len(s.gatt.reports) : s.gatt.ref[i] = "unknown"
      BY <2>1, <2>2, <3>1, AttributeScanned
    <3>4. s = r
      BY <3>2
    <3> HIDE DEF s
    <3> QED BY <3>3, <3>4
  <2>4. /\ Len(f.att) = n /\ f.att[1] = q
        /\ \A k \in 2 .. n : f.att[k] = w.att[k]
    BY <2>2, <2>3
  <2>5. ASSUME NEW k \in 1 .. n, IsCurrent(g, f, k) PROVE k = 1
    <3>1. k = 1 \/ k \in 2 .. n
      BY <2>2
    <3> QED BY <2>1, <2>4, <2>5, <3>1 DEF IsCurrent
  <2>6. Scanned(f, h) /\ h <= SvcEnd
    <3>1. h <= SvcEnd
      BY <2>2, ServiceFacts
    <3> QED BY <2>3, <3>1 DEF Scanned
  <2>7. Listing(g, f)
    BY <2>1, <2>3, <2>4, <2>5, <2>6 DEF Listing
  <2> QED BY <2>7 DEF Discovery
<1>2. CASE w.att[1].gen # g
  <2>1. q.op \in {"svcs", "chrs", "dscs"}
    OBVIOUS
  <2> QED BY <1>2, <2>1, Replaced
<1> QED BY <1>1, <1>2

\* All characteristics are found.
LEMMA ListingEnds ==
    ASSUME layout \in Layouts, s_disc_gen \in Gens, NEW w, Sized(w), Len(w.att) >= 1,
           Discovery(s_disc_gen, w), w.att[1].gen = s_disc_gen, w.att[1].op = "chrs",
           w.att[1].at = SvcEnd, NEW r, r = SubscribeReport(w, 1)
    PROVE  Sized(Done(r)) /\ Discovery(s_disc_gen, Done(r))
<1> DEFINE g == s_disc_gen
<1> DEFINE n == Len(w.att)
<1> DEFINE m == Len(w.gatt.reports)
<1>1. /\ Listing(g, w) /\ Scanned(w, SvcEnd)
      /\ \A k \in 2 .. n : ~IsCurrent(g, w, k)
  BY InListing
<1>2. \A k \in 2 .. n : \A op \in OfReports : \A i : ~Is(g, w, k, op, i)
  BY <1>1 DEF Is, IsCurrent, OfReports
<1>3. \A i \in 1 .. m : w.gatt.ref[i] # "output"
  BY <1>1 DEF Listing
<1>4. w.phase = "going"
  BY <1>1 DEF Listing
<1>5. Behind(g, w, 2) /\ Placed(g, w, 2)
  BY <1>1 DEF Behind, Placed
<1>6. Searched(g, w, 2, 0) /\ Answers(g, w, 2, 0)
  BY <1>2 DEF Searched, Answers, OfReports
<1>7. Skipped(g, w, 2) /\ Ready(w)
  BY <1>3, <1>4 DEF Skipped, Ready
<1>8. Chained(g, w, 2, 0)
  BY <1>1, <1>3, <1>4, <1>5, <1>6, <1>7 DEF Chained, Following
<1>9. /\ 1 \in 1 .. m + 1
      /\ \A j \in 1 .. 1 - 1 : Wants(w, j) => Settled(g, w, 2, j, n + 1)
      /\ 1 = m + 1 => \A j \in 1 .. m : Wants(w, j) => Covered(w, j)
  BY WorkFields
<1>10. Sized(r) /\ Len(r.att) >= 1 /\ Chained(g, r, 2, 0)
  BY <1>8, <1>9, SubscribeKeeps
<1> QED BY <1>10, Finished

\* A callback leaves the keyboard as it is.
LEMMA LayoutKept ==
    ASSUME layout' = layout
    PROVE  /\ SvcEnd' = SvcEnd /\ Values' = Values /\ Inputs' = Inputs /\ Misled' = Misled
           /\ Wanted' = Wanted /\ InputRefs' = InputRefs /\ OutputRefs' = OutputRefs
<1>1. \A type : RefsOf(type)' = RefsOf(type)
  BY DEF RefsOf, SvcEnd, IsKind, RefType, Owner
<1>2. SvcEnd' = SvcEnd /\ Values' = Values
  BY DEF SvcEnd, Values, IsKind
<1>3. Inputs' = Inputs
  BY <1>2 DEF Inputs
<1>4. Misled' = Misled
  BY <1>1, <1>3 DEF Misled
<1> QED BY <1>1, <1>2, <1>3, <1>4 DEF Wanted, InputRefs, OutputRefs

\* What a callback makes of the statics is what the next one finds.
LEMMA Carried ==
    ASSUME layout' = layout, s_disc_gen' = s_disc_gen, NEW r, Sized(r), Becomes(r),
           Discovery(s_disc_gen, r)
    PROVE  Sized(Work)' /\ Discovery(s_disc_gen, Work)'
<1>1. Work' = r
  <2>1. r = [gatt |-> r.gatt, poll |-> r.poll, polling |-> r.polling, att |-> r.att,
             broken |-> r.broken, disturbed |-> r.disturbed, phase |-> r.phase]
    BY DEF Sized, Works
  <2>2. Work' = [gatt |-> s_gatt', poll |-> s_poll', polling |-> polling', att |-> att',
                 broken |-> broken', disturbed |-> disturbed', phase |-> phase']
    BY DEF Work
  <2> QED BY <2>1, <2>2 DEF Becomes
<1>2. Sized(Work)'
  <2>1. Procs' = Procs
    BY DEF Procs
  <2> QED BY <1>1, <2>1 DEF Sized, Works
<1>3. /\ SvcEnd' = SvcEnd /\ Values' = Values /\ Wanted' = Wanted
      /\ InputRefs' = InputRefs /\ OutputRefs' = OutputRefs
  BY LayoutKept
<1>4. CASE Silent(s_disc_gen, r)
  BY <1>1, <1>2, <1>4 DEF Silent, Discovery, IsCurrent
<1>5. CASE Listing(s_disc_gen, r)
  <2>1. Listing(s_disc_gen, Work)'
    BY <1>1, <1>3, <1>5 DEF Listing, IsCurrent, Scanned
  <2> QED BY <1>2, <2>1 DEF Discovery
<1>6. CASE Chained(s_disc_gen, r, 1, 0)
  <2>1. Chained(s_disc_gen, Work, 1, 0)'
    <3>1. Scanned(Work, SvcEnd)'
      BY <1>1, <1>3, <1>6 DEF Chained, Scanned
    <3>2. Placed(s_disc_gen, Work, 1)'
      BY <1>1, <1>3, <1>6 DEF Chained, Placed, IsCurrent
    <3>0. /\ \A i : (Wants(Work, i))' <=> Wants(r, i)
          /\ \A i, k : (Settled(s_disc_gen, Work, 1, i, k))' <=> Settled(s_disc_gen, r, 1, i, k)
          /\ \A i, k : (Asked(s_disc_gen, Work, 1, i, k))' <=> Asked(s_disc_gen, r, 1, i, k)
          /\ \A op, i, k : (Is(s_disc_gen, Work, k, op, i))' <=> Is(s_disc_gen, r, k, op, i)
      BY <1>1, <1>3 DEF Wants, Settled, Asked, Covered, Is
    <3>3. Excused(r) => Excused(Work)'
      BY <1>1 DEF Excused, WFull
    <3>4. Behind(s_disc_gen, r, 1) => Behind(s_disc_gen, Work, 1)'
      BY <1>1, <1>3, <3>0 DEF Behind, IsCurrent
    <3>5. Searched(s_disc_gen, r, 1, 0) => Searched(s_disc_gen, Work, 1, 0)'
      BY <1>1, <1>3, <3>0 DEF Searched
    <3>6. Answers(s_disc_gen, r, 1, 0) => Answers(s_disc_gen, Work, 1, 0)'
      BY <1>1, <1>3, <3>0 DEF Answers
    <3>7. Skipped(s_disc_gen, r, 1) => Skipped(s_disc_gen, Work, 1)'
      BY <1>1, <1>3, <3>0 DEF Skipped
    <3>8. Ready(r) => Ready(Work)'
      BY <1>1, <1>3 DEF Ready, Wants, Covered
    <3>9. Following(s_disc_gen, Work, 1, 0)'
      BY <1>6, <3>3, <3>4, <3>5, <3>6, <3>7, <3>8 DEF Chained, Following
    <3>10. /\ (Work.phase # "none")'
           /\ (\A i \in 1 .. Len(Work.gatt.reports) :
                  Work.gatt.ref[i] = "output" => \E h \in OutputRefs : Work.gatt.reports[i] < h)'
      BY <1>1, <1>3, <1>6 DEF Chained
    <3> QED BY <3>1, <3>2, <3>9, <3>10 DEF Chained
  <2> QED BY <1>2, <2>1 DEF Discovery
<1> QED BY <1>2, <1>4, <1>5, <1>6 DEF Discovery

\* The record that a callback works on has the statics as its fields.
LEMMA WorkIs ==
    /\ Work.gatt = s_gatt /\ Work.poll = s_poll /\ Work.polling = polling /\ Work.att = att
    /\ Work.broken = broken /\ Work.disturbed = disturbed /\ Work.phase = phase
BY DEF Work

\* What a callback knows of the procedure it answers.
LEMMA AtHead ==
    ASSUME GattInv, att # <<>>
    PROVE  /\ layout \in Layouts /\ s_disc_gen \in Gens /\ Sized(Work)
           /\ Discovery(s_disc_gen, Work) /\ Len(Work.att) >= 1
           /\ Head(att) = Work.att[1] /\ Work.att[1] \in Procs
<1>1. layout \in Layouts /\ s_disc_gen \in Gens /\ Sized(Work) /\ Discovery(s_disc_gen, Work)
  BY DEF GattInv, GattTypes
<1>2. att \in Seq(Procs) /\ Work.att = att
  BY <1>1, WorkFields, WorkIs
<1> QED BY <1>1, <1>2, TailSeq

\* on_disc_svcs asks for the characteristics, or does nothing for an old discovery.
LEMMA OnDiscSvcsStep ==
    ASSUME GattInv, OnDiscSvcs
    PROVE  Sized(Work)' /\ Discovery(s_disc_gen, Work)'
<1> USE DEF OnDiscSvcs, Answered, Current
<1>1. /\ layout \in Layouts /\ s_disc_gen \in Gens /\ Sized(Work)
      /\ Discovery(s_disc_gen, Work) /\ Len(Work.att) >= 1 /\ Head(att) = Work.att[1]
  BY AtHead
<1>2. layout' = layout /\ s_disc_gen' = s_disc_gen
  BY DEF AttFrame
<1>3. CASE Current
  <2> DEFINE r == Send(Work, Proc("chrs", 0, 0))
  <2>1. Becomes(Done(r))
    BY <1>3
  <2>2. Sized(Done(r)) /\ Discovery(s_disc_gen, Done(r))
    BY <1>1, <1>3, ServiceFound
  <2> QED BY <1>2, <2>1, <2>2, Carried
<1>4. CASE ~Current
  <2>1. Becomes(Done(Work))
    BY <1>4
  <2>2. Sized(Done(Work)) /\ Discovery(s_disc_gen, Done(Work))
    BY <1>1, Passed
  <2> QED BY <1>2, <2>1, <2>2, Carried
<1> QED BY <1>3, <1>4

\* A procedure that has come to another attribute is the same procedure otherwise.
LEMMA ProcScans ==
    ASSUME NEW p \in Procs, NEW h \in Nat
    PROVE  LET q == [p EXCEPT !.at = h]
           IN  q \in Procs /\ q.op = p.op /\ q.gen = p.gen /\ q.at = h
BY DEF Procs

\* on_disc_chrs, for one characteristic: a report more, as long as there is room.
LEMMA OnDiscChrStep ==
    ASSUME GattInv, OnDiscChr
    PROVE  Sized(Work)' /\ Discovery(s_disc_gen, Work)'
<1> DEFINE a == Work.att[1].at
<1> DEFINE h == a + 1
<1> DEFINE r == IF Current /\ IsKind(h, "val") THEN NewReport(Work, h) ELSE Work
<1> DEFINE q == [Work.att[1] EXCEPT !.at = h]
<1> DEFINE f == [r EXCEPT !.att[1].at = h]
<1>1. /\ layout \in Layouts /\ s_disc_gen \in Gens /\ Sized(Work) /\ Work.att[1] \in Procs
      /\ Discovery(s_disc_gen, Work) /\ Len(Work.att) >= 1 /\ Head(att) = Work.att[1]
      /\ Head(att).op = "chrs" /\ a < SvcEnd
  BY AtHead DEF OnDiscChr, Answered
<1>2. layout' = layout /\ s_disc_gen' = s_disc_gen /\ Becomes(f)
  BY <1>1 DEF OnDiscChr, AttFrame
<1>3. /\ q \in Procs /\ q.op = "chrs" /\ q.gen = Work.att[1].gen /\ q.at = h /\ h \in Nat
      /\ Work.att \in Seq(Procs)
  <2>1. a \in Nat /\ Work.att \in Seq(Procs)
    BY <1>1, WorkFields DEF Procs
  <2>2. h \in Nat
    BY <2>1
  <2> HIDE DEF h
  <2> QED BY <1>1, <2>1, <2>2, ProcScans
<1>4. Sized(r) /\ r.att = Work.att
  BY <1>1, <1>3, NewReportDoes
<1>5. /\ Sized(f) /\ f.gatt = r.gatt /\ f.poll = r.poll /\ f.phase = r.phase
      /\ f.broken = r.broken /\ f.att = [r.att EXCEPT ![1] = q]
  <2> DEFINE s == [r.att EXCEPT ![1] = q]
  <2> HIDE DEF q, r
  <2>1. s \in Seq(Procs) /\ Len(s) = Len(r.att)
    BY <1>1, <1>3, <1>4, HeadSet
  <2>2. Len(s) <= MAX_PROCS
    BY <1>1, <1>4, <2>1 DEF Sized
  <2>3. f = [r EXCEPT !.att = s]
    BY <1>4 DEF Sized, Works, q
  <2> HIDE DEF s, f
  <2>4. /\ Sized(f) /\ f.gatt = r.gatt /\ f.poll = r.poll /\ f.phase = r.phase
        /\ f.broken = r.broken /\ f.att = s
    BY <1>4, <2>1, <2>2, <2>3, AttSet
  <2> QED BY <2>4 DEF s
<1>6. /\ Work.att[1].gen # s_disc_gen => r = Work
      /\ Work.att[1].gen = s_disc_gen => r = IF IsKind(h, "val") THEN NewReport(Work, h) ELSE Work
  BY <1>1 DEF Current
<1> HIDE DEF r, q, f
<1>7. Discovery(s_disc_gen, f)
  BY SMTT(30), <1>1, <1>3, <1>4, <1>5, <1>6, CharacteristicFound
<1> QED BY <1>2, <1>5, <1>7, Carried

\* on_disc_chrs, for the last time: the first report is searched.
LEMMA OnDiscChrsDoneStep ==
    ASSUME GattInv, OnDiscChrsDone
    PROVE  Sized(Work)' /\ Discovery(s_disc_gen, Work)'
<1> USE DEF OnDiscChrsDone, Answered, Current
<1>1. /\ layout \in Layouts /\ s_disc_gen \in Gens /\ Sized(Work)
      /\ Discovery(s_disc_gen, Work) /\ Len(Work.att) >= 1 /\ Head(att) = Work.att[1]
  BY AtHead
<1>2. layout' = layout /\ s_disc_gen' = s_disc_gen
  BY DEF AttFrame
<1>3. CASE Current
  <2> DEFINE r == SubscribeReport(Work, 1)
  <2>1. Becomes(Done(r))
    BY <1>3
  <2>2. Sized(Done(r)) /\ Discovery(s_disc_gen, Done(r))
    BY <1>1, <1>3, ListingEnds
  <2> QED BY <1>2, <2>1, <2>2, Carried
<1>4. CASE ~Current
  <2>1. Becomes(Done(Work))
    BY <1>4
  <2>2. Sized(Done(Work)) /\ Discovery(s_disc_gen, Done(Work))
    BY <1>1, Passed
  <2> QED BY <1>2, <2>1, <2>2, Carried
<1> QED BY <1>3, <1>4

\* on_disc_dscs, for one descriptor: a reference is asked for before the search goes on,
\* and the rest of the search is queued behind the requests it made.
LEMMA OnDiscDscStep ==
    ASSUME GattInv, OnDiscDsc
    PROVE  Sized(Work)' /\ Discovery(s_disc_gen, Work)'
<1> DEFINE p == Work.att[1]
<1> DEFINE h == p.at + 1
<1> DEFINE upto == IF Responding THEN p.upto
                   ELSE IF SvcEnd < h + PAIRS THEN SvcEnd ELSE h + PAIRS - 1
<1> DEFINE r == IF Current THEN OnDsc(Work, h, p.idx) ELSE Work
<1>1. /\ layout \in Layouts /\ s_disc_gen \in Gens /\ Sized(Work) /\ p \in Procs
      /\ Discovery(s_disc_gen, Work) /\ Len(Work.att) >= 1 /\ Head(att) = p
      /\ p.op = "dscs" /\ p.at < SvcEnd /\ att # <<>>
  BY AtHead DEF OnDiscDsc, Answered
<1>2. layout' = layout /\ s_disc_gen' = s_disc_gen
  BY DEF OnDiscDsc, AttFrame
<1>3. p.at \in Nat /\ p.upto \in Nat /\ SvcEnd \in Nat /\ PAIRS \in Nat /\ PAIRS >= 1
  BY <1>1, ServiceFacts, BleGattAssumption DEF Procs
<1>4. h \in Nat /\ h <= SvcEnd /\ upto \in Nat
  <2>1. h \in Nat /\ h <= SvcEnd
    BY <1>1, <1>3
  <2>2. h + PAIRS - 1 \in Nat
    BY <1>3, <2>1
  <2> QED BY <1>3, <2>1, <2>2
<1>5. /\ p.gen = s_disc_gen => r = OnDsc(Work, h, p.idx)
      /\ p.gen # s_disc_gen => r = Work
  BY <1>1 DEF Current
<1>6. Becomes(IF h = upto /\ h < SvcEnd
              THEN [Done(r) EXCEPT !.att = Append(@, [p EXCEPT !.at = h, !.upto = 0])]
              ELSE [r EXCEPT !.att[1] = [@ EXCEPT !.at = h, !.upto = upto]])
  BY <1>1 DEF OnDiscDsc, Idx
<1> HIDE DEF r, h, upto
<1>7. Sized(r) /\ Len(r.att) >= 1 /\ r.att[1] = p
  <2>1. CASE p.gen = s_disc_gen
    <3>1. Chained(s_disc_gen, Work, 1, 0)
      BY <1>1, <2>1, WorkFields, InChain DEF OfReports
    <3>2. Is(s_disc_gen, Work, 1, "dscs", p.idx)
      BY <1>1, <2>1 DEF Is
    <3>3. h = p.at + 1
      BY DEF h
    <3> QED BY <1>1, <1>4, <1>5, <2>1, <3>1, <3>2, <3>3, OnDscKeeps
  <2>2. CASE p.gen # s_disc_gen
    BY <1>1, <1>5, <2>2
  <2> QED BY <2>1, <2>2
<1>8. r.att \in Seq(Procs) /\ Len(r.att) \in Nat /\ Len(r.att) <= MAX_PROCS
  BY <1>7, WorkFields DEF Sized
<1>9. CASE h = upto /\ h < SvcEnd
  <2> DEFINE q == [p EXCEPT !.at = h, !.upto = 0]
  <2> DEFINE d == Done(r)
  <2> DEFINE s == Append(d.att, q)
  <2> DEFINE f == [d EXCEPT !.att = Append(@, q)]
  <2>1. q \in Procs /\ q.op = "dscs" /\ q.gen = p.gen /\ q.idx = p.idx /\ q.at = h
    <3>1. 0 \in Nat /\ p \in Procs /\ p.op = "dscs"
      BY <1>1
    <3> HIDE DEF p
    <3> QED BY <1>4, <3>1 DEF Procs
  <2>2. Becomes(f)
    BY <1>6, <1>9
  <2> HIDE DEF q
  <2>3. Sized(d) /\ Len(d.att) = Len(r.att) - 1 /\ d.att \in Seq(Procs)
    BY <1>7, DoneDoes, WorkFields
  <2>4. f = [d EXCEPT !.att = s]
    BY <2>3 DEF Sized, Works
  <2> HIDE DEF d
  <2>5. s \in Seq(Procs) /\ Len(s) <= MAX_PROCS
    <3>1. s \in Seq(Procs) /\ Len(s) = Len(d.att) + 1
      BY <2>1, <2>3, AppendSeq
    <3>2. Len(s) = Len(r.att)
      BY <1>8, <2>3, <3>1
    <3> QED BY <1>8, <3>1, <3>2
  <2> HIDE DEF s, f
  <2>6. /\ Sized(f) /\ f.gatt = d.gatt /\ f.poll = d.poll /\ f.phase = d.phase
        /\ f.broken = d.broken /\ f.att = s
    BY <2>3, <2>4, <2>5, AttSet
  <2>7. d = Done(r) /\ f.att = Append(d.att, q) /\ h = p.at + 1
    BY <2>6 DEF d, s, h
  <2>8. Discovery(s_disc_gen, f)
    BY <1>1, <1>4, <1>5, <1>7, <2>1, <2>6, <2>7, SearchWaits
  <2> QED BY <1>2, <2>2, <2>6, <2>8, Carried
<1>10. CASE ~(h = upto /\ h < SvcEnd)
  <2> DEFINE q == [p EXCEPT !.at = h, !.upto = upto]
  <2> DEFINE s == [r.att EXCEPT ![1] = q]
  <2> DEFINE f == [r EXCEPT !.att[1] = [@ EXCEPT !.at = h, !.upto = upto]]
  <2>1. q \in Procs /\ q.op = "dscs" /\ q.gen = p.gen /\ q.idx = p.idx /\ q.at = h
    <3>1. p \in Procs /\ p.op = "dscs"
      BY <1>1
    <3> HIDE DEF p
    <3> QED BY <1>4, <3>1 DEF Procs
  <2>2. Becomes(f)
    BY <1>6, <1>10
  <2>3. f = [r EXCEPT !.att = s]
    BY <1>7, <1>8 DEF Sized, Works
  <2> HIDE DEF q
  <2>4. s \in Seq(Procs) /\ Len(s) <= MAX_PROCS
    BY <1>7, <1>8, <2>1, HeadSet
  <2> HIDE DEF s, f
  <2>5. /\ Sized(f) /\ f.gatt = r.gatt /\ f.poll = r.poll /\ f.phase = r.phase
        /\ f.broken = r.broken /\ f.att = s
    BY <1>7, <2>3, <2>4, AttSet
  <2>6. f.att = [r.att EXCEPT ![1] = q] /\ h = p.at + 1
    BY <2>5 DEF s, h
  <2>7. Discovery(s_disc_gen, f)
    BY <1>1, <1>4, <1>5, <1>7, <2>1, <2>5, <2>6, SearchGoesOn
  <2> QED BY <1>2, <2>2, <2>5, <2>7, Carried
<1> QED BY <1>9, <1>10

\* on_disc_dscs, for the last time: the report is settled, unless its reference was asked
\* for and its answer will settle it.
LEMMA OnDiscDscsDoneStep ==
    ASSUME GattInv, OnDiscDscsDone
    PROVE  Sized(Work)' /\ Discovery(s_disc_gen, Work)'
<1>1. /\ layout \in Layouts /\ s_disc_gen \in Gens /\ Sized(Work)
      /\ Discovery(s_disc_gen, Work) /\ Len(Work.att) >= 1 /\ Head(att) = Work.att[1]
      /\ Work.att[1].op = "dscs"
  BY AtHead DEF OnDiscDscsDone, Answered
<1>2. layout' = layout /\ s_disc_gen' = s_disc_gen
  BY DEF OnDiscDscsDone, AttFrame
<1>3. CASE Current /\ ~s_gatt.waiting
  <2> DEFINE r == Choose(Work, Work.att[1].idx)
  <2>1. Becomes(Done(r))
    BY <1>1, <1>3 DEF OnDiscDscsDone, Idx
  <2>2. Sized(Done(r)) /\ Discovery(s_disc_gen, Done(r))
    BY <1>1, <1>3, SearchEnds DEF Current
  <2> QED BY <1>2, <2>1, <2>2, Carried
<1>4. CASE ~(Current /\ ~s_gatt.waiting)
  <2>1. Becomes(Done(Work))
    BY <1>4 DEF OnDiscDscsDone
  <2>2. Sized(Done(Work)) /\ Discovery(s_disc_gen, Done(Work))
    BY <1>1, Passed
  <2> QED BY <1>2, <2>1, <2>2, Carried
<1> QED BY <1>3, <1>4

\* A search that fails in the current discovery excuses it, one of an old one changes nothing.
LEMMA DiscoveryFailsStep ==
    ASSUME GattInv, DiscoveryFails
    PROVE  Sized(Work)' /\ Discovery(s_disc_gen, Work)'
<1> DEFINE w == [Work EXCEPT !.broken = @ \/ Current, !.disturbed = TRUE]
<1>1. /\ layout \in Layouts /\ s_disc_gen \in Gens /\ Sized(Work)
      /\ Discovery(s_disc_gen, Work) /\ Len(Work.att) >= 1 /\ Head(att) = Work.att[1]
      /\ Work.att[1].op \notin {"ref", "write"}
  BY AtHead DEF DiscoveryFails, Answered
<1>2. layout' = layout /\ s_disc_gen' = s_disc_gen /\ Becomes(Done(w))
  BY DEF DiscoveryFails, AttFrame
<1>3. /\ w \in Works /\ w.gatt = Work.gatt /\ w.poll = Work.poll /\ w.att = Work.att
      /\ w.phase = Work.phase /\ (Work.broken => w.broken)
  BY <1>1 DEF Sized, Works, Current
<1> HIDE DEF w
<1>4. Sized(w)
  BY <1>1, <1>3 DEF Sized
<1>5. Discovery(s_disc_gen, w)
  BY <1>1, <1>3, <1>4, Unmoved
<1>6. Sized(Done(w)) /\ Discovery(s_disc_gen, Done(w))
  BY <1>1, <1>3, <1>4, <1>5, Passed
<1> QED BY <1>2, <1>6, Carried

\* on_read_report_ref settles its report, whether the reference could be read or not.
LEMMA OnReadReportRefStep ==
    ASSUME GattInv, NEW ok \in BOOLEAN, OnReadReportRef(ok)
    PROVE  Sized(Work)' /\ Discovery(s_disc_gen, Work)'
<1> DEFINE i == Work.att[1].idx
<1> DEFINE x == Work.att[1].at
<1> DEFINE w == IF ok THEN [Work EXCEPT !.gatt.ref[i] = RefType(x)]
                       ELSE [Work EXCEPT !.disturbed = TRUE]
<1> DEFINE v == [w EXCEPT !.gatt.waiting = FALSE]
<1>1. /\ layout \in Layouts /\ s_disc_gen \in Gens /\ Sized(Work) /\ Work.att[1] \in Procs
      /\ Discovery(s_disc_gen, Work) /\ Len(Work.att) >= 1 /\ Head(att) = Work.att[1]
      /\ Work.att[1].op = "ref"
  BY AtHead DEF OnReadReportRef, Answered
<1>2. layout' = layout /\ s_disc_gen' = s_disc_gen
  BY DEF OnReadReportRef, AttFrame
<1>3. CASE Current
  <2> DEFINE r == Choose(v, i)
  <2>1. Becomes(Done(r))
    BY <1>1, <1>3 DEF OnReadReportRef, Idx
  <2>2. i \in Int /\ Work \in Works /\ Work.gatt \in Gatts
    BY <1>1 DEF Sized, Works, Procs
  <2>3. /\ [Work.gatt.ref EXCEPT ![i] = RefType(x)] \in Seq({"unknown", "input", "output"})
        /\ Len([Work.gatt.ref EXCEPT ![i] = RefType(x)]) = Len(Work.gatt.reports)
    <3>1. RefType(x) \in {"unknown", "input", "output"}
      BY DEF RefType
    <3> QED BY <1>1, <2>2, <3>1, RefSet
  <2>4. /\ v \in Works /\ v.att = Work.att /\ v.poll = Work.poll /\ v.phase = Work.phase
        /\ v.broken = Work.broken /\ v.gatt.reports = Work.gatt.reports
        /\ v.gatt.subs = Work.gatt.subs /\ v.gatt.cccd = Work.gatt.cccd
        /\ v.gatt.ref = IF ok THEN [Work.gatt.ref EXCEPT ![i] = RefType(x)] ELSE Work.gatt.ref
    <3>1. CASE ok
      BY <2>2, <2>3, <3>1 DEF Works, Gatts
    <3>2. CASE ~ok
      BY <2>2, <3>2 DEF Works, Gatts
    <3> QED BY <3>1, <3>2
  <2> HIDE DEF v
  <2>5. Sized(v)
    BY <1>1, <2>3, <2>4 DEF Sized
  <2>6. Sized(Done(r)) /\ Discovery(s_disc_gen, Done(r))
    BY <1>1, <1>3, <2>4, <2>5, ReadEnds DEF Current
  <2> QED BY <1>2, <2>1, <2>6, Carried
<1>4. CASE ~Current
  <2>1. Becomes(Done(Work))
    BY <1>4 DEF OnReadReportRef
  <2>2. Sized(Done(Work)) /\ Discovery(s_disc_gen, Done(Work))
    BY <1>1, <1>4, Passed DEF Current
  <2> QED BY <1>2, <2>1, <2>2, Carried
<1> QED BY <1>3, <1>4

\* A subscribed report is entered, if there is room.
LEMMA SubscribedDoes ==
    ASSUME NEW w, Sized(w), NEW i \in 1 .. Len(w.gatt.reports), NEW v,
           v \in Works, v.att = w.att, v.phase = w.phase, v.broken = w.broken, v.poll = w.poll,
           v.gatt.reports = w.gatt.reports, v.gatt.ref = w.gatt.ref,
           v.gatt.cccd = w.gatt.cccd,
           v.gatt.subs = IF Len(w.gatt.subs) < MAX_REPORTS
                         THEN Append(w.gatt.subs, w.gatt.reports[i]) ELSE w.gatt.subs
    PROVE  /\ Sized(v) /\ (WFull(w) => WFull(v))
           /\ \A j \in 1 .. Len(w.gatt.reports) : Covered(w, j) => Covered(v, j)
           /\ Covered(v, i) \/ WFull(v)
<1> DEFINE s == w.gatt.subs
<1> DEFINE e == w.gatt.reports[i]
<1> DEFINE t == IF Len(s) < MAX_REPORTS THEN Append(s, e) ELSE s
<1>1. /\ w \in Works /\ w.gatt \in Gatts /\ s \in Seq(Nat) /\ e \in Nat /\ Len(s) \in Nat
      /\ Len(s) <= MAX_REPORTS /\ MAX_REPORTS \in Nat
  BY WorkFields, BleGattAssumption DEF Sized, Works
<1>2. /\ t \in Seq(Nat) /\ Len(t) <= MAX_REPORTS /\ ToSet(s) \subseteq ToSet(t)
      /\ Len(s) = MAX_REPORTS => t = s
      /\ e \in ToSet(t) \/ Len(t) = MAX_REPORTS
  <2> HIDE DEF s, e
  <2>1. CASE Len(s) < MAX_REPORTS
    <3>1. /\ Append(s, e) \in Seq(Nat) /\ Len(Append(s, e)) = Len(s) + 1
          /\ ToSet(s) \subseteq ToSet(Append(s, e)) /\ e \in ToSet(Append(s, e))
      BY <1>1, AppendSeq, ToSetAppend
    <3> QED BY <1>1, <2>1, <3>1
  <2>2. CASE ~(Len(s) < MAX_REPORTS)
    BY <1>1, <2>2
  <2> QED BY <2>1, <2>2
<1>4. v.gatt.subs = t
  OBVIOUS
<1> HIDE DEF t
<1>5. Sized(v)
  BY <1>2, <1>4 DEF Sized
<1>6. WFull(w) => WFull(v)
  BY <1>2, <1>4 DEF WFull
<1>7. \A j \in 1 .. Len(w.gatt.reports) : Covered(w, j) => Covered(v, j)
  BY <1>2, <1>4 DEF Covered
<1>8. Covered(v, i) \/ WFull(v)
  BY <1>2, <1>4 DEF Covered, WFull
<1> QED BY <1>5, <1>6, <1>7, <1>8

\* on_write_cccd puts its report into the list of subscriptions, or into that of polls.
LEMMA OnWriteCccdStep ==
    ASSUME GattInv, NEW ok \in BOOLEAN, OnWriteCccd(ok)
    PROVE  Sized(Work)' /\ Discovery(s_disc_gen, Work)'
<1> DEFINE i == Work.att[1].idx
<1> DEFINE b == [Work EXCEPT !.disturbed = TRUE]
<1> DEFINE u == [Work EXCEPT !.gatt.subs =
                    IF Len(@) < MAX_REPORTS THEN Append(@, Work.gatt.reports[i]) ELSE @]
<1> DEFINE v == IF ok THEN u ELSE AddPoll(b, i)
<1>1. /\ layout \in Layouts /\ s_disc_gen \in Gens /\ Sized(Work)
      /\ Discovery(s_disc_gen, Work) /\ Len(Work.att) >= 1 /\ Head(att) = Work.att[1]
      /\ Work.att[1].op = "write"
  BY AtHead DEF OnWriteCccd, Answered
<1>2. layout' = layout /\ s_disc_gen' = s_disc_gen
  BY DEF OnWriteCccd, AttFrame
<1>3. CASE Current
  <2> DEFINE r == SubscribeReport(v, i + 1)
  <2>1. Becomes(Done(r))
    BY <1>1, <1>3, WorkIs DEF OnWriteCccd, Idx
  <2>2. i \in 1 .. Len(Work.gatt.reports)
    <3>1. Chained(s_disc_gen, Work, 1, 0) /\ Work.att[1].op \in OfReports
      BY <1>1, <1>3, WorkFields, InChain DEF OfReports, Current
    <3> QED BY <1>1, <1>3, <3>1, HeadIsNext DEF Current
  <2>3. /\ Sized(v) /\ v.att = Work.att /\ v.phase = Work.phase /\ v.broken = Work.broken
        /\ v.gatt.reports = Work.gatt.reports /\ v.gatt.ref = Work.gatt.ref
        /\ WFull(Work) => WFull(v)
        /\ \A j \in 1 .. Len(Work.gatt.reports) : Covered(Work, j) => Covered(v, j)
        /\ Covered(v, i) \/ WFull(v)
    <3>1. CASE ok
      <4> DEFINE t == IF Len(Work.gatt.subs) < MAX_REPORTS
                      THEN Append(Work.gatt.subs, Work.gatt.reports[i]) ELSE Work.gatt.subs
      <4>1. /\ Work \in Works /\ Work.gatt \in Gatts
            /\ Work.gatt.subs \in Seq(Nat) /\ Work.gatt.reports[i] \in Nat
        BY <1>1, <2>2, WorkFields DEF Sized, Works
      <4>2. t \in Seq(Nat)
        BY <4>1
      <4>3. v = [Work EXCEPT !.gatt = [Work.gatt EXCEPT !.subs = t]]
        BY <3>1, <4>1 DEF Works, Gatts
      <4> HIDE DEF v, t
      <4>4. /\ v \in Works /\ v.att = Work.att /\ v.phase = Work.phase
            /\ v.broken = Work.broken /\ v.poll = Work.poll
            /\ v.gatt.reports = Work.gatt.reports /\ v.gatt.ref = Work.gatt.ref
            /\ v.gatt.cccd = Work.gatt.cccd /\ v.gatt.subs = t
        BY <4>1, <4>2, <4>3 DEF Works, Gatts
      <4> QED BY <1>1, <2>2, <4>4, SubscribedDoes DEF t
    <3>2. CASE ~ok
      <4>1. /\ b \in Works /\ b.gatt = Work.gatt /\ b.poll = Work.poll /\ b.att = Work.att
            /\ b.phase = Work.phase /\ b.broken = Work.broken
        BY <1>1 DEF Sized, Works
      <4> HIDE DEF b
      <4>2. /\ Sized(b) /\ \A j : Covered(Work, j) <=> Covered(b, j)
            /\ WFull(Work) <=> WFull(b)
        BY <1>1, <4>1 DEF Sized, Covered, WFull
      <4>3. v = AddPoll(b, i)
        BY <3>2
      <4> QED BY <2>2, <4>1, <4>2, <4>3, AddPollDoes
    <3> QED BY <3>1, <3>2
  <2> HIDE DEF v
  <2>4. Sized(Done(r)) /\ Discovery(s_disc_gen, Done(r))
    BY <1>1, <1>3, <2>3, WriteEnds DEF Current
  <2> QED BY <1>2, <2>1, <2>4, Carried
<1>4. CASE ~Current
  <2>1. Becomes(Done(Work))
    BY <1>4 DEF OnWriteCccd
  <2>2. Sized(Done(Work)) /\ Discovery(s_disc_gen, Done(Work))
    BY <1>1, <1>4, Passed DEF Current
  <2> QED BY <1>2, <2>1, <2>2, Carried
<1> QED BY <1>3, <1>4

\* A bounded event leaves the other bounds alone.
LEMMA SpendDoes ==
    ASSUME GattInv
    PROVE  /\ Spend("errors") \/ Spend("polls") \/ Spend("keys")
                 => /\ left' \in [links : Nat, sessions : Nat, errors : Nat, polls : Nat, keys : Nat]
                    /\ left'.sessions = left.sessions /\ left'.links = left.links
           /\ Spend("links")
                 => /\ left' \in [links : Nat, sessions : Nat, errors : Nat, polls : Nat, keys : Nat]
                    /\ left'.sessions = left.sessions /\ left'.links = left.links - 1
           /\ Spend("sessions")
                 => /\ left' \in [links : Nat, sessions : Nat, errors : Nat, polls : Nat, keys : Nat]
                    /\ left.sessions > 0
                    /\ left'.sessions = left.sessions - 1 /\ left'.links = left.links
<1>1. left \in [links : Nat, sessions : Nat, errors : Nat, polls : Nat, keys : Nat]
  BY DEF GattInv, GattTypes
<1> QED BY <1>1 DEF Spend

\* What a callback of the host task leaves alone.
LEMMA Framed ==
    ASSUME GattInv, layout' = layout, connected' = connected, s_disc_gen' = s_disc_gen,
           \/ pcb' = pcb \/ pcb' = NoPoll
           \/ pcb' \in [idx : 1 .. MAX_POLL_HANDLES, count : 1 .. MAX_POLL_HANDLES],
           enabled' \subseteq Nat, key' \in {0} \cup Inputs, missed' \in BOOLEAN, heard' \in Nat,
           KeyUpHeard',
           left' \in [links : Nat, sessions : Nat, errors : Nat, polls : Nat, keys : Nat],
           left'.sessions = left.sessions, left'.links = left.links,
           Sized(Work)', Discovery(s_disc_gen, Work)'
    PROVE  GattInv'
<1>1. Inputs' = Inputs /\ NoPoll' = NoPoll
  BY LayoutKept DEF NoPoll
<1>2. GattTypes'
  BY <1>1 DEF GattInv, GattTypes, Gens
<1>3. Generations'
  BY DEF GattInv, Generations
<1> QED BY <1>2, <1>3 DEF GattInv

\* The callbacks of the searches keep the invariant.
LEMMA AnswerKeeps ==
    ASSUME GattInv,
           OnDiscSvcs \/ OnDiscChr \/ OnDiscChrsDone \/ OnDiscDsc \/ OnDiscDscsDone \/ DiscoveryFails
    PROVE  GattInv'
<1>1. Sized(Work)' /\ Discovery(s_disc_gen, Work)'
  BY OnDiscSvcsStep, OnDiscChrStep, OnDiscChrsDoneStep, OnDiscDscStep, OnDiscDscsDoneStep,
     DiscoveryFailsStep
<1>2. AttFrame /\ UNCHANGED enabled /\ (UNCHANGED left \/ Spend("errors"))
  BY DEF OnDiscSvcs, OnDiscChr, OnDiscChrsDone, OnDiscDsc, OnDiscDscsDone, DiscoveryFails
<1>3. /\ left' \in [links : Nat, sessions : Nat, errors : Nat, polls : Nat, keys : Nat]
      /\ left'.sessions = left.sessions /\ left'.links = left.links
  BY <1>2, SpendDoes DEF GattInv, GattTypes
<1>4. /\ enabled' \subseteq Nat /\ key' \in {0} \cup Inputs /\ missed' \in BOOLEAN /\ heard' \in Nat
      /\ KeyUpHeard'
  BY <1>2 DEF AttFrame, keys, GattInv, GattTypes, KeyUpHeard
<1> QED BY <1>1, <1>2, <1>3, <1>4, Framed DEF AttFrame

\* The callbacks of the reads and the writes keep the invariant.
LEMMA AccessKeeps ==
    ASSUME GattInv, NEW ok \in BOOLEAN, OnReadReportRef(ok) \/ OnWriteCccd(ok)
    PROVE  GattInv'
<1>1. Sized(Work)' /\ Discovery(s_disc_gen, Work)'
  BY OnReadReportRefStep, OnWriteCccdStep
<1>2. AttFrame /\ (UNCHANGED left \/ Spend("errors"))
  BY DEF OnReadReportRef, OnWriteCccd, Fate
<1>3. /\ left' \in [links : Nat, sessions : Nat, errors : Nat, polls : Nat, keys : Nat]
      /\ left'.sessions = left.sessions /\ left'.links = left.links
  BY <1>2, SpendDoes DEF GattInv, GattTypes
<1>4. enabled' \subseteq Nat
  <2>1. enabled \subseteq Nat
    BY DEF GattInv, GattTypes
  <2>2. CASE OnReadReportRef(ok)
    BY <2>1, <2>2 DEF OnReadReportRef
  <2>3. CASE OnWriteCccd(ok)
    <3>1. Head(att) \in Procs
      BY <2>3, AtHead DEF OnWriteCccd, Answered
    <3>2. Head(att).at \in Nat
      BY <3>1 DEF Procs
    <3>3. enabled' = enabled \/ enabled' = enabled \cup {Head(att).at}
      BY <2>3 DEF OnWriteCccd
    <3> QED BY <2>1, <3>2, <3>3
  <2> QED BY <2>2, <2>3
<1>5. /\ key' \in {0} \cup Inputs /\ missed' \in BOOLEAN /\ heard' \in Nat /\ KeyUpHeard'
  BY <1>2 DEF AttFrame, keys, GattInv, GattTypes, KeyUpHeard
<1> QED BY <1>1, <1>2, <1>3, <1>4, <1>5, Framed DEF AttFrame

\* on_poll_read keeps the invariant: the index it brings back is inside last_val, and what
\* it tells the engine is a key that is down.
LEMMA OnPollReadKeeps == ASSUME GattInv, OnPollRead PROVE GattInv'
<1> DEFINE d == Done(Work)
<1> DEFINE polls == IF IsReadable THEN [s_poll EXCEPT !.last_val[Idx] = ReadCode] ELSE s_poll
<1> DEFINE r == [d EXCEPT !.poll = polls]
<1>1. /\ layout \in Layouts /\ s_disc_gen \in Gens /\ Sized(Work) /\ Work.att[1] \in Procs
      /\ Discovery(s_disc_gen, Work) /\ Len(Work.att) >= 1 /\ Head(att) = Work.att[1]
      /\ Work.att[1].op = "poll"
  BY AtHead DEF OnPollRead, Answered
<1>2. Idx \in 1 .. MAX_POLL_HANDLES /\ ReadCode \in Nat
  <2>1. Idx \in 1 .. MAX_POLL_HANDLES
    BY <1>1 DEF Procs, Idx
  <2>2. key \in Nat
    BY <1>1, ServiceFacts DEF GattInv, GattTypes, Inputs
  <2> QED BY <2>1, <2>2 DEF ReadCode
<1>3. /\ Sized(d) /\ Discovery(s_disc_gen, d) /\ d.poll = s_poll /\ d.att = Tail(att)
      /\ d.gatt = s_gatt /\ d.polling = polling /\ d.broken = broken
      /\ d.disturbed = disturbed /\ d.phase = phase
  <2>1. d.att = Tail(att)
    BY <1>1, WorkIs DEF Done, Sized, Works
  <2> QED BY <1>1, <2>1, Passed, DoneDoes, WorkIs
<1> HIDE DEF d
<1>4. polls \in Polls /\ polls.handles = s_poll.handles /\ polls.current = s_poll.current
  BY <1>2, <1>3 DEF Sized, Works, Polls
<1>5. /\ s_poll' = polls /\ att' = Tail(att) /\ PollFrame
  BY DEF OnPollRead
<1> HIDE DEF polls
<1>6. /\ r \in Works /\ r.gatt = d.gatt /\ r.poll = polls /\ r.att = d.att
      /\ r.polling = d.polling /\ r.phase = d.phase /\ r.broken = d.broken
      /\ r.disturbed = d.disturbed
  BY <1>3, <1>4 DEF Sized, Works
<1> HIDE DEF r
<1>7. Sized(r) /\ Becomes(r)
  BY <1>3, <1>4, <1>5, <1>6 DEF Sized, Becomes, PollFrame, history
<1>8. Discovery(s_disc_gen, r)
  BY <1>1, <1>3, <1>4, <1>6, <1>7, Unmoved
<1>9. Sized(Work)' /\ Discovery(s_disc_gen, Work)'
  BY <1>5, <1>7, <1>8, Carried DEF PollFrame
<1>10. heard' = heard \/ heard' = key
  BY DEF OnPollRead, ReadCode
<1>11. /\ key' \in {0} \cup Inputs /\ missed' \in BOOLEAN /\ heard' \in Nat /\ KeyUpHeard'
  <2>1. key \in Nat
    BY <1>1, ServiceFacts DEF GattInv, GattTypes, Inputs
  <2> QED BY <1>5, <1>10, <2>1 DEF PollFrame, GattInv, GattTypes, KeyUpHeard
<1>12. /\ enabled' \subseteq Nat /\ left' = left
       /\ left \in [links : Nat, sessions : Nat, errors : Nat, polls : Nat, keys : Nat]
  BY <1>5 DEF PollFrame, GattInv, GattTypes
<1> QED BY <1>5, <1>9, <1>11, <1>12, Framed DEF PollFrame

\* The statics, the timer and the stack are left alone.
LEMMA WorkKept ==
    ASSUME GattInv, layout' = layout, s_disc_gen' = s_disc_gen, s_gatt' = s_gatt,
           s_poll' = s_poll, polling' = polling, att' = att, UNCHANGED history
    PROVE  Sized(Work)' /\ Discovery(s_disc_gen, Work)'
<1>1. Becomes(Work)
  BY WorkIs DEF Becomes, history
<1> QED BY <1>1, Carried DEF GattInv, GattTypes

\* poll_timer_cb takes an index and a count from the list.
LEMMA PollTurnKeeps == ASSUME GattInv, PollTurn PROVE GattInv'
<1>1. Sized(Work)' /\ Discovery(s_disc_gen, Work)'
  BY WorkKept DEF PollTurn
<1>2. pcb' \in [idx : 1 .. MAX_POLL_HANDLES, count : 1 .. MAX_POLL_HANDLES]
  <2>1. Sized(Work) /\ MAX_POLL_HANDLES \in Nat
    BY BleGattAssumption DEF GattInv, GattTypes
  <2>2. /\ s_poll.handles \in Seq(Nat) /\ Len(s_poll.handles) <= MAX_POLL_HANDLES
        /\ s_poll.current \in Nat /\ s_poll.current < MAX_POLL_HANDLES
    BY <2>1, WorkIs DEF Sized, Works, Polls
  <2>3. Len(s_poll.handles) \in 1 .. MAX_POLL_HANDLES
    BY <2>1, <2>2 DEF PollTurn
  <2>4. s_poll.current + 1 \in 1 .. MAX_POLL_HANDLES
    BY <2>1, <2>2
  <2> QED BY <2>3, <2>4 DEF PollTurn
<1>3. /\ left' \in [links : Nat, sessions : Nat, errors : Nat, polls : Nat, keys : Nat]
      /\ left'.sessions = left.sessions /\ left'.links = left.links
  BY SpendDoes DEF PollTurn
<1>4. /\ enabled' \subseteq Nat /\ key' \in {0} \cup Inputs /\ missed' \in BOOLEAN /\ heard' \in Nat
      /\ KeyUpHeard'
  BY DEF PollTurn, keys, GattInv, GattTypes, KeyUpHeard
<1> QED BY <1>1, <1>2, <1>3, <1>4, Framed DEF PollTurn

\* poll_timer_cb uses both when the list may be another; the request it makes is not one of
\* the discovery, and behind every one of its requests.
LEMMA PollReadKeeps == ASSUME GattInv, PollRead PROVE GattInv'
<1> DEFINE polls == [s_poll EXCEPT !.current = pcb.idx % pcb.count]
<1> DEFINE handle == IF pcb.idx \in DOMAIN s_poll.handles THEN s_poll.handles[pcb.idx] ELSE 0
<1> DEFINE p == Proc("poll", pcb.idx, handle)
<1> DEFINE v == [Work EXCEPT !.poll = polls, !.disturbed = disturbed \/ phase = "going"]
<1> DEFINE r == [v EXCEPT !.att = att']
<1>1. /\ s_disc_gen \in Gens /\ Sized(Work) /\ Discovery(s_disc_gen, Work)
      /\ MAX_POLL_HANDLES \in Nat
      /\ pcb.idx \in 1 .. MAX_POLL_HANDLES /\ pcb.count \in 1 .. MAX_POLL_HANDLES
  BY BleGattAssumption DEF GattInv, GattTypes, PollRead
<1>2. pcb.idx % pcb.count \in 0 .. MAX_POLL_HANDLES - 1
  <2>1. pcb.idx % pcb.count \in 0 .. pcb.count - 1
    BY <1>1
  <2> QED BY <1>1, <2>1
<1>3. /\ polls \in Polls /\ polls.handles = s_poll.handles /\ polls.current < MAX_POLL_HANDLES
      /\ s_poll.handles \in Seq(Nat)
  <2>1. s_poll \in Polls
    BY <1>1, WorkIs DEF Sized, Works
  <2>2. pcb.idx % pcb.count \in Nat /\ pcb.idx % pcb.count < MAX_POLL_HANDLES
    BY <1>1, <1>2
  <2> QED BY <2>1, <2>2 DEF Polls
<1>4. p \in Procs /\ p.op = "poll"
  <2>1. handle \in Nat
    BY <1>3
  <2> HIDE DEF handle
  <2>2. p = [op |-> "poll", gen |-> s_disc_gen, idx |-> pcb.idx, at |-> handle, upto |-> 0]
    BY DEF Proc
  <2>3. pcb.idx \in Nat /\ s_disc_gen <= s_disc_gen /\ "poll" \in Ops
    BY <1>1 DEF Gens, Ops
  <2> QED BY <1>1, <2>1, <2>2, <2>3 DEF Procs
<1>5. att' = att \/ (att' = Append(att, p) /\ Len(att) < MAX_PROCS)
  <2>1. att' = att \/ att' = Send(Work, p).att
    BY DEF PollRead
  <2>2. \/ Send(Work, p).att = att
        \/ Send(Work, p).att = Append(att, p) /\ Len(att) < MAX_PROCS
    <3> HIDE DEF p
    <3>1. CASE Len(att) < MAX_PROCS
      <4>1. Send(Work, p) = [Work EXCEPT !.att = Append(@, p)]
        BY <3>1, WorkIs DEF Send
      <4> QED BY <1>1, <3>1, <4>1, WorkIs DEF Sized, Works
    <3>2. CASE ~(Len(att) < MAX_PROCS)
      <4>1. Send(Work, p) = [Work EXCEPT !.broken = TRUE]
        BY <3>2, WorkIs DEF Send
      <4>2. Send(Work, p).att = Work.att
        BY <1>1, <4>1 DEF Sized, Works
      <4> QED BY <4>2, WorkIs
    <3> QED BY <3>1, <3>2
  <2> QED BY <2>1, <2>2
<1> HIDE DEF p
<1>6. att' \in Seq(Procs) /\ Len(att') <= MAX_PROCS
  <2>1. att \in Seq(Procs) /\ Len(att) \in Nat /\ Len(att) <= MAX_PROCS /\ MAX_PROCS \in Nat
    BY <1>1, WorkFields, WorkIs, BleGattAssumption DEF Sized
  <2>2. Append(att, p) \in Seq(Procs) /\ Len(Append(att, p)) = Len(att) + 1
    BY <1>4, <2>1, AppendSeq
  <2> QED BY <1>5, <2>1, <2>2
<1>7. /\ v \in Works /\ v.gatt = s_gatt /\ v.poll = polls /\ v.polling = polling /\ v.att = att
      /\ v.broken = broken /\ v.phase = phase /\ v.disturbed = (disturbed \/ phase = "going")
  <2> HIDE DEF polls
  <2>1. disturbed \in BOOLEAN
    BY <1>1, WorkIs DEF Sized, Works
  <2> QED BY <1>1, <1>3, <2>1, WorkIs DEF Sized, Works
<1> HIDE DEF v
<1>8. Sized(v)
  BY <1>1, <1>3, <1>7, WorkIs DEF Sized
<1>9. Discovery(s_disc_gen, v)
  BY <1>1, <1>3, <1>7, <1>8, WorkIs, Unmoved
<1>10. /\ Sized(r) /\ r.gatt = v.gatt /\ r.poll = v.poll /\ r.polling = v.polling
       /\ r.phase = v.phase /\ r.disturbed = v.disturbed /\ r.broken = v.broken
       /\ r.att = att'
  BY <1>6, <1>8, AttSet
<1> HIDE DEF r
<1>11. Discovery(s_disc_gen, r)
  BY <1>1, <1>4, <1>5, <1>7, <1>8, <1>9, <1>10, Ignored, Unmoved
<1>12. Becomes(r)
  BY <1>7, <1>10 DEF Becomes, PollRead
<1>13. Sized(Work)' /\ Discovery(s_disc_gen, Work)'
  BY <1>10, <1>11, <1>12, Carried DEF PollRead
<1>14. /\ enabled' \subseteq Nat /\ key' \in {0} \cup Inputs /\ missed' \in BOOLEAN /\ heard' \in Nat
       /\ KeyUpHeard' /\ pcb' = NoPoll
       /\ left' = left
       /\ left \in [links : Nat, sessions : Nat, errors : Nat, polls : Nat, keys : Nat]
  BY DEF PollRead, keys, GattInv, GattTypes, KeyUpHeard
<1> QED BY <1>13, <1>14, Framed DEF PollRead

\* The generations do not repeat.
LEMMA NextIsNew ==
    ASSUME GattInv, connected
    PROVE  /\ NextGen = s_disc_gen + 1 /\ s_disc_gen + 1 \in Gens /\ s_disc_gen \in Nat
           /\ left.sessions \in Nat /\ left.links \in Nat
           /\ s_disc_gen + left.sessions + left.links + 1 < GENERATIONS
<1>1. /\ s_disc_gen \in Nat /\ left.sessions \in Nat /\ left.links \in Nat
      /\ s_disc_gen + left.sessions + left.links + 1 < GENERATIONS
  BY DEF GattInv, GattTypes, Generations, Gens
<1> QED BY <1>1 DEF NextGen, Gens, GENERATIONS

\* A new link keeps the invariant.
LEMMA ConnectKeeps == ASSUME GattInv, Connect PROVE GattInv'
<1>1. Sized(Work)' /\ Discovery(s_disc_gen, Work)'
  BY WorkKept DEF Connect, LinkFrame
<1>2. Inputs' = Inputs /\ NoPoll' = NoPoll
  BY LayoutKept DEF Connect, LinkFrame, NoPoll
<1>3. /\ left' \in [links : Nat, sessions : Nat, errors : Nat, polls : Nat, keys : Nat]
      /\ left'.sessions = left.sessions /\ left'.links = left.links - 1
  BY SpendDoes DEF Connect
<1>4. GattTypes'
  BY <1>1, <1>2, <1>3 DEF Connect, LinkFrame, keys, GattInv, GattTypes, Gens
<1>5. Generations'
  <2>1. /\ s_disc_gen \in Nat /\ left.sessions \in Nat /\ left.links \in Nat
        /\ s_disc_gen + left.sessions + left.links < GENERATIONS
    BY DEF GattInv, GattTypes, Generations, Gens, Connect
  <2>2. s_disc_gen' = s_disc_gen /\ connected' = TRUE
    BY DEF Connect
  <2> QED BY <1>3, <2>1, <2>2 DEF Generations, GENERATIONS
<1>6. KeyUpHeard'
  BY DEF Connect, LinkFrame, keys, GattInv, KeyUpHeard
<1> QED BY <1>1, <1>4, <1>5, <1>6 DEF GattInv

\* The procedures end with the link, and no procedure is one of the next discovery.
LEMMA DisconnectKeeps == ASSUME GattInv, Disconnect PROVE GattInv'
<1>1. /\ s_disc_gen' = s_disc_gen + 1 /\ s_disc_gen + 1 \in Gens /\ connected' = FALSE
      /\ s_disc_gen \in Nat /\ left.sessions \in Nat /\ left.links \in Nat /\ left' = left
      /\ s_disc_gen + left.sessions + left.links + 1 < GENERATIONS
  BY NextIsNew DEF Disconnect
<1>2. Sized(Work) /\ Work \in Works
  BY DEF GattInv, GattTypes, Sized
<1>3. /\ s_gatt' = s_gatt /\ s_poll' = s_poll /\ polling' = FALSE /\ att' = <<>>
      /\ broken' = broken /\ disturbed' = disturbed /\ phase' = "none"
  BY <1>2, WorkIs DEF Disconnect, Becomes, Works
<1>4. /\ Work.gatt' = s_gatt /\ Work.poll' = s_poll /\ Work.att' = <<>> /\ Work.phase' = "none"
      /\ Work' = [gatt |-> s_gatt, poll |-> s_poll, polling |-> FALSE, att |-> <<>>,
                  broken |-> broken, disturbed |-> disturbed, phase |-> "none"]
  BY <1>3 DEF Work
<1>5. Sized(Work)'
  <2>1. Work' \in [gatt : Gatts, poll : Polls, polling : BOOLEAN, att : Seq(Procs'),
                   broken : BOOLEAN, disturbed : BOOLEAN, phase : {"none", "going", "ready"}]
    BY <1>2, <1>4, WorkIs DEF Works
  <2>2. MAX_PROCS \in Nat
    BY BleGattAssumption
  <2> QED BY <1>2, <1>4, <2>1, <2>2, WorkIs DEF Sized, Works
<1>6. Silent(s_disc_gen, Work)'
  BY <1>4 DEF Silent
<1>7. Inputs' = Inputs /\ NoPoll' = NoPoll
  BY LayoutKept DEF Disconnect, LinkFrame, NoPoll
<1>8. GattTypes'
  BY <1>1, <1>5, <1>7 DEF Disconnect, LinkFrame, keys, GattInv, GattTypes, Gens
<1>9. Generations'
  BY <1>1 DEF Generations, GENERATIONS
<1>10. KeyUpHeard'
  BY DEF Disconnect, LinkFrame, keys, GattInv, KeyUpHeard
<1> QED BY <1>6, <1>8, <1>9, <1>10 DEF GattInv, Discovery

\* start_discovery takes a generation that no procedure has.
LEMMA StartDiscoveryKeeps == ASSUME GattInv, StartDiscovery PROVE GattInv'
<1> DEFINE g == s_disc_gen + 1
<1> DEFINE p == [Proc("svcs", 0, 0) EXCEPT !.gen = NextGen]
<1>1. /\ s_disc_gen' = g /\ g \in Gens /\ connected /\ connected' = TRUE /\ NextGen = g
      /\ s_disc_gen \in Nat /\ left.sessions \in Nat /\ left.links \in Nat
      /\ left.sessions > 0 /\ left'.sessions = left.sessions - 1 /\ left'.links = left.links
      /\ left' \in [links : Nat, sessions : Nat, errors : Nat, polls : Nat, keys : Nat]
      /\ s_disc_gen + left.sessions + left.links + 1 < GENERATIONS
  BY NextIsNew, SpendDoes DEF StartDiscovery
<1>2. /\ Sized(Work) /\ Work \in Works /\ att \in Seq(Procs) /\ Len(att) \in Nat
      /\ Len(att) <= MAX_PROCS /\ MAX_PROCS \in Nat
  BY WorkFields, WorkIs, BleGattAssumption DEF GattInv, GattTypes, Sized
<1>3. p = [op |-> "svcs", gen |-> g, idx |-> 0, at |-> 0, upto |-> 0]
  BY <1>1 DEF Proc
<1> HIDE DEF p
<1>4. /\ s_gatt' = NoGatt /\ s_poll' = NoPolls /\ polling' = FALSE /\ phase' = "going"
      /\ disturbed' \in BOOLEAN /\ broken' \in BOOLEAN
      /\ att' = att \/ (att' = Append(att, p) /\ Len(att) < MAX_PROCS)
  <2> DEFINE b == phase # "none"
  <2> DEFINE v == [Work EXCEPT !.gatt = NoGatt, !.poll = NoPolls, !.polling = FALSE,
                               !.broken = FALSE, !.disturbed = b, !.phase = "going"]
  <2>1. Becomes(Send(v, p))
    BY DEF StartDiscovery, p
  <2>2. b \in BOOLEAN
    OBVIOUS
  <2> HIDE DEF b
  <2>3. /\ v \in [gatt : {NoGatt}, poll : {NoPolls}, polling : {FALSE}, att : {att},
                  broken : {FALSE}, disturbed : BOOLEAN, phase : {"going"}]
    BY <1>2, <2>2, WorkIs DEF Works
  <2> HIDE DEF v
  <2>4. /\ v.gatt = NoGatt /\ v.poll = NoPolls /\ v.polling = FALSE /\ v.att = att
        /\ v.broken \in BOOLEAN /\ v.disturbed \in BOOLEAN /\ v.phase = "going"
    BY <2>3
  <2>5. CASE Len(att) < MAX_PROCS
    <3> DEFINE r == [v EXCEPT !.att = Append(att, p)]
    <3>1. Send(v, p) = r
      BY <2>4, <2>5 DEF Send
    <3>2. /\ r.gatt = v.gatt /\ r.poll = v.poll /\ r.polling = v.polling
          /\ r.att = Append(att, p) /\ r.broken = v.broken /\ r.disturbed = v.disturbed
          /\ r.phase = v.phase
      BY <2>3
    <3> HIDE DEF r
    <3> QED BY <2>1, <2>4, <2>5, <3>1, <3>2 DEF Becomes
  <2>6. CASE ~(Len(att) < MAX_PROCS)
    <3> DEFINE r == [v EXCEPT !.broken = TRUE]
    <3>1. Send(v, p) = r
      BY <2>4, <2>6 DEF Send
    <3>2. /\ r.gatt = v.gatt /\ r.poll = v.poll /\ r.polling = v.polling
          /\ r.att = v.att /\ r.broken \in BOOLEAN /\ r.disturbed = v.disturbed
          /\ r.phase = v.phase
      BY <2>3
    <3> HIDE DEF r
    <3> QED BY <2>1, <2>4, <3>1, <3>2 DEF Becomes
  <2> QED BY <2>5, <2>6
<1>5. Work' = [gatt |-> NoGatt, poll |-> NoPolls, polling |-> FALSE, att |-> att',
               broken |-> broken', disturbed |-> disturbed', phase |-> "going"]
  BY <1>4 DEF Work
<1>6. p \in Procs' /\ Procs \subseteq Procs'
  BY <1>1, <1>3 DEF Procs, Ops, Gens
<1>7. att' \in Seq(Procs') /\ Len(att') <= MAX_PROCS
  <2>1. att \in Seq(Procs')
    BY <1>2, <1>6
  <2>2. Append(att, p) \in Seq(Procs') /\ Len(Append(att, p)) = Len(att) + 1
    BY <1>6, <2>1, AppendSeq
  <2> QED BY <1>2, <1>4, <2>1, <2>2
<1>8. NoGatt \in Gatts /\ NoPolls \in Polls
  BY DEF NoGatt, NoPolls, Gatts, Polls
<1>9. Sized(Work)'
  <2>1. (Work \in Works)'
    BY <1>4, <1>5, <1>7, <1>8 DEF Works
  <2>2. /\ MAX_REPORTS \in Nat /\ MAX_POLL_HANDLES \in Nat \ {0}
        /\ Len(NoGatt.reports) = 0 /\ Len(NoGatt.subs) = 0 /\ Len(NoGatt.cccd) = 0
        /\ Len(NoGatt.ref) = 0 /\ Len(NoPolls.handles) = 0 /\ NoPolls.current = 0
    BY BleGattAssumption DEF NoGatt, NoPolls
  <2> QED BY <1>5, <1>7, <2>1, <2>2 DEF Sized
<1>10. Listing(s_disc_gen, Work)'
  <2>1. ASSUME NEW k \in 1 .. Len(att'), att'[k].gen = g PROVE k = Len(att) + 1 /\ att'[k] = p
    <3>1. CASE k \in 1 .. Len(att)
      <4>1. att'[k] = att[k] /\ att[k] \in Procs
        BY <1>2, <1>4, <1>6, <3>1
      <4>2. att[k].gen \in Int /\ att[k].gen <= s_disc_gen
        BY <4>1 DEF Procs, Gens
      <4> QED BY <1>1, <2>1, <4>1, <4>2
    <3>2. CASE k \notin 1 .. Len(att)
      BY <1>2, <1>4, <3>2
    <3> QED BY <3>1, <3>2
  <2>2. Work.gatt.reports' = <<>> /\ Work.att' = att' /\ Work.phase' = "going"
    BY <1>5 DEF NoGatt
  <2> QED BY <1>1, <1>3, <2>1, <2>2 DEF Listing, IsCurrent
<1>11. Inputs' = Inputs /\ NoPoll' = NoPoll
  BY LayoutKept DEF StartDiscovery, LinkFrame, NoPoll
<1>12. GattTypes'
  BY <1>1, <1>9, <1>11 DEF StartDiscovery, LinkFrame, keys, GattInv, GattTypes, Gens
<1>13. Generations'
  BY <1>1 DEF Generations, GENERATIONS
<1>14. KeyUpHeard'
  BY DEF StartDiscovery, LinkFrame, keys, GattInv, KeyUpHeard
<1> QED BY <1>10, <1>12, <1>13, <1>14 DEF GattInv, Discovery

\* While the code calls the keyboard ready, the promise of the discovery is kept.
LEMMA ReadyIsKept == ASSUME GattInv PROVE NoneForgotten
<1> SUFFICES ASSUME Complete, NEW v \in Inputs, v \notin Misled PROVE v \in Subs \cup Polled
  BY DEF NoneForgotten
<1>1. /\ layout \in Layouts /\ Sized(Work) /\ Discovery(s_disc_gen, Work)
      /\ phase = "ready" /\ ~Excused(Work) /\ Len(s_gatt.reports) # MAX_REPORTS
  BY WorkIs DEF GattInv, GattTypes, Complete, Full, Excused, WFull
<1>2. Chained(s_disc_gen, Work, 1, 0)
  BY <1>1, WorkIs DEF Discovery, Silent, Listing
<1>3. v \in Values /\ v <= SvcEnd
  BY <1>1, ServiceFacts DEF Inputs
<1>4. PICK i \in 1 .. Len(s_gatt.reports) : s_gatt.reports[i] = v
  BY <1>1, <1>2, <1>3, WorkIs DEF Chained, Scanned
<1>5. Covered(Work, i)
  BY <1>1, <1>2, <1>4, WorkIs DEF Chained, Following, Ready, Wants, Wanted
<1> QED BY <1>4, <1>5, WorkIs DEF Covered, Subs, Polled

\* A key that goes down is heard or not; nothing else changes.
LEMMA KeyDownKeeps == ASSUME GattInv, NEW v \in Inputs, KeyDown(v) PROVE GattInv'
<1>1. Sized(Work)' /\ Discovery(s_disc_gen, Work)'
  BY WorkKept DEF KeyDown, KeyFrame
<1>2. /\ left' \in [links : Nat, sessions : Nat, errors : Nat, polls : Nat, keys : Nat]
      /\ left'.sessions = left.sessions /\ left'.links = left.links
  BY SpendDoes DEF KeyDown
<1>3. v \in Nat
  BY ServiceFacts DEF GattInv, GattTypes, Inputs
<1>4. /\ enabled' \subseteq Nat /\ key' \in {0} \cup Inputs /\ missed' \in BOOLEAN /\ heard' \in Nat
      /\ pcb' = pcb
  BY <1>3 DEF KeyDown, KeyFrame, GattInv, GattTypes
<1>5. KeyUpHeard'
  BY DEF KeyDown, GattInv, KeyUpHeard
<1> QED BY <1>1, <1>2, <1>4, <1>5, Framed DEF KeyDown, KeyFrame

\* A key that goes up after a complete discovery is heard: its report is in a list.
LEMMA KeyUpKeeps == ASSUME GattInv, KeyUp PROVE GattInv'
<1>1. Sized(Work)' /\ Discovery(s_disc_gen, Work)'
  BY WorkKept DEF KeyUp, KeyFrame
<1>2. /\ left' = left
      /\ left \in [links : Nat, sessions : Nat, errors : Nat, polls : Nat, keys : Nat]
      /\ enabled' \subseteq Nat /\ key' \in {0} \cup Inputs /\ heard' \in Nat /\ pcb' = pcb
  BY DEF KeyUp, KeyFrame, GattInv, GattTypes
<1>3. missed' \in BOOLEAN
  BY DEF KeyUp, GattInv, GattTypes
<1>4. KeyUpHeard'
  <2>1. key \in Inputs
    BY DEF KeyUp, GattInv, GattTypes
  <2>2. CASE Hears(key)
    BY <2>2 DEF KeyUp, KeyUpHeard
  <2>3. CASE ~Hears(key)
    <3>1. NoneForgotten
      BY ReadyIsKept
    <3>2. ~Complete \/ key \in Misled \/ key \in Polled \/ ~Notified(key)
      BY <2>1, <2>3, <3>1 DEF NoneForgotten, Hears
    <3> QED BY <3>2 DEF KeyUp, KeyUpHeard
  <2> QED BY <2>2, <2>3
<1> QED BY <1>1, <1>2, <1>3, <1>4, Framed DEF KeyUp, KeyFrame

\* The invariant holds before the first link.
LEMMA GattInitInv == GattInit => GattInv
<1> SUFFICES ASSUME GattInit PROVE GattInv
  OBVIOUS
<1>1. Work = [gatt |-> NoGatt, poll |-> NoPolls, polling |-> FALSE, att |-> <<>>,
              broken |-> FALSE, disturbed |-> FALSE, phase |-> "none"]
  BY DEF Work, GattInit
<1>2. NoGatt \in Gatts /\ NoPolls \in Polls
  BY DEF NoGatt, NoPolls, Gatts, Polls
<1>3. Sized(Work)
  <2>1. Work \in Works
    BY <1>1, <1>2 DEF Works
  <2>2. /\ MAX_REPORTS \in Nat /\ MAX_POLL_HANDLES \in Nat \ {0} /\ MAX_PROCS \in Nat
        /\ Len(NoGatt.reports) = 0 /\ Len(NoGatt.subs) = 0 /\ Len(NoGatt.cccd) = 0
        /\ Len(NoGatt.ref) = 0 /\ Len(NoPolls.handles) = 0 /\ NoPolls.current = 0
    BY BleGattAssumption DEF NoGatt, NoPolls
  <2> QED BY <1>1, <2>1, <2>2 DEF Sized
<1>4. left \in [links : Nat, sessions : Nat, errors : Nat, polls : Nat, keys : Nat]
      /\ left.links + left.sessions < GENERATIONS
  BY BleGattAssumption DEF GattInit
<1>5. GattTypes
  <2>1. s_disc_gen \in Gens /\ enabled \subseteq Nat /\ heard \in Nat
    BY DEF GattInit, Gens, GENERATIONS
  <2> QED BY <1>3, <1>4, <2>1 DEF GattInit, GattTypes
<1>6. Generations
  BY <1>4 DEF GattInit, Generations
<1>7. Discovery(s_disc_gen, Work)
  BY <1>1 DEF Discovery, Silent
<1> QED BY <1>5, <1>6, <1>7 DEF GattInit, GattInv, KeyUpHeard

\* Every step keeps the invariant.
LEMMA GattNextInv == GattInv /\ [GattNext]_gattVars => GattInv'
<1> SUFFICES ASSUME GattInv, [GattNext]_gattVars PROVE GattInv'
  OBVIOUS
<1>1. CASE Connect
  BY <1>1, ConnectKeeps
<1>2. CASE StartDiscovery
  BY <1>2, StartDiscoveryKeeps
<1>3. CASE Disconnect
  BY <1>3, DisconnectKeeps
<1>4. CASE OnDiscSvcs \/ OnDiscChr \/ OnDiscChrsDone \/ OnDiscDsc \/ OnDiscDscsDone \/ DiscoveryFails
  BY <1>4, AnswerKeeps
<1>5. CASE OnPollRead
  BY <1>5, OnPollReadKeeps
<1>6. CASE \E ok \in BOOLEAN : OnReadReportRef(ok) \/ OnWriteCccd(ok)
  BY <1>6, AccessKeeps
<1>7. CASE PollTurn
  BY <1>7, PollTurnKeeps
<1>8. CASE PollRead
  BY <1>8, PollReadKeeps
<1>9. CASE KeyUp
  BY <1>9, KeyUpKeeps
<1>10. CASE \E v \in Inputs : KeyDown(v)
  BY <1>10, KeyDownKeeps
<1>11. CASE UNCHANGED gattVars
  <2>1. Sized(Work)' /\ Discovery(s_disc_gen, Work)'
    BY <1>11, WorkKept DEF gattVars
  <2>2. /\ left' = left
        /\ left \in [links : Nat, sessions : Nat, errors : Nat, polls : Nat, keys : Nat]
        /\ enabled' \subseteq Nat /\ key' \in {0} \cup Inputs /\ missed' \in BOOLEAN
        /\ heard' \in Nat /\ pcb' = pcb /\ KeyUpHeard'
    BY <1>11 DEF gattVars, keys, GattInv, GattTypes, KeyUpHeard
  <2> QED BY <1>11, <2>1, <2>2, Framed DEF gattVars
<1> QED
  BY <1>1, <1>2, <1>3, <1>4, <1>5, <1>6, <1>7, <1>8, <1>9, <1>10, <1>11 DEF GattNext, GattTask

\* The inductive invariant holds, for every layout of the services, every size of the
\* lists, the pool and the responses.
THEOREM GattInvariant == GattSpec => []GattInv
BY GattInitInv, GattNextInv, PTL DEF GattSpec

\* The invariant implies the bounds of the arrays and of the indices into them.
LEMMA InvTypeOK == GattInv => GattTypeOK
<1> SUFFICES ASSUME GattInv PROVE GattTypeOK
  OBVIOUS
<1>1. /\ Sized(Work) /\ Discovery(s_disc_gen, Work) /\ connected \in BOOLEAN
      /\ MAX_POLL_HANDLES \in Nat
  BY BleGattAssumption DEF GattInv, GattTypes
<1>2. /\ polling \in BOOLEAN /\ phase \in {"none", "going", "ready"}
      /\ Len(att) <= MAX_PROCS /\ att \in Seq(Procs)
      /\ Len(s_gatt.reports) <= MAX_REPORTS /\ Len(s_gatt.subs) <= MAX_REPORTS
      /\ Len(s_poll.handles) <= MAX_POLL_HANDLES /\ s_poll.current \in 0 .. MAX_POLL_HANDLES - 1
  BY <1>1, WorkIs DEF Sized, Works, Polls
<1>3. ASSUME NEW p \in ToSet(att)
      PROVE  /\ p.op = "poll" => p.idx \in 1 .. MAX_POLL_HANDLES
             /\ p.op \in OfReports /\ p.gen = s_disc_gen => p.idx \in 1 .. Len(s_gatt.reports)
  <2>1. PICK k \in 1 .. Len(att) : p = att[k]
    BY <1>2 DEF ToSet
  <2>2. p \in Procs
    BY <1>2, <2>1
  <2>3. ASSUME p.op \in OfReports, p.gen = s_disc_gen PROVE p.idx \in 1 .. Len(s_gatt.reports)
    <3>1. IsCurrent(s_disc_gen, Work, k)
      BY <2>1, <2>3, WorkIs DEF IsCurrent, OfReports
    <3>2. Chained(s_disc_gen, Work, 1, 0)
      BY <1>1, <2>1, <2>3, <3>1, WorkIs DEF Discovery, Silent, Listing, OfReports
    <3> QED BY <2>1, <3>1, <3>2, WorkIs DEF Chained, Placed
  <2> QED BY <2>2, <2>3 DEF Procs
<1> QED BY <1>1, <1>2, <1>3 DEF GattTypeOK, OfReports

\* The static arrays of ble_hid_host.c never overflow, and no index that an answer or
\* the timer uses is outside its array.
THEOREM GattTypesHold == GattSpec => []GattTypeOK
BY GattInvariant, InvTypeOK, PTL

\* When on_hid_ready is reached, each input report is subscribed or polled, whichever reads
\* and writes the keyboard refused and however the callbacks of two discoveries and the
\* polling timer interleave, with the exceptions that NoneForgotten names.
THEOREM NoInputForgotten == GattSpec => []NoneForgotten
BY GattInvariant, ReadyIsKept, PTL

\* The invariant has KeyUpHeard as a part.
LEMMA InvKeyUp == GattInv => KeyUpHeard
BY DEF GattInv

\* The engine does not take a key for pressed that has gone up, with the exceptions that
\* KeyUpHeard names.
THEOREM KeyUpIsHeard == GattSpec => []KeyUpHeard
BY GattInvariant, InvKeyUp, PTL

=============================================================================
