------------------------------- MODULE BleLink -------------------------------
(***************************************************************************)
(* ble_hid_host.c: the link to a BLE keyboard.  Three tasks change s_ctx:      *)
(* httpd (scan, connect, disconnect), the timer task (reconnect) and the       *)
(* NimBLE host task (GAP events, in the order they happened).  No lock.        *)
(*                                                                         *)
(* The stack is external: one connection (CONFIG_BT_NIMBLE_MAX_CONNECTIONS),   *)
(* one GAP procedure at a time, a scan or a connect; the cancelling of a       *)
(* connect completes later, as the comment of ble_hid_host_connect says.      *)
(***************************************************************************)
EXTENDS Integers, Sequences, FiniteSets

CONSTANTS Peers,       \* keyboards
          NoPeer,      \* no keyboard, no handle, no record in NVS
          ATTEMPTS,    \* gap_connect calls of one ble_hid_host_connect
          MaxCalls,    \* bound: calls by httpd
          MaxDrops,    \* bound: connects and links that fail
          MaxRestarts  \* bound: power cycles

ASSUME BleLinkAssumption ==
    /\ NoPeer \notin Peers /\ ATTEMPTS \in Nat \ {0}
    /\ MaxCalls \in Nat /\ MaxDrops \in Nat /\ MaxRestarts \in Nat

VARIABLES
    s_ctx,          \* conn_handle, connected, peer_addr, peer_known
    stored,         \* the peer record in NVS
    timer,          \* s_reconnect_timer is running
    cb,             \* reconnect_timer_cb: "idle", or "connect" past its test
    estab,          \* LINK_ESTAB handler: "idle", or "store" before it stores
    api,            \* the call httpd is in: where, attempt
    gap,            \* stack: the procedure under way
    link,           \* stack: the connection, up once established
    events,         \* stack: GAP events on their way to the host task
    synced,         \* stack: on_sync has been called
    calls, drops, restarts   \* bounded counters

stack == <<gap, link, events>>
counters == <<calls, drops, restarts>>
vars == <<s_ctx, stored, timer, cb, estab, api, stack, synced, counters>>

Handles == Peers \cup {NoPeer}   \* a connection's handle is named by its keyboard
NoProcedure == [proc |-> "none"]
NoLink == [to |-> NoPeer, up |-> FALSE, terminated |-> FALSE]
ApiCalls == {"idle", "peer", "attempt", "again", "forget", "clear", "terminate"}
ApiIdle == [at |-> "idle"]
FreshCtx == [conn_handle |-> NoPeer, connected |-> FALSE, peer_addr |-> NoPeer,
             peer_known |-> FALSE]

Init ==
    /\ s_ctx = FreshCtx /\ stored = NoPeer /\ timer = FALSE /\ cb = "idle" /\ estab = "idle"
    /\ api = ApiIdle /\ gap = NoProcedure /\ link = NoLink /\ events = <<>> /\ synced = FALSE
    /\ calls = 0 /\ drops = 0 /\ restarts = 0

-----------------------------------------------------------------------------
(* The stack.                                                                *)

Event(type, ok, peer) == [type |-> type, ok |-> ok, peer |-> peer]
Post(e) == events' = Append(events, e)
StackFrame == UNCHANGED <<s_ctx, stored, timer, cb, estab, api, synced, calls, restarts>>

\* What ble_gap_connect answers, and does when it accepts.
ConnectAnswer == CASE gap.proc = "connect" -> "already"
                   [] gap.proc = "scan" -> "busy"
                   [] gap.proc = "none" /\ link # NoLink -> "nomem"
                   [] OTHER -> "ok"
GapConnect(p) ==
    gap' = IF ConnectAnswer = "ok" THEN [proc |-> "connect", to |-> p, cancelled |-> FALSE]
                                   ELSE gap
\* ble_gap_disc_cancel and ble_gap_conn_cancel.
Cancelled == CASE gap.proc = "connect" -> [gap EXCEPT !.cancelled = TRUE]
               [] OTHER -> NoProcedure

\* The link layer connects, also when the cancelling comes too late.
ConnectDone ==
    /\ gap.proc = "connect" /\ link = NoLink
    /\ gap' = NoProcedure /\ link' = [NoLink EXCEPT !.to = gap.to]
    /\ Post(Event("CONNECT", TRUE, gap.to))
    /\ UNCHANGED drops /\ StackFrame
ConnectFails ==
    /\ gap.proc = "connect"
    /\ IF gap.cancelled THEN UNCHANGED drops ELSE drops < MaxDrops /\ drops' = drops + 1
    /\ gap' = NoProcedure /\ Post(Event("CONNECT", FALSE, gap.to))
    /\ UNCHANGED link /\ StackFrame
ScanEnds ==
    /\ gap.proc = "scan" /\ gap' = NoProcedure
    /\ UNCHANGED <<link, events, drops>> /\ StackFrame
LinkEstablished ==
    /\ link # NoLink /\ ~link.up
    /\ link' = [link EXCEPT !.up = TRUE]
    /\ Post(Event("LINK_ESTAB", TRUE, link.to))
    /\ UNCHANGED <<gap, drops>> /\ StackFrame
\* The link is lost, or fails to be established, or goes down as it was told to.
LinkLost ==
    /\ link # NoLink
    /\ IF link.terminated THEN UNCHANGED drops ELSE drops < MaxDrops /\ drops' = drops + 1
    /\ link' = NoLink
    /\ Post(IF link.up THEN Event("DISCONNECT", TRUE, link.to)
                       ELSE Event("LINK_ESTAB", FALSE, link.to))
    /\ UNCHANGED gap /\ StackFrame

-----------------------------------------------------------------------------
(* The host task: on_sync and gap_event_handler.                             *)

HostFrame == UNCHANGED <<cb, api, gap, link, counters>>

\* Without a call of the user before it, on_sync takes the peer of the last
\* session from NVS.
OnSync ==
    /\ ~synced /\ synced' = TRUE
    /\ IF ~s_ctx.peer_known /\ stored # NoPeer
       THEN /\ s_ctx' = [s_ctx EXCEPT !.peer_addr = stored, !.peer_known = TRUE]
            /\ timer' = TRUE
       ELSE UNCHANGED <<s_ctx, timer>>
    /\ UNCHANGED <<stored, estab, events>> /\ HostFrame

Taken(type, ok) ==
    /\ estab = "idle" /\ events # <<>> /\ Head(events).type = type /\ Head(events).ok = ok
    /\ events' = Tail(events)

OnConnect ==
    /\ Taken("CONNECT", TRUE)
    /\ s_ctx' = [s_ctx EXCEPT !.conn_handle = Head(events).peer]
    /\ UNCHANGED <<stored, timer, estab, synced>> /\ HostFrame

\* A wrong handler: a connect that was cancelled is not tried again.
OnConnectFailedForgets ==
    /\ Taken("CONNECT", FALSE) /\ UNCHANGED timer
    /\ UNCHANGED <<s_ctx, stored, estab, synced>> /\ HostFrame
OnConnectFailed ==
    /\ Taken("CONNECT", FALSE) /\ timer' = (timer \/ s_ctx.peer_known)
    /\ UNCHANGED <<s_ctx, stored, estab, synced>> /\ HostFrame

\* LINK_ESTAB marks the link and then stores the peer.
OnLinkEstab ==
    /\ Taken("LINK_ESTAB", TRUE) /\ estab' = "store"
    /\ s_ctx' = [s_ctx EXCEPT !.connected = TRUE]
    /\ UNCHANGED <<stored, timer, synced>> /\ HostFrame
StorePeer ==
    /\ estab = "store" /\ estab' = "idle" /\ stored' = s_ctx.peer_addr
    /\ UNCHANGED <<s_ctx, timer, events, synced>> /\ HostFrame

OnLinkEstabFailed ==
    /\ Taken("LINK_ESTAB", FALSE)
    /\ s_ctx' = [s_ctx EXCEPT !.conn_handle = NoPeer]
    /\ timer' = (timer \/ s_ctx.peer_known)
    /\ UNCHANGED <<stored, estab, synced>> /\ HostFrame

\* A wrong handler: the flag stays.
OnDisconnectKeepsFlag ==
    /\ Taken("DISCONNECT", TRUE)
    /\ s_ctx' = [s_ctx EXCEPT !.conn_handle = NoPeer]
    /\ timer' = (timer \/ s_ctx.peer_known)
    /\ UNCHANGED <<stored, estab, synced>> /\ HostFrame
OnDisconnect ==
    /\ Taken("DISCONNECT", TRUE)
    /\ s_ctx' = [s_ctx EXCEPT !.connected = FALSE, !.conn_handle = NoPeer]
    /\ timer' = (timer \/ s_ctx.peer_known)
    /\ UNCHANGED <<stored, estab, synced>> /\ HostFrame

-----------------------------------------------------------------------------
(* reconnect_timer_cb: a test, and then the connect.                          *)

TimerFrame == UNCHANGED <<s_ctx, stored, estab, api, link, events, synced, counters>>
TimerFires ==
    /\ timer /\ cb = "idle" /\ timer' = FALSE
    /\ cb' = IF ~s_ctx.peer_known \/ s_ctx.connected THEN "idle" ELSE "connect"
    /\ UNCHANGED gap /\ TimerFrame
\* A wrong callback: no retry when the stack is busy.
TimerConnectOnce ==
    /\ cb = "connect" /\ cb' = "idle"
    /\ GapConnect(s_ctx.peer_addr) /\ UNCHANGED timer /\ TimerFrame
TimerConnect ==
    /\ cb = "connect" /\ cb' = "idle"
    /\ GapConnect(s_ctx.peer_addr)
    /\ timer' = (timer \/ ConnectAnswer # "ok") /\ TimerFrame

-----------------------------------------------------------------------------
(* The calls of httpd, one at a time.                                        *)

ApiFrame == UNCHANGED <<cb, estab, events, synced, drops, restarts>>
Call(at) == api = ApiIdle /\ synced /\ calls < MaxCalls /\ calls' = calls + 1

\* ble_hid_host_start_scan: ble_gap_disc fails while a connect is there, and a
\* connect that is being cancelled is.
Scan ==
    /\ Call("scan")
    /\ gap' = IF gap.proc = "connect" THEN Cancelled ELSE [proc |-> "scan"]
    /\ UNCHANGED <<s_ctx, stored, timer, api, link>> /\ ApiFrame

ConnectCall(p) ==
    /\ Call("connect") /\ api' = [at |-> "peer", to |-> p]
    /\ timer' = FALSE /\ gap' = Cancelled
    /\ UNCHANGED <<s_ctx, stored, link>> /\ ApiFrame
ConnectPeer ==
    /\ api.at = "peer" /\ api' = [at |-> "attempt", to |-> api.to, n |-> 1]
    /\ s_ctx' = [s_ctx EXCEPT !.peer_addr = api.to, !.peer_known = TRUE]
    /\ UNCHANGED <<stored, timer, gap, link, calls>> /\ ApiFrame
ConnectAttempt ==
    /\ api.at = "attempt" /\ GapConnect(api.to)
    /\ api' = IF ConnectAnswer \in {"already", "busy"} /\ api.n < ATTEMPTS
              THEN [api EXCEPT !.at = "again", !.n = @ + 1] ELSE ApiIdle
    /\ UNCHANGED <<s_ctx, stored, timer, link, calls>> /\ ApiFrame
ConnectAgain ==
    /\ api.at = "again" /\ api' = [api EXCEPT !.at = "attempt"] /\ gap' = Cancelled
    /\ UNCHANGED <<s_ctx, stored, timer, link, calls>> /\ ApiFrame

\* ble_hid_host_disconnect returns at once when nothing is connected.
DisconnectCall ==
    /\ Call("disconnect")
    /\ api' = IF s_ctx.connected THEN [at |-> "forget"] ELSE ApiIdle
    /\ UNCHANGED <<s_ctx, stored, timer, gap, link>> /\ ApiFrame
DisconnectForget ==
    /\ api.at = "forget" /\ api' = [at |-> "clear"]
    /\ s_ctx' = [s_ctx EXCEPT !.peer_known = FALSE] /\ timer' = FALSE
    /\ UNCHANGED <<stored, gap, link, calls>> /\ ApiFrame
DisconnectClear ==
    /\ api.at = "clear" /\ api' = [at |-> "terminate"] /\ stored' = NoPeer
    /\ UNCHANGED <<s_ctx, timer, gap, link, calls>> /\ ApiFrame
DisconnectTerminate ==
    /\ api.at = "terminate" /\ api' = ApiIdle
    /\ link' = [link EXCEPT !.terminated = link # NoLink /\ link.to = s_ctx.conn_handle]
    /\ UNCHANGED <<s_ctx, stored, timer, gap, calls>> /\ ApiFrame

\* The power fails.
Restart ==
    /\ restarts < MaxRestarts /\ restarts' = restarts + 1
    /\ s_ctx' = FreshCtx /\ timer' = FALSE /\ cb' = "idle" /\ estab' = "idle" /\ api' = ApiIdle
    /\ gap' = NoProcedure /\ link' = NoLink /\ events' = <<>> /\ synced' = FALSE
    /\ UNCHANGED <<stored, calls, drops>>

-----------------------------------------------------------------------------
HostTask == OnConnect \/ OnConnectFailed \/ OnLinkEstab \/ StorePeer \/ OnLinkEstabFailed
                \/ OnDisconnect
TimerTask == TimerFires \/ TimerConnect
Httpd == ConnectPeer \/ ConnectAttempt \/ ConnectAgain
            \/ DisconnectForget \/ DisconnectClear \/ DisconnectTerminate
Stack == ConnectDone \/ ConnectFails \/ ScanEnds \/ LinkEstablished \/ LinkLost
Next == \/ OnSync \/ HostTask \/ TimerTask \/ Httpd \/ Stack \/ Restart
        \/ Scan \/ DisconnectCall \/ \E p \in Peers : ConnectCall(p)
Spec == Init /\ [][Next]_vars

\* The tasks run, procedures of the stack end, and a connect to a keyboard in
\* range succeeds in the end.
FairSpec ==
    /\ Spec /\ WF_vars(OnSync) /\ WF_vars(HostTask) /\ WF_vars(TimerTask) /\ WF_vars(Httpd)
    /\ WF_vars(ScanEnds) /\ WF_vars(ConnectDone \/ ConnectFails)
    /\ WF_vars(LinkEstablished) /\ WF_vars(link.terminated /\ LinkLost)

-----------------------------------------------------------------------------
(* Properties.                                                               *)

\* The state is well formed; the host task stores a peer only while a link it
\* has seen is there or its end is still to be handled.
TypeOK ==
    /\ s_ctx \in [conn_handle : Handles, connected : BOOLEAN, peer_addr : Handles,
                  peer_known : BOOLEAN]
    /\ s_ctx.peer_known => s_ctx.peer_addr \in Peers
    /\ stored \in Handles /\ timer \in BOOLEAN /\ cb \in {"idle", "connect"}
    /\ api.at \in ApiCalls /\ (api.at = "attempt" => api.n \in 1 .. ATTEMPTS)
    /\ gap.proc \in {"none", "scan", "connect"} /\ (gap.proc = "connect" => gap.to \in Peers)
    /\ link \in [to : Handles, up : BOOLEAN, terminated : BOOLEAN]
    /\ (link.up => link.to \in Peers)
    /\ estab \in {"idle", "store"} /\ (estab = "store" => s_ctx.connected)

Handled == synced /\ events = <<>> /\ estab = "idle"

\* When its events are handled, the module calls itself connected just when the
\* link is established, and its handle is that of the link.
ConnectedTracksLink ==
    Handled => s_ctx.connected = link.up /\ s_ctx.conn_handle = link.to

\* No wake-up of the reconnection is lost: with a known keyboard and no link the
\* timer runs or a connect is under way, however scans, connects of the user,
\* their cancelling and the timer came together.
NeverStranded ==
    (/\ Handled /\ api = ApiIdle /\ cb = "idle"
     /\ s_ctx.peer_known /\ ~s_ctx.connected)
        => timer \/ gap.proc = "connect" \/ link # NoLink

\* A known keyboard in range is connected in the end, unless it is forgotten.
Reconnects == synced /\ s_ctx.peer_known ~> s_ctx.connected \/ ~s_ctx.peer_known
=============================================================================
