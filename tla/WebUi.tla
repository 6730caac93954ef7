-------------------------------- MODULE WebUi --------------------------------
(***************************************************************************)
(* web_ui.c: the start and the stop of the configuration server, its idle      *)
(* timer, and the list of sockets that the key log is sent to.  They share      *)
(* s_server, s_stopping and the list without a lock:                          *)
(*   btn_task     starts the server or asks for its stop (main.c);            *)
(*   esp_timer    asks for its stop when the idle timer fires;                 *)
(*   httpd        one request at a time; a logout asks for the stop;            *)
(*   web_stop     the task of a stop, created by whoever asked for it;          *)
(*   the engine   sends a key event to the sockets of the list.                 *)
(* One step is a statement, or some that touch nothing another task uses.       *)
(*                                                                         *)
(* httpd is external: httpd_stop returns when the request under way has been    *)
(* answered and every socket is closed, and frees the handle.                   *)
(***************************************************************************)
EXTENDS Integers, FiniteSets

CONSTANTS Fds,              \* descriptors of sockets
          NoFd,
          WS_MAX_CLIENTS,
          Stoppers,         \* web_stop tasks
          Budgets           \* bounds: presses, requests, failures, sockets, pushes

Events == {"short", "long", "request", "logout", "fail", "socket", "push"}

ASSUME WebUiAssumption ==
    /\ WS_MAX_CLIENTS \in Nat \ {0} /\ NoFd \notin Fds
    /\ Budgets \subseteq [Events -> Nat]

VARIABLES
    server,      \* s_server: 0, or the number of the server it points to
    servers,     \* httpd: how many servers were started
    alive,       \* httpd: servers that were not freed
    s_stopping,
    idle,        \* s_idle_timer is armed
    radio,       \* modem sleep is off
    blue,        \* s_web_ui_active of the LED
    pressed,     \* notification bits of btn_task
    btn,         \* btn_task: "wait", or its place in web_ui_start
    async,       \* the place of each caller in web_ui_stop_async
    stop,        \* the place of each web_stop task
    handle,      \* what each web_stop task gave httpd_stop
    httpd,       \* httpd: "idle", or the request it is in
    sockets,     \* httpd: the protocol of each open socket
    ws,          \* s_ws_clients and s_ws_count
    push,        \* web_ui_push_key_event: place and index
    overlapped,  \* history: two callers were in web_ui_stop_async at once
    crossed,     \* history: this server was started before the stop of the last ended
    unstarted,   \* history: httpd_start failed and nothing was started since
    unstopped,   \* history: a stop could not be executed and nothing came since
    clashed,     \* history: the list changed while it was walked
    dangling,    \* history: who called httpd with a handle it had freed
    left         \* what is left of the bounds

flags == <<radio, blue>>
tasks == <<btn, async, stop, handle, httpd, push>>
list == <<sockets, ws>>
history == <<overlapped, crossed, unstarted, unstopped, clashed, dangling>>
vars == <<server, servers, alive, s_stopping, idle, flags, pressed, tasks, list, history, left>>

Callers == {"btn", "timer", "httpd"}
StartPlaces == {"test", "led", "radio", "serve", "bump"}
StopPlaces == {"none", "test", "timer", "drain", "clear", "count", "radio", "led", "flag"}
Tail == {"count", "radio", "led", "flag"}      \* after s_server was cleared
Running == server # 0
Stopping == {t \in Stoppers : stop[t] # "none"}

NoList == [clients |-> [i \in 0 .. WS_MAX_CLIENTS - 1 |-> NoFd], count |-> 0]
NoPush == [at |-> "none", i |-> 0]
Spend(what) == left[what] > 0 /\ left' = [left EXCEPT ![what] = @ - 1]

\* The server may have been started by app_main, when no Wi-Fi was configured.
Init ==
    /\ server \in {0, 1} /\ servers = server /\ alive = {server} \ {0}
    /\ s_stopping = FALSE /\ idle = Running /\ radio = Running /\ blue = Running
    /\ pressed = {} /\ btn = "wait" /\ async = [c \in Callers |-> "none"]
    /\ stop = [t \in Stoppers |-> "none"] /\ handle = [t \in Stoppers |-> 0] /\ httpd = "idle"
    /\ sockets = [fd \in Fds |-> "closed"] /\ ws = NoList /\ push = NoPush
    /\ overlapped = FALSE /\ crossed = FALSE /\ unstarted = FALSE /\ unstopped = FALSE
    /\ clashed = FALSE /\ dangling = {} /\ left \in Budgets

-----------------------------------------------------------------------------
(* btn_task.                                                                 *)

BtnFrame == UNCHANGED <<s_stopping, stop, handle, httpd, push, list, overlapped, clashed>>

Press(kind) ==
    /\ Spend(kind) /\ pressed' = pressed \cup {kind}
    /\ UNCHANGED <<server, servers, alive, s_stopping, idle, flags, tasks, list, history>>

\* All bits are taken at once, and a long press hides a short one.  A short press
\* while FIDO2 waits for a confirmation is that confirmation and nothing else.
BtnTakes ==
    /\ btn = "wait" /\ async["btn"] = "none" /\ pressed # {} /\ pressed' = {}
    /\ \/ "long" \notin pressed /\ UNCHANGED <<btn, async>>
       \/ /\ "long" \notin pressed /\ Running
          /\ async' = [async EXCEPT !["btn"] = "test"] /\ UNCHANGED btn
       \/ /\ "long" \in pressed \/ ~Running
          /\ btn' = "test" /\ UNCHANGED async
    /\ UNCHANGED <<server, servers, alive, idle, flags, crossed, unstarted, unstopped, dangling,
                   left>> /\ BtnFrame

StartFrame == UNCHANGED <<pressed, async, unstopped, dangling>> /\ BtnFrame
StartTest ==
    /\ btn = "test" /\ btn' = IF Running THEN "wait" ELSE "led"
    /\ UNCHANGED <<server, servers, alive, idle, flags, crossed, unstarted, left>> /\ StartFrame
StartLed ==
    /\ btn = "led" /\ btn' = "radio" /\ blue' = TRUE
    /\ crossed' = \E t \in Stoppers : stop[t] \in Tail
    /\ UNCHANGED <<server, servers, alive, idle, radio, unstarted, left>> /\ StartFrame
StartRadio ==
    /\ btn = "radio" /\ btn' = "serve" /\ radio' = TRUE
    /\ UNCHANGED <<server, servers, alive, idle, blue, crossed, unstarted, left>> /\ StartFrame
StartServe ==
    /\ btn = "serve" /\ btn' = "bump"
    /\ servers' = servers + 1 /\ server' = servers' /\ alive' = alive \cup {server'}
    /\ unstarted' = FALSE
    /\ UNCHANGED <<idle, flags, crossed, left>> /\ StartFrame
StartFails ==
    /\ btn = "serve" /\ btn' = "wait" /\ Spend("fail") /\ unstarted' = TRUE
    /\ UNCHANGED <<server, servers, alive, idle, flags, crossed>> /\ StartFrame
StartBump ==
    /\ btn = "bump" /\ btn' = "wait" /\ idle' = (idle \/ Running)
    /\ UNCHANGED <<server, servers, alive, flags, crossed, unstarted, left>> /\ StartFrame

-----------------------------------------------------------------------------
(* web_ui_stop_async and web_ui_stop.                                         *)

AsyncFrame == UNCHANGED <<server, servers, alive, idle, flags, pressed, btn, handle, httpd, push,
                          list, crossed, unstarted, clashed, dangling>>

\* A wrong test: it does not look at s_stopping.
AsyncTestRunning(c) ==
    /\ async[c] = "test"
    /\ async' = [async EXCEPT ![c] = IF Running THEN "mark" ELSE "none"]
    /\ overlapped' = (overlapped \/ \E d \in Callers \ {c} : async[d] = "mark")
    /\ UNCHANGED <<s_stopping, stop, unstopped, left>> /\ AsyncFrame
AsyncTest(c) ==
    /\ async[c] = "test"
    /\ async' = [async EXCEPT ![c] = IF Running /\ ~s_stopping THEN "mark" ELSE "none"]
    /\ overlapped' = (overlapped \/ \E d \in Callers \ {c} : async[d] = "mark")
    /\ UNCHANGED <<s_stopping, stop, unstopped, left>> /\ AsyncFrame
AsyncMark(c) ==
    /\ async[c] = "mark" /\ async' = [async EXCEPT ![c] = "create"] /\ s_stopping' = TRUE
    /\ UNCHANGED <<stop, overlapped, unstopped, left>> /\ AsyncFrame
AsyncCreate(c) ==
    /\ async[c] = "create" /\ async' = [async EXCEPT ![c] = "none"]
    /\ Stopping # Stoppers
    /\ stop' = [stop EXCEPT ![CHOOSE t \in Stoppers : t \notin Stopping] = "test"]
    /\ UNCHANGED <<s_stopping, overlapped, unstopped, left>> /\ AsyncFrame
\* No memory, or none of the tasks the bound allows.
AsyncFails(c) ==
    /\ async[c] = "create" /\ async' = [async EXCEPT ![c] = "none"]
    /\ s_stopping' = FALSE /\ unstopped' = TRUE
    /\ Spend("fail") \/ (Stopping = Stoppers /\ UNCHANGED left)
    /\ UNCHANGED <<stop, overlapped>> /\ AsyncFrame

\* Five minutes without a request.  The end of a stop does not take that long.
IdleTimerFires ==
    /\ idle /\ idle' = FALSE /\ async["timer"] = "none" /\ \A t \in Stoppers : stop[t] \notin Tail
    /\ async' = [async EXCEPT !["timer"] = "test"]
    /\ UNCHANGED <<server, servers, alive, s_stopping, flags, pressed, btn, stop, handle, httpd,
                   push, list, history, left>>

StopFrame == UNCHANGED <<servers, pressed, btn, async, httpd, push, sockets,
                         overlapped, crossed, unstarted, left>>
At(t, place) == stop[t] = place
Go(t, place) == stop' = [stop EXCEPT ![t] = place]

StopTest(t) ==
    /\ At(t, "test") /\ Go(t, IF Running THEN "timer" ELSE "flag")
    /\ UNCHANGED <<server, alive, s_stopping, idle, flags, handle, ws, unstopped, clashed, dangling>>
    /\ StopFrame
StopTimer(t) ==
    /\ At(t, "timer") /\ Go(t, "drain") /\ idle' = FALSE
    /\ handle' = [handle EXCEPT ![t] = server]
    /\ UNCHANGED <<server, alive, s_stopping, flags, ws, unstopped, clashed, dangling>>
    /\ StopFrame
\* httpd_stop.  What it does with a handle that was freed is left open.
StopDrained(t) ==
    /\ At(t, "drain") /\ Go(t, "clear")
    /\ handle[t] \in alive => /\ httpd = "idle" /\ async["httpd"] = "none"
                             /\ \A fd \in Fds : sockets[fd] = "closed"
    /\ alive' = alive \ {handle[t]} /\ handle' = [handle EXCEPT ![t] = 0]
    /\ dangling' = IF handle[t] \in alive \cup {0} THEN dangling ELSE dangling \cup {"stop"}
    /\ UNCHANGED <<server, s_stopping, idle, flags, ws, unstopped, clashed>> /\ StopFrame
StopClear(t) ==
    /\ At(t, "clear") /\ Go(t, "count") /\ server' = 0 /\ unstopped' = FALSE
    /\ UNCHANGED <<alive, s_stopping, idle, flags, handle, ws, clashed, dangling>> /\ StopFrame
StopCount(t) ==
    /\ At(t, "count") /\ Go(t, "radio") /\ ws' = [ws EXCEPT !.count = 0]
    /\ clashed' = (clashed \/ push # NoPush)
    /\ UNCHANGED <<server, alive, s_stopping, idle, flags, handle, unstopped, dangling>> /\ StopFrame
\* A wrong stop: the radio is not put to sleep again.
StopRadioSkipped(t) ==
    /\ At(t, "radio") /\ Go(t, "led")
    /\ UNCHANGED <<server, alive, s_stopping, idle, flags, handle, ws, unstopped, clashed, dangling>>
    /\ StopFrame
StopRadio(t) ==
    /\ At(t, "radio") /\ Go(t, "led") /\ radio' = FALSE
    /\ UNCHANGED <<server, alive, s_stopping, idle, blue, handle, ws, unstopped, clashed, dangling>>
    /\ StopFrame
StopLed(t) ==
    /\ At(t, "led") /\ Go(t, "flag") /\ blue' = FALSE
    /\ UNCHANGED <<server, alive, s_stopping, idle, radio, handle, ws, unstopped, clashed, dangling>>
    /\ StopFrame
\* A wrong end: the flag stays.
StopFlagKept(t) ==
    /\ At(t, "flag") /\ Go(t, "none")
    /\ UNCHANGED <<server, alive, s_stopping, idle, flags, handle, ws, unstopped, clashed, dangling>>
    /\ StopFrame
StopFlag(t) ==
    /\ At(t, "flag") /\ Go(t, "none") /\ s_stopping' = FALSE
    /\ UNCHANGED <<server, alive, idle, flags, handle, ws, unstopped, clashed, dangling>> /\ StopFrame

-----------------------------------------------------------------------------
(* httpd: requests and sockets.                                              *)

HttpdFrame == UNCHANGED <<server, servers, alive, s_stopping, flags, pressed, btn, stop, handle,
                          push, overlapped, crossed, unstarted, dangling>>
Accepting == alive # {} /\ httpd = "idle" /\ async["httpd"] = "none"
RequestBegins(kind) ==
    /\ Accepting /\ Spend(kind) /\ httpd' = kind
    /\ UNCHANGED <<idle, async, list, unstopped, clashed>> /\ HttpdFrame
\* A wrong answer: the timer is stopped and not started again.
RequestAnsweredUnarmed ==
    /\ httpd # "idle" /\ httpd' = "idle" /\ idle' = FALSE
    /\ IF httpd = "logout" THEN async' = [async EXCEPT !["httpd"] = "test"] ELSE UNCHANGED async
    /\ unstopped' = (unstopped /\ ~Running)
    /\ UNCHANGED <<list, clashed, left>> /\ HttpdFrame
\* A reply bumps the idle timer; that of a polled endpoint and an error do not.  A
\* logout, which always does, asks for the stop then.
RequestAnswered ==
    /\ httpd # "idle" /\ httpd' = "idle"
    /\ \/ idle' = (idle \/ Running) /\ unstopped' = (unstopped /\ ~Running)
       \/ httpd = "request" /\ UNCHANGED <<idle, unstopped>>
    /\ IF httpd = "logout" THEN async' = [async EXCEPT !["httpd"] = "test"] ELSE UNCHANGED async
    /\ UNCHANGED <<list, clashed, left>> /\ HttpdFrame

Registered(fd) == \E i \in 0 .. ws.count - 1 : ws.clients[i] = fd
Clash == clashed' = (clashed \/ push # NoPush)
\* handler_ws, and a socket of a browser that is no WebSocket.  A negative count
\* makes the store miss the array.
Appended(fd) == [clients |-> IF ws.count < 0 THEN ws.clients ELSE [ws.clients EXCEPT ![ws.count] = fd],
                 count |-> ws.count + 1]
\* A wrong handler: a socket is registered again.
SocketOpensTwice(fd, protocol) ==
    /\ Accepting /\ Spend("socket")
    /\ sockets[fd] = "closed" \/ protocol = "ws"
    /\ sockets' = [sockets EXCEPT ![fd] = protocol]
    /\ ws' = IF protocol = "ws" /\ ws.count < WS_MAX_CLIENTS THEN Appended(fd) ELSE ws
    /\ idle' = (idle \/ (Running /\ protocol = "ws")) /\ Clash
    /\ UNCHANGED <<httpd, async, unstopped>> /\ HttpdFrame
SocketOpens(fd, protocol) ==
    /\ Accepting /\ Spend("socket")
    /\ sockets[fd] = "closed" \/ protocol = "ws"
    /\ sockets' = [sockets EXCEPT ![fd] = protocol]
    /\ ws' = IF protocol = "ws" /\ ~Registered(fd) /\ ws.count < WS_MAX_CLIENTS
             THEN Appended(fd) ELSE ws
    /\ idle' = (idle \/ (Running /\ protocol = "ws")) /\ Clash
    /\ UNCHANGED <<httpd, async, unstopped>> /\ HttpdFrame

\* One element is replaced by the last one.
Compacted(i) == [clients |-> [ws.clients EXCEPT ![i] = IF ws.count > 0 THEN ws.clients[ws.count - 1]
                                                      ELSE NoFd],
                 count |-> ws.count - 1]
First(fd) == CHOOSE i \in 0 .. ws.count - 1 : /\ ws.clients[i] = fd
                                              /\ \A j \in 0 .. i - 1 : ws.clients[j] # fd
SocketCloses(fd) ==
    /\ httpd = "idle" /\ async["httpd"] = "none" /\ sockets[fd] # "closed"
    /\ sockets' = [sockets EXCEPT ![fd] = "closed"]
    /\ ws' = IF Registered(fd) THEN Compacted(First(fd)) ELSE ws
    /\ Clash /\ UNCHANGED <<idle, httpd, async, unstopped, left>> /\ HttpdFrame

-----------------------------------------------------------------------------
(* web_ui_push_key_event, in the engine's task.                               *)

PushFrame == UNCHANGED <<server, servers, alive, s_stopping, idle, flags, pressed, btn, async, stop,
                         handle, httpd, sockets, overlapped, crossed, unstarted, unstopped,
                         clashed>>
PushBegins ==
    /\ push = NoPush /\ Spend("push") /\ Running /\ ws.count > 0
    /\ push' = [at |-> "check", i |-> ws.count - 1]
    /\ UNCHANGED <<ws, dangling>> /\ PushFrame
Onward(i) == IF i = 0 THEN NoPush ELSE [at |-> "check", i |-> i - 1]
\* The socket is asked for its protocol, and sent to.  A handle of 0 knows none;
\* what a freed one says is left open.
Answers(fd) == IF server \in alive THEN {sockets[fd] = "ws"}
               ELSE IF Running THEN BOOLEAN ELSE {FALSE}
PushCheck ==
    /\ push.at = "check"
    /\ dangling' = IF server \in alive \cup {0} THEN dangling ELSE dangling \cup {"push"}
    /\ \/ /\ TRUE \in Answers(ws.clients[push.i]) /\ push' = Onward(push.i) /\ UNCHANGED left
       \/ /\ FALSE \in Answers(ws.clients[push.i]) /\ push' = [push EXCEPT !.at = "compact"]
          /\ UNCHANGED left
       \/ /\ TRUE \in Answers(ws.clients[push.i]) /\ Spend("fail")
          /\ push' = [push EXCEPT !.at = "compact"]
    /\ UNCHANGED ws /\ PushFrame
PushCompact ==
    /\ push.at = "compact" /\ ws' = Compacted(push.i) /\ push' = Onward(push.i)
    /\ UNCHANGED <<dangling, left>> /\ PushFrame

-----------------------------------------------------------------------------
Start == StartTest \/ StartLed \/ StartRadio \/ StartServe \/ StartFails \/ StartBump
Async(c) == AsyncTest(c) \/ AsyncMark(c) \/ AsyncCreate(c) \/ AsyncFails(c)
Stop(t) == \/ StopTest(t) \/ StopTimer(t) \/ StopDrained(t) \/ StopClear(t) \/ StopCount(t)
           \/ StopRadio(t) \/ StopLed(t) \/ StopFlag(t)
Push == PushCheck \/ PushCompact

Next ==
    \/ \E kind \in {"short", "long"} : Press(kind)
    \/ BtnTakes \/ Start
    \/ \E c \in Callers : Async(c)
    \/ IdleTimerFires
    \/ \E t \in Stoppers : Stop(t)
    \/ \E kind \in {"request", "logout"} : RequestBegins(kind)
    \/ RequestAnswered
    \/ \E fd \in Fds, protocol \in {"http", "ws"} : SocketOpens(fd, protocol)
    \/ \E fd \in Fds : SocketCloses(fd)
    \/ PushBegins \/ Push

Spec == Init /\ [][Next]_vars
\* Tasks run, timers fire, and a server that drains closes its sockets.
FairSpec ==
    /\ Spec /\ WF_vars(BtnTakes) /\ WF_vars(Start) /\ WF_vars(IdleTimerFires)
    /\ \A c \in Callers : WF_vars(Async(c))
    /\ \A t \in Stoppers : WF_vars(Stop(t))
    /\ WF_vars(RequestAnswered) /\ WF_vars(Push)
    /\ \A fd \in Fds : WF_vars((\E t \in Stoppers : At(t, "drain")) /\ SocketCloses(fd))

-----------------------------------------------------------------------------
(* Properties.                                                               *)

Settled == /\ btn = "wait" /\ \A c \in Callers : async[c] = "none"
           /\ Stopping = {} /\ httpd = "idle"

\* The variables have their types.  The number of sockets in the list is never
\* more than it has places for.
TypeOK ==
    /\ servers \in Nat /\ server \in 0 .. servers /\ alive \subseteq 1 .. servers
    /\ {s_stopping, idle, radio, blue} \subseteq BOOLEAN
    /\ pressed \subseteq {"short", "long"} /\ btn \in StartPlaces \cup {"wait"}
    /\ async \in [Callers -> {"none", "test", "mark", "create"}]
    /\ stop \in [Stoppers -> StopPlaces] /\ handle \in [Stoppers -> 0 .. servers]
    /\ httpd \in {"idle", "request", "logout"}
    /\ sockets \in [Fds -> {"closed", "http", "ws"}]
    /\ ws \in [clients : [0 .. WS_MAX_CLIENTS - 1 -> Fds \cup {NoFd}], count : Int]
    /\ ws.count <= WS_MAX_CLIENTS
    /\ push \in [at : {"none", "check", "compact"}, i : 0 .. WS_MAX_CLIENTS - 1]
    /\ {overlapped, crossed, unstarted, unstopped, clashed} \subseteq BOOLEAN
    /\ dangling \subseteq {"stop", "push"} /\ left \in [Events -> Nat]

\* An open server is watched by the idle timer (web_ui.c:92 calls the timeout the
\* second half of the button's security gate): whatever crossed, once no task is
\* at work the timer of an open server is armed, unless a stop found no memory.
Supervised == Settled /\ Running => idle \/ unstopped

\* README.md:348, the web interface turns off after 5 minutes without requests.
\* A stop that found no memory has used the timer up.
IdleCloses == Running ~> ~Running \/ unstopped

\* README.md:356 and web_ui.c:1535, radio and LED follow the server: both are on
\* while it is up, unless it was started while the stop of the last one ended or
\* two stops overlapped, and both are off once it is down, also when stops and a
\* start cross, unless the last start failed.
LightsFollow ==
    Settled => IF Running THEN (radio /\ blue) \/ crossed \/ overlapped
               ELSE (~radio /\ ~blue) \/ unstarted

\* No two stops free the same server, though the button, the timer and a logout
\* may ask at once and the drain takes long; the test and the mark of
\* web_ui_stop_async are two steps, and two callers between them are excepted.
FreedOnce == "stop" \in dangling => overlapped

\* Every socket of the list is an open WebSocket and is there once, so that nothing
\* is spliced into an answer and no event is logged twice (web_ui.c:141 and :183),
\* unless the list was changed while the engine walked it; even then there are
\* never more sockets in it than it has places for.
Exact ==
    \A i \in 0 .. ws.count - 1 :
        /\ ws.clients[i] \in Fds /\ sockets[ws.clients[i]] = "ws"
        /\ \A j \in 0 .. i - 1 : ws.clients[j] # ws.clients[i]
ListExact == ws.count <= WS_MAX_CLIENTS /\ (clashed \/ (ws.count >= 0 /\ Exact))
=============================================================================
