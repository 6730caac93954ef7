----------------------------- MODULE WebUiProofs -----------------------------
(***************************************************************************)
(* Proofs about WebUi, for any number of stop tasks, sockets, places in the      *)
(* list, presses, requests and failures.                                       *)
(***************************************************************************)
EXTENDS WebUi, WellFoundedInduction, TLAPS

Early == {"test", "timer", "drain", "clear"}   \* s_server is still to be looked at or cleared
Dimming == {"count", "radio", "led"}           \* the radio and the LED are still to be looked at

\* s_stopping is set by somebody who is still to clear it.
FlagHeld ==
    s_stopping => \/ \E c \in Callers : async[c] = "create"
                  \/ \E t \in Stoppers : stop[t] # "none"

\* One stop at a time, from the mark to the end.
OneStop ==
    /\ \A c, d \in Callers :
          async[c] \in {"mark", "create"} /\ async[d] \in {"mark", "create"} => c = d
    /\ \A c \in Callers, t \in Stoppers : async[c] \in {"mark", "create"} => stop[t] = "none"
    /\ \A t, u \in Stoppers : stop[t] # "none" /\ stop[u] # "none" => t = u
    /\ \A c \in Callers : async[c] = "create" => s_stopping
    /\ \A t \in Stoppers : stop[t] # "none" => s_stopping

\* A request is answered before the next one, and before its own stop is asked for.
OneRequest == httpd # "idle" => async["httpd"] = "none"

\* A start that is past its test has no server yet.
StartsEmpty == btn \in {"led", "radio", "serve"} => server = 0

\* The server is alive until its stop has freed it, and the stop has its handle.
HandleGood ==
    /\ server # 0 => server \in alive \/ \E t \in Stoppers : stop[t] = "clear"
    /\ \A t \in Stoppers : stop[t] \in {"timer", "drain", "clear"} => server # 0
    /\ \A t \in Stoppers : stop[t] = "drain" => handle[t] = server
    /\ "stop" \notin dangling

\* A stop that ends does not meet a server that was not started over it.
Lit ==
    ~crossed =>
        /\ btn \in {"radio", "serve"} => blue /\ \A t \in Stoppers : stop[t] \notin Dimming
        /\ btn = "serve" => radio
        /\ server # 0 => radio /\ blue /\ \A t \in Stoppers : stop[t] \notin Dimming

\* Light without a server is that of a start or of a stop.
Dims ==
    server = 0 /\ ~unstarted =>
        /\ radio => btn = "serve" \/ \E t \in Stoppers : stop[t] \in {"count", "radio"}
        /\ blue => btn \in {"radio", "serve"} \/ \E t \in Stoppers : stop[t] \in Dimming

\* An open server has its timer armed, or somebody who is to arm it or to stop it.
Watched ==
    server # 0 =>
        \/ idle \/ unstopped \/ btn = "bump"
        \/ \E c \in Callers : async[c] \in {"mark", "create"}
        \/ \E t \in Stoppers : stop[t] \in Early
        \/ async["timer"] = "test" /\ \A t \in Stoppers : stop[t] \notin Tail

\* The list as it is meant to be, but for its length, which has its type.
Listed == clashed \/ (ws.count >= 0 /\ Exact)

\* Nobody else changes the list while it is walked.
WalksList == clashed \/ push = NoPush \/ push.i < ws.count

WebInv == /\ TypeOK /\ FlagHeld /\ OneRequest /\ StartsEmpty /\ Dims /\ Watched
          /\ (overlapped \/ (OneStop /\ HandleGood /\ Lit))
          /\ Listed /\ WalksList

\* Spending leaves a bound a bound.
LEMMA Spent ==
  ASSUME left \in [Events -> Nat], NEW what \in Events, Spend(what)
  PROVE  left' \in [Events -> Nat]
  BY DEF Spend

\* A set of numbers that is not empty has a least one.
LEMMA Least ==
  ASSUME NEW S, S \subseteq Nat, S # {}
  PROVE  \E x \in S : \A y \in S : x <= y
<1> DEFINE Less == OpToRel(<, Nat)
<1>1. IsWellFoundedOn(Less, Nat)
  BY NatLessThanWellFounded
<1>2. \A x, y \in Nat : y < x => <<y, x>> \in Less
  BY DEF OpToRel
<1> HIDE DEF Less
<1>3. PICK x \in S : \A y \in S : ~ (<<y, x>> \in Less)
  BY <1>1, WFMin
<1>4. \A y \in S : ~ (y < x)
  BY <1>2, <1>3
<1>5. \A y \in S : x <= y
  BY <1>4
<1> QED BY <1>5

Lists == [clients : [0 .. WS_MAX_CLIENTS - 1 -> Fds \cup {NoFd}], count : Int]

\* A socket of the list has a first place there.
LEMMA FirstPlace ==
  ASSUME ws \in Lists, NEW fd, Registered(fd)
  PROVE  First(fd) \in 0 .. ws.count - 1 /\ ws.clients[First(fd)] = fd
<1> DEFINE S == {i \in 0 .. ws.count - 1 : ws.clients[i] = fd}
<1>1. PICK x \in S : \A y \in S : x <= y
  <2>1. S \subseteq Nat /\ S # {}
    BY DEF Registered, Lists
  <2> HIDE DEF S
  <2> QED BY <2>1, Least
<1>2. x \in 0 .. ws.count - 1 /\ ws.clients[x] = fd /\ \A j \in 0 .. x - 1 : ws.clients[j] # fd
  BY <1>1 DEF Lists
<1> QED BY <1>2 DEF First

\* A place taken, and a place given up.
LEMMA ListChanges ==
  ASSUME ws \in Lists, ws.count <= WS_MAX_CLIENTS
  PROVE  /\ ws.count < WS_MAX_CLIENTS =>
               \A fd \in Fds : Appended(fd) \in Lists /\ Appended(fd).count = ws.count + 1
         /\ \A i \in 0 .. WS_MAX_CLIENTS - 1 :
               Compacted(i) \in Lists /\ Compacted(i).count = ws.count - 1
BY WebUiAssumption DEF Lists, Appended, Compacted

\* Every action keeps the types.
LEMMA Typed ==
  ASSUME TypeOK, [Next]_vars
  PROVE  TypeOK'
<1>0. ws \in Lists /\ ws.count <= WS_MAX_CLIENTS
  BY DEF TypeOK, Lists
<1>1. ASSUME BtnTakes \/ Start PROVE TypeOK'
  <2>1. CASE BtnTakes
    BY <2>1 DEF TypeOK, BtnTakes, BtnFrame, flags, list, Running, StartPlaces, StopPlaces,
        Callers, Events
  <2>2. CASE StartTest
    BY <2>2 DEF TypeOK, StartTest, StartFrame, BtnFrame, flags, list, Running, StartPlaces,
        StopPlaces, Callers, Events
  <2>3. CASE StartLed
    BY <2>3 DEF TypeOK, StartLed, StartFrame, BtnFrame, list, StartPlaces, StopPlaces, Callers,
        Events
  <2>4. CASE StartRadio
    BY <2>4 DEF TypeOK, StartRadio, StartFrame, BtnFrame, list, StartPlaces, StopPlaces,
        Callers, Events
  <2>5. CASE StartServe
    <3>1. servers' \in Nat /\ server' \in 0 .. servers' /\ alive' \subseteq 1 .. servers'
      BY <2>5 DEF TypeOK, StartServe
    <3>2. handle' \in [Stoppers -> 0 .. servers']
      BY <2>5 DEF TypeOK, StartServe, BtnFrame, StartFrame
    <3> QED BY <2>5, <3>1, <3>2 DEF TypeOK, StartServe, BtnFrame, StartFrame, flags, list, StartPlaces
  <2>6. CASE StartFails
    BY <2>6, Spent DEF TypeOK, StartFails, StartFrame, BtnFrame, flags, list, StartPlaces,
        StopPlaces, Callers, Events
  <2>7. CASE StartBump
    BY <2>7 DEF TypeOK, StartBump, StartFrame, BtnFrame, flags, list, Running, StartPlaces,
        StopPlaces, Callers, Events
  <2> QED BY <1>1, <2>1, <2>2, <2>3, <2>4, <2>5, <2>6, <2>7 DEF Start
<1>2. ASSUME NEW c \in Callers, Async(c) PROVE TypeOK'
  <2>1. CASE AsyncTest(c)
    BY <2>1 DEF TypeOK, AsyncTest, AsyncFrame, flags, list, Running, StartPlaces, StopPlaces,
        Callers, Events
  <2>2. CASE AsyncMark(c)
    BY <2>2 DEF TypeOK, AsyncMark, AsyncFrame, flags, list, StartPlaces, StopPlaces, Callers,
        Events
  <2>3. CASE AsyncCreate(c)
    BY <2>3 DEF TypeOK, AsyncCreate, AsyncFrame, Stopping, flags, list, StartPlaces, StopPlaces,
        Callers, Events
  <2>4. CASE AsyncFails(c)
    BY <2>4, Spent DEF TypeOK, AsyncFails, AsyncFrame, Stopping, flags, list, StartPlaces,
        StopPlaces, Callers, Events
  <2> QED BY <1>2, <2>1, <2>2, <2>3, <2>4 DEF Async
<1>3. ASSUME IdleTimerFires PROVE TypeOK'
  BY <1>3 DEF TypeOK, IdleTimerFires, flags, list, history, StartPlaces, StopPlaces, Callers,
      Events
<1>4. ASSUME NEW t \in Stoppers, Stop(t) PROVE TypeOK'
  <2>1. CASE StopTest(t)
    BY <2>1 DEF TypeOK, StopTest, StopFrame, At, Go, flags, Running, StartPlaces, StopPlaces,
        Callers, Events
  <2>2. CASE StopTimer(t)
    BY <2>2 DEF TypeOK, StopTimer, StopFrame, At, Go, flags, StartPlaces, StopPlaces, Callers,
        Events
  <2>3. CASE StopDrained(t)
    <3>0. servers' = servers /\ 0 \in 0 .. servers
      BY <2>3 DEF TypeOK, StopDrained, StopFrame
    <3>1. alive' \subseteq 1 .. servers' /\ handle' \in [Stoppers -> 0 .. servers']
      BY <2>3, <3>0 DEF TypeOK, StopDrained
    <3>2. stop' \in [Stoppers -> StopPlaces]
      BY <2>3 DEF TypeOK, StopDrained, Go, StopPlaces
    <3>3. dangling' \subseteq {"stop", "push"}
      BY <2>3 DEF TypeOK, StopDrained
    <3> QED BY <2>3, <3>1, <3>2, <3>3 DEF TypeOK, StopDrained, StopFrame, flags
  <2>4. CASE StopClear(t)
    <3>0. servers' = servers /\ 0 \in 0 .. servers
      BY <2>4 DEF TypeOK, StopClear, StopFrame
    <3>1. server' \in 0 .. servers' /\ unstopped' \in BOOLEAN
      BY <2>4, <3>0 DEF StopClear
    <3>2. stop' \in [Stoppers -> StopPlaces]
      BY <2>4 DEF TypeOK, StopClear, Go, StopPlaces
    <3> QED BY <2>4, <3>1, <3>2 DEF TypeOK, StopClear, StopFrame, flags
  <2>5. CASE StopCount(t)
    <3>1. ws' \in Lists /\ ws'.count <= WS_MAX_CLIENTS
      BY <2>5, <1>0, WebUiAssumption DEF StopCount, Lists
    <3>2. stop' \in [Stoppers -> StopPlaces]
      BY <2>5 DEF TypeOK, StopCount, Go, StopPlaces
    <3>3. clashed' \in BOOLEAN
      BY <2>5 DEF TypeOK, StopCount
    <3> QED BY <2>5, <3>1, <3>2, <3>3 DEF TypeOK, StopCount, StopFrame, flags, Lists
  <2>6. CASE StopRadio(t)
    BY <2>6 DEF TypeOK, StopRadio, StopFrame, At, Go, StartPlaces, StopPlaces, Callers, Events
  <2>7. CASE StopLed(t)
    BY <2>7 DEF TypeOK, StopLed, StopFrame, At, Go, StartPlaces, StopPlaces, Callers, Events
  <2>8. CASE StopFlag(t)
    BY <2>8 DEF TypeOK, StopFlag, StopFrame, At, Go, flags, StartPlaces, StopPlaces, Callers,
        Events
  <2> QED BY <1>4, <2>1, <2>2, <2>3, <2>4, <2>5, <2>6, <2>7, <2>8 DEF Stop
<1>5. ASSUME NEW kind \in {"short", "long"}, Press(kind) PROVE TypeOK'
  BY <1>5, Spent DEF TypeOK, Press, flags, tasks, list, history, StartPlaces, StopPlaces,
      Callers, Events
<1>6. ASSUME NEW kind \in {"request", "logout"}, RequestBegins(kind) PROVE TypeOK'
  BY <1>6, Spent DEF TypeOK, RequestBegins, Accepting, HttpdFrame, flags, list, StartPlaces,
      StopPlaces, Callers, Events
<1>7. ASSUME RequestAnswered PROVE TypeOK'
  BY <1>7 DEF TypeOK, RequestAnswered, HttpdFrame, flags, list, Running, StartPlaces,
      StopPlaces, Callers, Events
<1>8. ASSUME NEW fd \in Fds, NEW protocol \in {"http", "ws"}, SocketOpens(fd, protocol) PROVE TypeOK'
  <2>1. ws' \in Lists /\ ws'.count <= WS_MAX_CLIENTS
    <3>1. CASE ws' = ws
      BY <1>0, <3>1
    <3>2. CASE ws' = Appended(fd) /\ ws.count < WS_MAX_CLIENTS
      <4>1. Appended(fd) \in Lists /\ Appended(fd).count = ws.count + 1
        BY <1>0, <1>8, <3>2, ListChanges
      <4> QED BY <1>0, <3>2, <4>1, WebUiAssumption DEF Lists
    <3> QED BY <1>8, <3>1, <3>2 DEF SocketOpens
  <2>2. sockets' \in [Fds -> {"closed", "http", "ws"}]
    BY <1>8 DEF TypeOK, SocketOpens
  <2>3. left' \in [Events -> Nat]
    BY <1>8, Spent DEF TypeOK, SocketOpens, Events
  <2>4. idle' \in BOOLEAN /\ clashed' \in BOOLEAN
    BY <1>8 DEF TypeOK, SocketOpens, Clash
  <2> QED BY <1>8, <2>1, <2>2, <2>3, <2>4 DEF TypeOK, SocketOpens, HttpdFrame, flags, Lists
<1>9. ASSUME NEW fd \in Fds, SocketCloses(fd) PROVE TypeOK'
  <2>1. ws' \in Lists /\ ws'.count <= WS_MAX_CLIENTS
    <3>1. CASE ws' = ws
      BY <1>0, <3>1
    <3>2. CASE ws' = Compacted(First(fd)) /\ Registered(fd)
      <4>1. First(fd) \in 0 .. WS_MAX_CLIENTS - 1
        BY <1>0, <3>2, FirstPlace, WebUiAssumption DEF Lists
      <4>2. Compacted(First(fd)) \in Lists /\ Compacted(First(fd)).count = ws.count - 1
        BY <1>0, <4>1, ListChanges
      <4> QED BY <1>0, <3>2, <4>2, WebUiAssumption DEF Lists
    <3> QED BY <1>9, <3>1, <3>2 DEF SocketCloses
  <2>2. sockets' \in [Fds -> {"closed", "http", "ws"}]
    BY <1>9 DEF TypeOK, SocketCloses
  <2>3. clashed' \in BOOLEAN
    BY <1>9 DEF TypeOK, SocketCloses, Clash
  <2> QED BY <1>9, <2>1, <2>2, <2>3 DEF TypeOK, SocketCloses, HttpdFrame, flags, Lists
<1>10. ASSUME PushBegins \/ Push PROVE TypeOK'
  <2>1. CASE PushBegins
    <3>1. push' \in [at : {"none", "check", "compact"}, i : 0 .. WS_MAX_CLIENTS - 1]
      BY <1>0, <2>1, WebUiAssumption DEF PushBegins, Lists
    <3>2. left' \in [Events -> Nat]
      BY <2>1, Spent DEF TypeOK, PushBegins, Events
    <3> QED BY <2>1, <3>1, <3>2 DEF TypeOK, PushBegins, PushFrame, flags
  <2>2. CASE PushCheck
    <3>1. push' \in [at : {"none", "check", "compact"}, i : 0 .. WS_MAX_CLIENTS - 1]
      <4>1. push' = Onward(push.i) \/ push' = [push EXCEPT !.at = "compact"]
        BY <2>2 DEF PushCheck
      <4>2. push.i \in 0 .. WS_MAX_CLIENTS - 1
        BY DEF TypeOK
      <4>3. Onward(push.i) \in [at : {"none", "check", "compact"}, i : 0 .. WS_MAX_CLIENTS - 1]
        BY <4>2, WebUiAssumption DEF Onward, NoPush
      <4> QED BY <4>1, <4>3 DEF TypeOK
    <3>2. left' \in [Events -> Nat]
      BY <2>2, Spent DEF TypeOK, PushCheck, Events
    <3>3. dangling' \subseteq {"stop", "push"}
      BY <2>2 DEF TypeOK, PushCheck
    <3> QED BY <2>2, <3>1, <3>2, <3>3 DEF TypeOK, PushCheck, PushFrame, flags
  <2>3. CASE PushCompact
    <3>1. push.i \in 0 .. WS_MAX_CLIENTS - 1
      BY DEF TypeOK
    <3>2. ws' \in Lists /\ ws'.count = ws.count - 1
      BY <1>0, <2>3, <3>1, ListChanges DEF PushCompact
    <3>3. push' \in [at : {"none", "check", "compact"}, i : 0 .. WS_MAX_CLIENTS - 1]
      BY <2>3, <3>1, WebUiAssumption DEF PushCompact, Onward, NoPush
    <3>4. ws'.count <= WS_MAX_CLIENTS
      BY <1>0, <3>2, WebUiAssumption DEF Lists
    <3> QED BY <2>3, <3>2, <3>3, <3>4 DEF TypeOK, PushCompact, PushFrame, flags, Lists
  <2> QED BY <1>10, <2>1, <2>2, <2>3 DEF Push
<1>11. ASSUME UNCHANGED vars PROVE TypeOK'
  BY <1>11 DEF TypeOK, vars, flags, tasks, list, history, StartPlaces, StopPlaces, Callers,
      Events
<1> QED BY <1>1, <1>2, <1>3, <1>4, <1>5, <1>6, <1>7, <1>8, <1>9, <1>10, <1>11 DEF Next

\* s_stopping stays with somebody who clears it: whoever leaves web_ui_stop clears it.
LEMMA FlagNext ==
  ASSUME TypeOK, FlagHeld, OneRequest, [Next]_vars
  PROVE  FlagHeld'
<1>1. ASSUME BtnTakes \/ Start PROVE FlagHeld'
  <2>1. CASE BtnTakes
    BY <2>1 DEF TypeOK, FlagHeld, OneRequest, BtnTakes, BtnFrame, flags, list, Running,
        Callers
  <2>2. CASE StartTest
    BY <2>2 DEF TypeOK, FlagHeld, OneRequest, StartTest, StartFrame, BtnFrame, flags, list,
        Running, Callers
  <2>3. CASE StartLed
    BY <2>3 DEF TypeOK, FlagHeld, OneRequest, StartLed, StartFrame, BtnFrame, flags, list,
        Running, Callers
  <2>4. CASE StartRadio
    BY <2>4 DEF TypeOK, FlagHeld, OneRequest, StartRadio, StartFrame, BtnFrame, flags, list,
        Running, Callers
  <2>5. CASE StartServe
    BY <2>5 DEF TypeOK, FlagHeld, OneRequest, StartServe, StartFrame, BtnFrame, flags, list,
        Running, Callers
  <2>6. CASE StartFails
    BY <2>6 DEF TypeOK, FlagHeld, OneRequest, StartFails, StartFrame, BtnFrame, flags, list,
        Running, Callers
  <2>7. CASE StartBump
    BY <2>7 DEF TypeOK, FlagHeld, OneRequest, StartBump, StartFrame, BtnFrame, flags, list,
        Running, Callers
  <2> QED BY <1>1, <2>1, <2>2, <2>3, <2>4, <2>5, <2>6, <2>7 DEF Start
<1>2. ASSUME NEW c \in Callers, Async(c) PROVE FlagHeld'
  <2>1. CASE AsyncTest(c)
    BY <2>1 DEF TypeOK, FlagHeld, OneRequest, AsyncTest, AsyncFrame, flags, list, Running,
        Callers
  <2>2. CASE AsyncMark(c)
    BY <2>2 DEF TypeOK, FlagHeld, OneRequest, AsyncMark, AsyncFrame, flags, list, Callers
  <2>3. CASE AsyncCreate(c)
    BY <2>3 DEF TypeOK, FlagHeld, OneRequest, AsyncCreate, AsyncFrame, Stopping, flags, list,
        Callers
  <2>4. CASE AsyncFails(c)
    BY <2>4 DEF TypeOK, FlagHeld, OneRequest, AsyncFails, AsyncFrame, Stopping, flags, list,
        Callers
  <2> QED BY <1>2, <2>1, <2>2, <2>3, <2>4 DEF Async
<1>3. ASSUME IdleTimerFires PROVE FlagHeld'
  BY <1>3 DEF TypeOK, FlagHeld, OneRequest, IdleTimerFires, flags, list, history, Callers
<1>4. ASSUME NEW t \in Stoppers, Stop(t) PROVE FlagHeld'
  <2>1. CASE StopTest(t)
    BY <2>1 DEF TypeOK, FlagHeld, OneRequest, StopTest, StopFrame, At, Go, flags, Running,
        Callers
  <2>2. CASE StopTimer(t)
    BY <2>2 DEF TypeOK, FlagHeld, OneRequest, StopTimer, StopFrame, At, Go, flags, Running,
        Callers
  <2>3. CASE StopDrained(t)
    BY <2>3 DEF TypeOK, FlagHeld, OneRequest, StopDrained, StopFrame, At, Go, flags, Running,
        Callers
  <2>4. CASE StopClear(t)
    BY <2>4 DEF TypeOK, FlagHeld, OneRequest, StopClear, StopFrame, At, Go, flags, Running,
        Callers
  <2>5. CASE StopCount(t)
    BY <2>5 DEF TypeOK, FlagHeld, OneRequest, StopCount, StopFrame, At, Go, flags, Running,
        Callers
  <2>6. CASE StopRadio(t)
    BY <2>6 DEF TypeOK, FlagHeld, OneRequest, StopRadio, StopFrame, At, Go, flags, Running,
        Callers
  <2>7. CASE StopLed(t)
    BY <2>7 DEF TypeOK, FlagHeld, OneRequest, StopLed, StopFrame, At, Go, flags, Running,
        Callers
  <2>8. CASE StopFlag(t)
    BY <2>8 DEF TypeOK, FlagHeld, OneRequest, StopFlag, StopFrame, At, Go, flags, Running,
        Callers
  <2> QED BY <1>4, <2>1, <2>2, <2>3, <2>4, <2>5, <2>6, <2>7, <2>8 DEF Stop
<1>5. ASSUME NEW kind \in {"short", "long"}, Press(kind) PROVE FlagHeld'
  BY <1>5 DEF TypeOK, FlagHeld, OneRequest, Press, flags, tasks, list, history, Callers
<1>6. ASSUME NEW kind \in {"request", "logout"}, RequestBegins(kind) PROVE FlagHeld'
  BY <1>6 DEF TypeOK, FlagHeld, OneRequest, RequestBegins, Accepting, HttpdFrame, flags, list,
      Callers
<1>7. ASSUME RequestAnswered PROVE FlagHeld'
  BY <1>7 DEF TypeOK, FlagHeld, OneRequest, RequestAnswered, HttpdFrame, flags, list, Running,
      Callers
<1>8. ASSUME NEW fd \in Fds, NEW protocol \in {"http", "ws"}, SocketOpens(fd, protocol) PROVE FlagHeld'
  BY <1>8 DEF TypeOK, FlagHeld, OneRequest, SocketOpens, Registered, Appended, Clash, Accepting,
      HttpdFrame, flags, Running, Callers
<1>9. ASSUME NEW fd \in Fds, SocketCloses(fd) PROVE FlagHeld'
  BY <1>9 DEF TypeOK, FlagHeld, OneRequest, SocketCloses, Registered, Compacted, Clash,
      HttpdFrame, flags, Callers
<1>10. ASSUME PushBegins \/ Push PROVE FlagHeld'
  BY <1>10 DEF TypeOK, FlagHeld, OneRequest, PushBegins, Push, PushCheck, PushCompact, Onward,
      Answers, Compacted, PushFrame, flags, Running, Callers
<1>11. ASSUME UNCHANGED vars PROVE FlagHeld'
  BY <1>11 DEF TypeOK, FlagHeld, OneRequest, vars, flags, tasks, list, history, Callers
<1> QED BY <1>1, <1>2, <1>3, <1>4, <1>5, <1>6, <1>7, <1>8, <1>9, <1>10, <1>11 DEF Next

\* httpd handles one request at a time.
LEMMA RequestNext ==
  ASSUME TypeOK, OneRequest, [Next]_vars
  PROVE  OneRequest'
<1>1. ASSUME BtnTakes \/ Start PROVE OneRequest'
  BY <1>1 DEF TypeOK, OneRequest, BtnTakes, Start, StartTest, StartLed, StartRadio, StartServe,
      StartFails, StartBump, StartFrame, BtnFrame, flags, list, Running, Callers
<1>2. ASSUME NEW c \in Callers, Async(c) PROVE OneRequest'
  BY <1>2 DEF TypeOK, OneRequest, Async, AsyncTest, AsyncMark, AsyncCreate, AsyncFails,
      AsyncFrame, Stopping, flags, list, Running, Callers
<1>3. ASSUME IdleTimerFires PROVE OneRequest'
  BY <1>3 DEF TypeOK, OneRequest, IdleTimerFires, flags, list, history, Callers
<1>4. ASSUME NEW t \in Stoppers, Stop(t) PROVE OneRequest'
  BY <1>4 DEF TypeOK, OneRequest, Stop, StopTest, StopTimer, StopDrained, StopClear, StopCount,
      StopRadio, StopLed, StopFlag, StopFrame, At, Go, flags, Running, Callers
<1>5. ASSUME NEW kind \in {"short", "long"}, Press(kind) PROVE OneRequest'
  BY <1>5 DEF TypeOK, OneRequest, Press, flags, tasks, list, history, Callers
<1>6. ASSUME NEW kind \in {"request", "logout"}, RequestBegins(kind) PROVE OneRequest'
  BY <1>6 DEF TypeOK, OneRequest, RequestBegins, Accepting, HttpdFrame, flags, list, Callers
<1>7. ASSUME RequestAnswered PROVE OneRequest'
  BY <1>7 DEF TypeOK, OneRequest, RequestAnswered, HttpdFrame, flags, list, Running, Callers
<1>8. ASSUME NEW fd \in Fds, NEW protocol \in {"http", "ws"}, SocketOpens(fd, protocol) PROVE OneRequest'
  BY <1>8 DEF TypeOK, OneRequest, SocketOpens, Registered, Appended, Clash, Accepting,
      HttpdFrame, flags, Running, Callers
<1>9. ASSUME NEW fd \in Fds, SocketCloses(fd) PROVE OneRequest'
  BY <1>9 DEF TypeOK, OneRequest, SocketCloses, Registered, Compacted, Clash, HttpdFrame, flags,
      Callers
<1>10. ASSUME PushBegins \/ Push PROVE OneRequest'
  BY <1>10 DEF TypeOK, OneRequest, PushBegins, Push, PushCheck, PushCompact, Onward, Answers,
      Compacted, PushFrame, flags, Running, Callers
<1>11. ASSUME UNCHANGED vars PROVE OneRequest'
  BY <1>11 DEF TypeOK, OneRequest, vars, flags, tasks, list, history, Callers
<1> QED BY <1>1, <1>2, <1>3, <1>4, <1>5, <1>6, <1>7, <1>8, <1>9, <1>10, <1>11 DEF Next

\* Only btn_task starts a server.
LEMMA StartsNext ==
  ASSUME TypeOK, StartsEmpty, [Next]_vars
  PROVE  StartsEmpty'
<1>1. ASSUME BtnTakes \/ Start PROVE StartsEmpty'
  BY <1>1 DEF TypeOK, StartsEmpty, BtnTakes, Start, StartTest, StartLed, StartRadio, StartServe,
      StartFails, StartBump, StartFrame, BtnFrame, flags, list, Running
<1>2. ASSUME NEW c \in Callers, Async(c) PROVE StartsEmpty'
  BY <1>2 DEF TypeOK, StartsEmpty, Async, AsyncTest, AsyncMark, AsyncCreate, AsyncFails,
      AsyncFrame, Stopping, flags, list, Running
<1>3. ASSUME IdleTimerFires PROVE StartsEmpty'
  BY <1>3 DEF TypeOK, StartsEmpty, IdleTimerFires, flags, list, history
<1>4. ASSUME NEW t \in Stoppers, Stop(t) PROVE StartsEmpty'
  BY <1>4 DEF TypeOK, StartsEmpty, Stop, StopTest, StopTimer, StopDrained, StopClear, StopCount,
      StopRadio, StopLed, StopFlag, StopFrame, At, Go, flags, Running
<1>5. ASSUME NEW kind \in {"short", "long"}, Press(kind) PROVE StartsEmpty'
  BY <1>5 DEF TypeOK, StartsEmpty, Press, flags, tasks, list, history
<1>6. ASSUME NEW kind \in {"request", "logout"}, RequestBegins(kind) PROVE StartsEmpty'
  BY <1>6 DEF TypeOK, StartsEmpty, RequestBegins, Accepting, HttpdFrame, flags, list
<1>7. ASSUME RequestAnswered PROVE StartsEmpty'
  BY <1>7 DEF TypeOK, StartsEmpty, RequestAnswered, HttpdFrame, flags, list, Running
<1>8. ASSUME NEW fd \in Fds, NEW protocol \in {"http", "ws"}, SocketOpens(fd, protocol) PROVE StartsEmpty'
  BY <1>8 DEF TypeOK, StartsEmpty, SocketOpens, Registered, Appended, Clash, Accepting,
      HttpdFrame, flags, Running
<1>9. ASSUME NEW fd \in Fds, SocketCloses(fd) PROVE StartsEmpty'
  BY <1>9 DEF TypeOK, StartsEmpty, SocketCloses, Registered, Compacted, Clash, HttpdFrame, flags
<1>10. ASSUME PushBegins \/ Push PROVE StartsEmpty'
  BY <1>10 DEF TypeOK, StartsEmpty, PushBegins, Push, PushCheck, PushCompact, Onward, Answers,
      Compacted, PushFrame, flags, Running
<1>11. ASSUME UNCHANGED vars PROVE StartsEmpty'
  BY <1>11 DEF TypeOK, StartsEmpty, vars, flags, tasks, list, history
<1> QED BY <1>1, <1>2, <1>3, <1>4, <1>5, <1>6, <1>7, <1>8, <1>9, <1>10, <1>11 DEF Next

\* Whoever takes s_server away puts out the lights after it.
LEMMA DimsNext ==
  ASSUME TypeOK, StartsEmpty, Dims, [Next]_vars
  PROVE  Dims'
<1>1. ASSUME BtnTakes \/ Start PROVE Dims'
  <2>1. CASE BtnTakes
    BY <2>1 DEF TypeOK, StartsEmpty, Dims, BtnTakes, BtnFrame, flags, list, Running, Dimming
  <2>2. CASE StartTest
    BY <2>2 DEF TypeOK, StartsEmpty, Dims, StartTest, StartFrame, BtnFrame, flags, list,
        Running, Dimming
  <2>3. CASE StartLed
    BY <2>3 DEF TypeOK, StartsEmpty, Dims, StartLed, StartFrame, BtnFrame, list, Dimming
  <2>4. CASE StartRadio
    BY <2>4 DEF TypeOK, StartsEmpty, Dims, StartRadio, StartFrame, BtnFrame, list, Dimming
  <2>5. CASE StartServe
    BY <2>5 DEF TypeOK, StartsEmpty, Dims, StartServe, StartFrame, BtnFrame, flags, list,
        Dimming
  <2>6. CASE StartFails
    BY <2>6 DEF TypeOK, StartsEmpty, Dims, StartFails, StartFrame, BtnFrame, flags, list,
        Dimming
  <2>7. CASE StartBump
    BY <2>7 DEF TypeOK, StartsEmpty, Dims, StartBump, StartFrame, BtnFrame, flags, list,
        Running, Dimming
  <2> QED BY <1>1, <2>1, <2>2, <2>3, <2>4, <2>5, <2>6, <2>7 DEF Start
<1>2. ASSUME NEW c \in Callers, Async(c) PROVE Dims'
  BY <1>2 DEF TypeOK, StartsEmpty, Dims, Async, AsyncTest, AsyncMark, AsyncCreate, AsyncFails,
      AsyncFrame, Stopping, flags, list, Running, Dimming
<1>3. ASSUME IdleTimerFires PROVE Dims'
  BY <1>3 DEF TypeOK, StartsEmpty, Dims, IdleTimerFires, flags, list, history, Dimming
<1>4. ASSUME NEW t \in Stoppers, Stop(t) PROVE Dims'
  BY <1>4 DEF TypeOK, StartsEmpty, Dims, Stop, StopTest, StopTimer, StopDrained, StopClear,
      StopCount, StopRadio, StopLed, StopFlag, StopFrame, At, Go, flags, Running, Dimming
<1>5. ASSUME NEW kind \in {"short", "long"}, Press(kind) PROVE Dims'
  BY <1>5 DEF TypeOK, StartsEmpty, Dims, Press, flags, tasks, list, history, Dimming
<1>6. ASSUME NEW kind \in {"request", "logout"}, RequestBegins(kind) PROVE Dims'
  BY <1>6 DEF TypeOK, StartsEmpty, Dims, RequestBegins, Accepting, HttpdFrame, flags, list,
      Dimming
<1>7. ASSUME RequestAnswered PROVE Dims'
  BY <1>7 DEF TypeOK, StartsEmpty, Dims, RequestAnswered, HttpdFrame, flags, list, Running,
      Dimming
<1>8. ASSUME NEW fd \in Fds, NEW protocol \in {"http", "ws"}, SocketOpens(fd, protocol) PROVE Dims'
  BY <1>8 DEF TypeOK, StartsEmpty, Dims, SocketOpens, Registered, Appended, Clash, Accepting,
      HttpdFrame, flags, Running, Dimming
<1>9. ASSUME NEW fd \in Fds, SocketCloses(fd) PROVE Dims'
  BY <1>9 DEF TypeOK, StartsEmpty, Dims, SocketCloses, Registered, Compacted, Clash, HttpdFrame,
      flags, Dimming
<1>10. ASSUME PushBegins \/ Push PROVE Dims'
  BY <1>10 DEF TypeOK, StartsEmpty, Dims, PushBegins, Push, PushCheck, PushCompact, Onward,
      Answers, Compacted, PushFrame, flags, Running, Dimming
<1>11. ASSUME UNCHANGED vars PROVE Dims'
  BY <1>11 DEF TypeOK, StartsEmpty, Dims, vars, flags, tasks, list, history, Dimming
<1> QED BY <1>1, <1>2, <1>3, <1>4, <1>5, <1>6, <1>7, <1>8, <1>9, <1>10, <1>11 DEF Next

\* A timer that fires hands the server over to a stop, and a stop that is refused leaves it
\* to the one under way.
LEMMA WatchedNext ==
  ASSUME TypeOK, Watched, FlagHeld, [Next]_vars
  PROVE  Watched'
<1>1. ASSUME BtnTakes \/ Start PROVE Watched'
  <2>1. CASE BtnTakes
    BY <2>1 DEF TypeOK, Watched, FlagHeld, BtnTakes, BtnFrame, flags, list, Running, Callers,
        Early, Tail, StopPlaces
  <2>2. CASE StartTest
    BY <2>2 DEF TypeOK, Watched, FlagHeld, StartTest, StartFrame, BtnFrame, flags, list,
        Running, Callers, Early, Tail, StopPlaces
  <2>3. CASE StartLed
    BY <2>3 DEF TypeOK, Watched, FlagHeld, StartLed, StartFrame, BtnFrame, list, Callers, Early,
        Tail, StopPlaces
  <2>4. CASE StartRadio
    BY <2>4 DEF TypeOK, Watched, FlagHeld, StartRadio, StartFrame, BtnFrame, list, Callers,
        Early, Tail, StopPlaces
  <2>5. CASE StartServe
    BY <2>5 DEF TypeOK, Watched, FlagHeld, StartServe, StartFrame, BtnFrame, flags, list,
        Callers, Early, Tail, StopPlaces
  <2>6. CASE StartFails
    BY <2>6 DEF TypeOK, Watched, FlagHeld, StartFails, StartFrame, BtnFrame, flags, list,
        Callers, Early, Tail, StopPlaces
  <2>7. CASE StartBump
    BY <2>7 DEF TypeOK, Watched, FlagHeld, StartBump, StartFrame, BtnFrame, flags, list,
        Running, Callers, Early, Tail, StopPlaces
  <2> QED BY <1>1, <2>1, <2>2, <2>3, <2>4, <2>5, <2>6, <2>7 DEF Start
<1>2. ASSUME NEW c \in Callers, Async(c) PROVE Watched'
  <2>1. CASE AsyncTest(c)
    BY <2>1 DEF TypeOK, Watched, FlagHeld, AsyncTest, AsyncFrame, flags, list, Running, Callers,
        Early, Tail, StopPlaces
  <2>2. CASE AsyncMark(c)
    BY <2>2 DEF TypeOK, Watched, FlagHeld, AsyncMark, AsyncFrame, flags, list, Callers, Early,
        Tail, StopPlaces
  <2>3. CASE AsyncCreate(c)
    BY <2>3 DEF TypeOK, Watched, FlagHeld, AsyncCreate, AsyncFrame, Stopping, flags, list,
        Callers, Early, Tail, StopPlaces
  <2>4. CASE AsyncFails(c)
    BY <2>4 DEF TypeOK, Watched, FlagHeld, AsyncFails, AsyncFrame, Stopping, flags, list,
        Callers, Early, Tail, StopPlaces
  <2> QED BY <1>2, <2>1, <2>2, <2>3, <2>4 DEF Async
<1>3. ASSUME IdleTimerFires PROVE Watched'
  BY <1>3 DEF TypeOK, Watched, FlagHeld, IdleTimerFires, flags, list, history, Callers, Early,
      Tail, StopPlaces
<1>4. ASSUME NEW t \in Stoppers, Stop(t) PROVE Watched'
  BY <1>4 DEF TypeOK, Watched, FlagHeld, Stop, StopTest, StopTimer, StopDrained, StopClear,
      StopCount, StopRadio, StopLed, StopFlag, StopFrame, At, Go, flags, Running, Callers,
      Early, Tail, StopPlaces
<1>5. ASSUME NEW kind \in {"short", "long"}, Press(kind) PROVE Watched'
  BY <1>5 DEF TypeOK, Watched, FlagHeld, Press, flags, tasks, list, history, Callers, Early,
      Tail, StopPlaces
<1>6. ASSUME NEW kind \in {"request", "logout"}, RequestBegins(kind) PROVE Watched'
  BY <1>6 DEF TypeOK, Watched, FlagHeld, RequestBegins, Accepting, HttpdFrame, flags, list,
      Callers, Early, Tail, StopPlaces
<1>7. ASSUME RequestAnswered PROVE Watched'
  <2>1. CASE idle' = (idle \/ Running)
    BY <1>7, <2>1 DEF TypeOK, Watched, RequestAnswered, HttpdFrame, Running
  <2>2. CASE httpd = "request" /\ UNCHANGED <<idle, unstopped>>
    BY <1>7, <2>2 DEF Watched, RequestAnswered, HttpdFrame, Tail, Early
  <2> QED BY <1>7, <2>1, <2>2 DEF RequestAnswered
<1>8. ASSUME NEW fd \in Fds, NEW protocol \in {"http", "ws"}, SocketOpens(fd, protocol) PROVE Watched'
  BY <1>8 DEF TypeOK, Watched, FlagHeld, SocketOpens, Registered, Appended, Clash, Accepting,
      HttpdFrame, flags, Running, Callers, Early, Tail, StopPlaces
<1>9. ASSUME NEW fd \in Fds, SocketCloses(fd) PROVE Watched'
  BY <1>9 DEF TypeOK, Watched, FlagHeld, SocketCloses, Registered, Compacted, Clash, HttpdFrame,
      flags, Callers, Early, Tail, StopPlaces
<1>10. ASSUME PushBegins \/ Push PROVE Watched'
  BY <1>10 DEF TypeOK, Watched, FlagHeld, PushBegins, Push, PushCheck, PushCompact, Onward,
      Answers, Compacted, PushFrame, flags, Running, Callers, Early, Tail, StopPlaces
<1>11. ASSUME UNCHANGED vars PROVE Watched'
  BY <1>11 DEF TypeOK, Watched, FlagHeld, vars, flags, tasks, list, history, Callers, Early,
      Tail, StopPlaces
<1> QED BY <1>1, <1>2, <1>3, <1>4, <1>5, <1>6, <1>7, <1>8, <1>9, <1>10, <1>11 DEF Next

\* Without two callers between test and mark there is one stop.
LEMMA OneNext ==
  ASSUME TypeOK, FlagHeld, OneStop, [Next]_vars, ~overlapped'
  PROVE  OneStop'
<1>1. ASSUME BtnTakes \/ Start PROVE OneStop'
  <2>1. CASE BtnTakes
    BY <2>1 DEF TypeOK, FlagHeld, OneStop, BtnTakes, BtnFrame, flags, list, Running, Callers
  <2>2. CASE StartTest
    BY <2>2 DEF TypeOK, FlagHeld, OneStop, StartTest, StartFrame, BtnFrame, flags, list,
        Running, Callers
  <2>3. CASE StartLed
    BY <2>3 DEF TypeOK, FlagHeld, OneStop, StartLed, StartFrame, BtnFrame, list, Callers
  <2>4. CASE StartRadio
    BY <2>4 DEF TypeOK, FlagHeld, OneStop, StartRadio, StartFrame, BtnFrame, list, Callers
  <2>5. CASE StartServe
    BY <2>5 DEF TypeOK, FlagHeld, OneStop, StartServe, StartFrame, BtnFrame, flags, list,
        Callers
  <2>6. CASE StartFails
    BY <2>6 DEF TypeOK, FlagHeld, OneStop, StartFails, StartFrame, BtnFrame, flags, list,
        Callers
  <2>7. CASE StartBump
    BY <2>7 DEF TypeOK, FlagHeld, OneStop, StartBump, StartFrame, BtnFrame, flags, list,
        Running, Callers
  <2> QED BY <1>1, <2>1, <2>2, <2>3, <2>4, <2>5, <2>6, <2>7 DEF Start
<1>2. ASSUME NEW c \in Callers, Async(c) PROVE OneStop'
  <2>1. CASE AsyncTest(c)
    <3>1. /\ \A d \in Callers \ {c} : async'[d] = async[d] /\ async[d] # "mark"
          /\ async'[c] \in {"mark", "none"} /\ (async'[c] = "mark" => ~s_stopping)
          /\ stop' = stop /\ s_stopping' = s_stopping
      BY <2>1 DEF TypeOK, AsyncTest
    <3> QED BY <3>1 DEF OneStop
  <2>2. CASE AsyncMark(c)
    <3>1. /\ async[c] = "mark" /\ async'[c] = "create"
          /\ \A d \in Callers \ {c} : async'[d] = async[d]
          /\ stop' = stop /\ s_stopping'
      BY <2>2 DEF TypeOK, AsyncMark
    <3> QED BY <3>1 DEF OneStop
  <2>3. CASE AsyncCreate(c)
    <3> DEFINE free == CHOOSE t \in Stoppers : t \notin Stopping
    <3>1. free \in Stoppers /\ stop' = [stop EXCEPT ![free] = "test"]
      BY <2>3 DEF AsyncCreate, Stopping
    <3> HIDE DEF free
    <3>2. s_stopping' /\ \A t \in Stoppers : stop[t] = "none"
      BY <2>3 DEF OneStop, AsyncCreate, AsyncFrame
    <3>3. \A t \in Stoppers : stop'[t] # "none" => t = free
      BY <3>1, <3>2 DEF TypeOK
    <3>4. \A d \in Callers : async'[d] \notin {"mark", "create"}
      BY <2>3 DEF TypeOK, OneStop, AsyncCreate
    <3> QED BY <3>2, <3>3, <3>4 DEF OneStop
  <2>4. CASE AsyncFails(c)
    BY <2>4 DEF TypeOK, FlagHeld, OneStop, AsyncFails, AsyncFrame, Stopping, flags, list,
        Callers
  <2> QED BY <1>2, <2>1, <2>2, <2>3, <2>4 DEF Async
<1>3. ASSUME IdleTimerFires PROVE OneStop'
  BY <1>3 DEF TypeOK, FlagHeld, OneStop, IdleTimerFires, flags, list, history, Callers
<1>4. ASSUME NEW t \in Stoppers, Stop(t) PROVE OneStop'
  <2>1. CASE StopTest(t)
    BY <2>1 DEF TypeOK, FlagHeld, OneStop, StopTest, StopFrame, At, Go, flags, Running, Callers
  <2>2. CASE StopTimer(t)
    BY <2>2 DEF TypeOK, FlagHeld, OneStop, StopTimer, StopFrame, At, Go, flags, Callers
  <2>3. CASE StopDrained(t)
    BY <2>3 DEF TypeOK, FlagHeld, OneStop, StopDrained, StopFrame, At, Go, flags, Callers
  <2>4. CASE StopClear(t)
    BY <2>4 DEF TypeOK, FlagHeld, OneStop, StopClear, StopFrame, At, Go, flags, Callers
  <2>5. CASE StopCount(t)
    BY <2>5 DEF TypeOK, FlagHeld, OneStop, StopCount, StopFrame, At, Go, flags, Callers
  <2>6. CASE StopRadio(t)
    BY <2>6 DEF TypeOK, FlagHeld, OneStop, StopRadio, StopFrame, At, Go, Callers
  <2>7. CASE StopLed(t)
    BY <2>7 DEF TypeOK, FlagHeld, OneStop, StopLed, StopFrame, At, Go, Callers
  <2>8. CASE StopFlag(t)
    BY <2>8 DEF TypeOK, FlagHeld, OneStop, StopFlag, StopFrame, At, Go, flags, Callers
  <2> QED BY <1>4, <2>1, <2>2, <2>3, <2>4, <2>5, <2>6, <2>7, <2>8 DEF Stop
<1>5. ASSUME NEW kind \in {"short", "long"}, Press(kind) PROVE OneStop'
  BY <1>5 DEF TypeOK, FlagHeld, OneStop, Press, flags, tasks, list, history, Callers
<1>6. ASSUME NEW kind \in {"request", "logout"}, RequestBegins(kind) PROVE OneStop'
  BY <1>6 DEF TypeOK, FlagHeld, OneStop, RequestBegins, Accepting, HttpdFrame, flags, list,
      Callers
<1>7. ASSUME RequestAnswered PROVE OneStop'
  BY <1>7 DEF TypeOK, FlagHeld, OneStop, RequestAnswered, HttpdFrame, flags, list, Running,
      Callers
<1>8. ASSUME NEW fd \in Fds, NEW protocol \in {"http", "ws"}, SocketOpens(fd, protocol) PROVE OneStop'
  BY <1>8 DEF TypeOK, FlagHeld, OneStop, SocketOpens, Registered, Appended, Clash, Accepting,
      HttpdFrame, flags, Running, Callers
<1>9. ASSUME NEW fd \in Fds, SocketCloses(fd) PROVE OneStop'
  BY <1>9 DEF TypeOK, FlagHeld, OneStop, SocketCloses, Registered, Compacted, Clash, HttpdFrame,
      flags, Callers
<1>10. ASSUME PushBegins \/ Push PROVE OneStop'
  <2>1. CASE PushBegins
    BY <2>1 DEF TypeOK, FlagHeld, OneStop, PushBegins, PushFrame, flags, Running, Callers
  <2>2. CASE PushCheck
    BY <2>2 DEF TypeOK, FlagHeld, OneStop, PushCheck, PushFrame, Onward, Answers, flags,
        Running, Callers
  <2>3. CASE PushCompact
    BY <2>3 DEF TypeOK, FlagHeld, OneStop, PushCompact, PushFrame, Onward, Compacted, flags,
        Callers
  <2> QED BY <1>10, <2>1, <2>2, <2>3 DEF Push
<1>11. ASSUME UNCHANGED vars PROVE OneStop'
  BY <1>11 DEF TypeOK, FlagHeld, OneStop, vars, flags, tasks, list, history, Callers
<1> QED BY <1>1, <1>2, <1>3, <1>4, <1>5, <1>6, <1>7, <1>8, <1>9, <1>10, <1>11 DEF Next

\* A stop frees the server it was given, once.
LEMMA HandleNext ==
  ASSUME TypeOK, OneStop, StartsEmpty, HandleGood, [Next]_vars, ~overlapped'
  PROVE  HandleGood'
<1>1. ASSUME BtnTakes \/ Start PROVE HandleGood'
  <2>1. CASE BtnTakes
    BY <2>1 DEF TypeOK, OneStop, StartsEmpty, HandleGood, BtnTakes, BtnFrame, flags, list,
        Running
  <2>2. CASE StartTest
    BY <2>2 DEF TypeOK, OneStop, StartsEmpty, HandleGood, StartTest, StartFrame, BtnFrame,
        flags, list, Running
  <2>3. CASE StartLed
    BY <2>3 DEF TypeOK, OneStop, StartsEmpty, HandleGood, StartLed, StartFrame, BtnFrame,
        flags, list, Running
  <2>4. CASE StartRadio
    BY <2>4 DEF TypeOK, OneStop, StartsEmpty, HandleGood, StartRadio, StartFrame, BtnFrame,
        flags, list, Running
  <2>5. CASE StartServe
    BY <2>5 DEF TypeOK, OneStop, StartsEmpty, HandleGood, StartServe, StartFrame, BtnFrame,
        flags, list, Running
  <2>6. CASE StartFails
    BY <2>6 DEF TypeOK, OneStop, StartsEmpty, HandleGood, StartFails, StartFrame, BtnFrame,
        flags, list, Running
  <2>7. CASE StartBump
    BY <2>7 DEF TypeOK, OneStop, StartsEmpty, HandleGood, StartBump, StartFrame, BtnFrame,
        flags, list, Running
  <2> QED BY <1>1, <2>1, <2>2, <2>3, <2>4, <2>5, <2>6, <2>7 DEF Start
<1>2. ASSUME NEW c \in Callers, Async(c) PROVE HandleGood'
  <2>1. CASE AsyncTest(c)
    BY <2>1 DEF TypeOK, OneStop, StartsEmpty, HandleGood, AsyncTest, AsyncFrame, flags, list,
        Running
  <2>2. CASE AsyncMark(c)
    BY <2>2 DEF TypeOK, OneStop, StartsEmpty, HandleGood, AsyncMark, AsyncFrame, flags, list
  <2>3. CASE AsyncCreate(c)
    BY <2>3 DEF TypeOK, OneStop, StartsEmpty, HandleGood, AsyncCreate, AsyncFrame, Stopping,
        flags, list
  <2>4. CASE AsyncFails(c)
    BY <2>4 DEF TypeOK, OneStop, StartsEmpty, HandleGood, AsyncFails, AsyncFrame, Stopping,
        flags, list
  <2> QED BY <1>2, <2>1, <2>2, <2>3, <2>4 DEF Async
<1>3. ASSUME IdleTimerFires PROVE HandleGood'
  BY <1>3 DEF TypeOK, OneStop, StartsEmpty, HandleGood, IdleTimerFires, flags, list, history
<1>4. ASSUME NEW t \in Stoppers, Stop(t) PROVE HandleGood'
  <2>1. CASE StopTest(t)
    BY <2>1 DEF TypeOK, OneStop, StartsEmpty, HandleGood, StopTest, StopFrame, At, Go, flags,
        Running
  <2>2. CASE StopTimer(t)
    <3>1. /\ stop[t] = "timer" /\ stop'[t] = "drain" /\ handle'[t] = server
          /\ \A u \in Stoppers \ {t} : stop'[u] = stop[u] /\ handle'[u] = handle[u]
          /\ server' = server /\ alive' = alive /\ dangling' = dangling
      BY <2>2 DEF TypeOK, StopTimer, At, Go
    <3> QED BY <3>1 DEF HandleGood
  <2>3. CASE StopDrained(t)
    <3>1. /\ stop[t] = "drain" /\ stop'[t] = "clear"
          /\ \A u \in Stoppers \ {t} : stop'[u] = "none"
      BY <2>3 DEF TypeOK, OneStop, StopDrained, At, Go
    <3>2. server \in alive /\ handle[t] = server /\ server # 0
      BY <3>1 DEF OneStop, HandleGood
    <3>3. server' = server /\ dangling' = dangling
      BY <2>3, <3>2 DEF StopDrained
    <3> QED BY <3>1, <3>2, <3>3 DEF HandleGood
  <2>4. CASE StopClear(t)
    <3>1. /\ stop[t] = "clear" /\ \A u \in Stoppers : stop'[u] \in {"none", "count"}
          /\ server' = 0 /\ dangling' = dangling
      BY <2>4 DEF TypeOK, OneStop, StopClear, At, Go
    <3> QED BY <3>1 DEF HandleGood
  <2>5. CASE StopCount(t)
    BY <2>5 DEF TypeOK, OneStop, StartsEmpty, HandleGood, StopCount, StopFrame, At, Go, flags
  <2>6. CASE StopRadio(t)
    BY <2>6 DEF TypeOK, OneStop, StartsEmpty, HandleGood, StopRadio, StopFrame, At, Go
  <2>7. CASE StopLed(t)
    BY <2>7 DEF TypeOK, OneStop, StartsEmpty, HandleGood, StopLed, StopFrame, At, Go
  <2>8. CASE StopFlag(t)
    BY <2>8 DEF TypeOK, OneStop, StartsEmpty, HandleGood, StopFlag, StopFrame, At, Go, flags
  <2> QED BY <1>4, <2>1, <2>2, <2>3, <2>4, <2>5, <2>6, <2>7, <2>8 DEF Stop
<1>5. ASSUME NEW kind \in {"short", "long"}, Press(kind) PROVE HandleGood'
  BY <1>5 DEF TypeOK, OneStop, StartsEmpty, HandleGood, Press, flags, tasks, list, history
<1>6. ASSUME NEW kind \in {"request", "logout"}, RequestBegins(kind) PROVE HandleGood'
  BY <1>6 DEF TypeOK, OneStop, StartsEmpty, HandleGood, RequestBegins, Accepting, HttpdFrame,
      flags, list
<1>7. ASSUME RequestAnswered PROVE HandleGood'
  BY <1>7 DEF TypeOK, OneStop, StartsEmpty, HandleGood, RequestAnswered, HttpdFrame, flags,
      list, Running
<1>8. ASSUME NEW fd \in Fds, NEW protocol \in {"http", "ws"}, SocketOpens(fd, protocol) PROVE HandleGood'
  BY <1>8 DEF TypeOK, OneStop, StartsEmpty, HandleGood, SocketOpens, Registered, Appended,
      Clash, Accepting, HttpdFrame, flags, Running
<1>9. ASSUME NEW fd \in Fds, SocketCloses(fd) PROVE HandleGood'
  BY <1>9 DEF TypeOK, OneStop, StartsEmpty, HandleGood, SocketCloses, Registered, Compacted,
      Clash, HttpdFrame, flags
<1>10. ASSUME PushBegins \/ Push PROVE HandleGood'
  BY <1>10 DEF TypeOK, OneStop, StartsEmpty, HandleGood, PushBegins, Push, PushCheck,
      PushCompact, Onward, Answers, Compacted, PushFrame, flags, Running
<1>11. ASSUME UNCHANGED vars PROVE HandleGood'
  BY <1>11 DEF TypeOK, OneStop, StartsEmpty, HandleGood, vars, flags, tasks, list, history
<1> QED BY <1>1, <1>2, <1>3, <1>4, <1>5, <1>6, <1>7, <1>8, <1>9, <1>10, <1>11 DEF Next

\* A stop puts out its own lights, and a start that does not cross one sees them on.
LEMMA LitNext ==
  ASSUME TypeOK, OneStop, HandleGood, StartsEmpty, Lit, [Next]_vars, ~overlapped'
  PROVE  Lit'
<1>1. ASSUME BtnTakes \/ Start PROVE Lit'
  <2>1. CASE BtnTakes
    BY <2>1 DEF TypeOK, OneStop, HandleGood, StartsEmpty, Lit, BtnTakes, BtnFrame, flags, list,
        Running, Dimming, Tail
  <2>2. CASE StartTest
    BY <2>2 DEF TypeOK, OneStop, HandleGood, StartsEmpty, Lit, StartTest, StartFrame, BtnFrame,
        flags, list, Running, Dimming, Tail
  <2>3. CASE StartLed
    BY <2>3 DEF TypeOK, OneStop, HandleGood, StartsEmpty, Lit, StartLed, StartFrame, BtnFrame,
        flags, list, Running, Dimming, Tail
  <2>4. CASE StartRadio
    BY <2>4 DEF TypeOK, OneStop, HandleGood, StartsEmpty, Lit, StartRadio, StartFrame,
        BtnFrame, flags, list, Running, Dimming, Tail
  <2>5. CASE StartServe
    BY <2>5 DEF TypeOK, OneStop, HandleGood, StartsEmpty, Lit, StartServe, StartFrame,
        BtnFrame, flags, list, Running, Dimming, Tail
  <2>6. CASE StartFails
    BY <2>6 DEF TypeOK, OneStop, HandleGood, StartsEmpty, Lit, StartFails, StartFrame,
        BtnFrame, flags, list, Running, Dimming, Tail
  <2>7. CASE StartBump
    BY <2>7 DEF TypeOK, OneStop, HandleGood, StartsEmpty, Lit, StartBump, StartFrame, BtnFrame,
        flags, list, Running, Dimming, Tail
  <2> QED BY <1>1, <2>1, <2>2, <2>3, <2>4, <2>5, <2>6, <2>7 DEF Start
<1>2. ASSUME NEW c \in Callers, Async(c) PROVE Lit'
  <2>1. CASE AsyncTest(c)
    BY <2>1 DEF TypeOK, OneStop, HandleGood, StartsEmpty, Lit, AsyncTest, AsyncFrame, Stopping,
        flags, list, Running, Dimming
  <2>2. CASE AsyncMark(c)
    BY <2>2 DEF TypeOK, OneStop, HandleGood, StartsEmpty, Lit, AsyncMark, AsyncFrame, Stopping,
        flags, list, Running, Dimming
  <2>3. CASE AsyncCreate(c)
    BY <2>3 DEF TypeOK, OneStop, HandleGood, StartsEmpty, Lit, AsyncCreate, AsyncFrame,
        Stopping, flags, list, Running, Dimming
  <2>4. CASE AsyncFails(c)
    BY <2>4 DEF TypeOK, OneStop, HandleGood, StartsEmpty, Lit, AsyncFails, AsyncFrame,
        Stopping, flags, list, Running, Dimming
  <2> QED BY <1>2, <2>1, <2>2, <2>3, <2>4 DEF Async
<1>3. ASSUME IdleTimerFires PROVE Lit'
  BY <1>3 DEF TypeOK, OneStop, HandleGood, StartsEmpty, Lit, IdleTimerFires, flags, list,
      history, Dimming, Tail
<1>4. ASSUME NEW t \in Stoppers, Stop(t) PROVE Lit'
  BY <1>4 DEF TypeOK, OneStop, HandleGood, StartsEmpty, Lit, Stop, StopTest, StopTimer,
      StopDrained, StopClear, StopCount, StopRadio, StopLed, StopFlag, StopFrame, At, Go, flags,
      Running, Dimming
<1>5. ASSUME NEW kind \in {"short", "long"}, Press(kind) PROVE Lit'
  BY <1>5 DEF TypeOK, OneStop, HandleGood, StartsEmpty, Lit, Press, flags, tasks, list, history,
      Dimming
<1>6. ASSUME NEW kind \in {"request", "logout"}, RequestBegins(kind) PROVE Lit'
  BY <1>6 DEF TypeOK, OneStop, HandleGood, StartsEmpty, Lit, RequestBegins, Accepting,
      HttpdFrame, flags, list, Dimming
<1>7. ASSUME RequestAnswered PROVE Lit'
  BY <1>7 DEF TypeOK, OneStop, HandleGood, StartsEmpty, Lit, RequestAnswered, HttpdFrame, flags,
      list, Running, Dimming
<1>8. ASSUME NEW fd \in Fds, NEW protocol \in {"http", "ws"}, SocketOpens(fd, protocol) PROVE Lit'
  BY <1>8 DEF TypeOK, OneStop, HandleGood, StartsEmpty, Lit, SocketOpens, Registered, Appended,
      Clash, Accepting, HttpdFrame, flags, Running, Dimming
<1>9. ASSUME NEW fd \in Fds, SocketCloses(fd) PROVE Lit'
  BY <1>9 DEF TypeOK, OneStop, HandleGood, StartsEmpty, Lit, SocketCloses, Registered,
      Compacted, Clash, HttpdFrame, flags, Dimming
<1>10. ASSUME PushBegins \/ Push PROVE Lit'
  BY <1>10 DEF TypeOK, OneStop, HandleGood, StartsEmpty, Lit, PushBegins, Push, PushCheck,
      PushCompact, Onward, Answers, Compacted, PushFrame, flags, Running, Dimming
<1>11. ASSUME UNCHANGED vars PROVE Lit'
  BY <1>11 DEF TypeOK, OneStop, HandleGood, StartsEmpty, Lit, vars, flags, tasks, list, history,
      Dimming
<1> QED BY <1>1, <1>2, <1>3, <1>4, <1>5, <1>6, <1>7, <1>8, <1>9, <1>10, <1>11 DEF Next

\* The list of sockets, changed by httpd and by the engine.
LEMMA ListNext ==
  ASSUME TypeOK, Listed, WalksList, [Next]_vars
  PROVE  (Listed /\ WalksList)'
<1>1. ASSUME BtnTakes \/ Start PROVE (Listed /\ WalksList)'
  <2>1. CASE BtnTakes
    BY <2>1 DEF TypeOK, Listed, Exact, WalksList, BtnTakes, BtnFrame, flags, list, Running, NoPush
  <2>2. CASE StartTest
    BY <2>2 DEF TypeOK, Listed, Exact, WalksList, StartTest, StartFrame, BtnFrame, flags, list,
        Running, NoPush
  <2>3. CASE StartLed
    BY <2>3 DEF TypeOK, Listed, Exact, WalksList, StartLed, StartFrame, BtnFrame, list, NoPush
  <2>4. CASE StartRadio
    BY <2>4 DEF TypeOK, Listed, Exact, WalksList, StartRadio, StartFrame, BtnFrame, list, NoPush
  <2>5. CASE StartServe
    BY <2>5 DEF TypeOK, Listed, Exact, WalksList, StartServe, StartFrame, BtnFrame, flags, list,
        NoPush
  <2>6. CASE StartFails
    BY <2>6 DEF TypeOK, Listed, Exact, WalksList, StartFails, StartFrame, BtnFrame, flags, list,
        NoPush
  <2>7. CASE StartBump
    BY <2>7 DEF TypeOK, Listed, Exact, WalksList, StartBump, StartFrame, BtnFrame, flags, list,
        Running, NoPush
  <2> QED BY <1>1, <2>1, <2>2, <2>3, <2>4, <2>5, <2>6, <2>7 DEF Start
<1>2. ASSUME NEW c \in Callers, Async(c) PROVE (Listed /\ WalksList)'
  BY <1>2 DEF TypeOK, Listed, Exact, WalksList, Async, AsyncTest, AsyncMark, AsyncCreate,
      AsyncFails, AsyncFrame, Stopping, flags, list, Running, NoPush
<1>3. ASSUME IdleTimerFires PROVE (Listed /\ WalksList)'
  BY <1>3 DEF TypeOK, Listed, Exact, WalksList, IdleTimerFires, flags, list, history, NoPush
<1>4. ASSUME NEW t \in Stoppers, Stop(t) PROVE (Listed /\ WalksList)'
  <2>1. CASE StopTest(t)
    BY <2>1 DEF TypeOK, Listed, Exact, WalksList, StopTest, StopFrame, At, Go, flags, Running,
        NoPush
  <2>2. CASE StopTimer(t)
    BY <2>2 DEF TypeOK, Listed, Exact, WalksList, StopTimer, StopFrame, At, Go, flags, NoPush
  <2>3. CASE StopDrained(t)
    BY <2>3 DEF TypeOK, Listed, Exact, WalksList, StopDrained, StopFrame, At, Go, flags, NoPush
  <2>4. CASE StopClear(t)
    BY <2>4 DEF TypeOK, Listed, Exact, WalksList, StopClear, StopFrame, At, Go, flags, NoPush
  <2>5. CASE StopCount(t)
    <3>1. ws'.count = 0 /\ (clashed' \/ push' = NoPush)
      BY <2>5 DEF TypeOK, StopCount, StopFrame
    <3> QED BY <3>1 DEF Listed, Exact, WalksList
  <2>6. CASE StopRadio(t)
    BY <2>6 DEF TypeOK, Listed, Exact, WalksList, StopRadio, StopFrame, At, Go, NoPush
  <2>7. CASE StopLed(t)
    BY <2>7 DEF TypeOK, Listed, Exact, WalksList, StopLed, StopFrame, At, Go, NoPush
  <2>8. CASE StopFlag(t)
    BY <2>8 DEF TypeOK, Listed, Exact, WalksList, StopFlag, StopFrame, At, Go, flags, NoPush
  <2> QED BY <1>4, <2>1, <2>2, <2>3, <2>4, <2>5, <2>6, <2>7, <2>8 DEF Stop
<1>5. ASSUME NEW kind \in {"short", "long"}, Press(kind) PROVE (Listed /\ WalksList)'
  BY <1>5 DEF TypeOK, Listed, Exact, WalksList, Press, flags, tasks, list, history, NoPush
<1>6. ASSUME NEW kind \in {"request", "logout"}, RequestBegins(kind) PROVE (Listed /\ WalksList)'
  BY <1>6 DEF TypeOK, Listed, Exact, WalksList, RequestBegins, Accepting, HttpdFrame, flags, list,
      NoPush
<1>7. ASSUME RequestAnswered PROVE (Listed /\ WalksList)'
  BY <1>7 DEF TypeOK, Listed, Exact, WalksList, RequestAnswered, HttpdFrame, flags, list, Running,
      NoPush
<1>8. ASSUME NEW fd \in Fds, NEW protocol \in {"http", "ws"}, SocketOpens(fd, protocol) PROVE (Listed /\ WalksList)'
  BY <1>8, WebUiAssumption, SMTT(20) DEF TypeOK, Listed, Exact, WalksList, SocketOpens, Registered, Appended,
      Clash, Accepting, HttpdFrame, flags, Running, NoPush
<1>9. ASSUME NEW fd \in Fds, SocketCloses(fd) PROVE (Listed /\ WalksList)'
  <2>1. (clashed' \/ push' = NoPush) /\ (clashed => clashed')
    BY <1>9 DEF SocketCloses, Clash, HttpdFrame
  <2> SUFFICES ASSUME ~clashed' PROVE Listed'
    BY <2>1 DEF Listed, Exact, WalksList
  <2>0. ws \in Lists
    BY DEF TypeOK, Lists
  <2>2. sockets' = [sockets EXCEPT ![fd] = "closed"]
    BY <1>9 DEF SocketCloses
  <2>3. /\ ws.count >= 0
        /\ \A i \in 0 .. ws.count - 1 :
              /\ ws.clients[i] \in Fds /\ sockets[ws.clients[i]] = "ws"
              /\ \A j \in 0 .. i - 1 : ws.clients[j] # ws.clients[i]
    BY <2>1 DEF Listed, Exact
  <2>4. CASE ~Registered(fd)
    <3>1. ws' = ws /\ \A i \in 0 .. ws.count - 1 : ws.clients[i] # fd
      BY <1>9, <2>4 DEF SocketCloses, Registered
    <3> QED BY <2>2, <2>3, <3>1 DEF Listed, Exact, TypeOK
  <2>5. CASE Registered(fd)
    <3> DEFINE k == First(fd)
    <3>1. k \in 0 .. ws.count - 1 /\ ws.clients[k] = fd /\ ws' = Compacted(k)
      BY <1>9, <2>5, FirstPlace DEF SocketCloses, TypeOK, Lists
    <3> HIDE DEF k
    <3>2. \A i \in 0 .. ws.count - 1 : i # k => ws.clients[i] # fd
      <4> TAKE i \in 0 .. ws.count - 1
      <4>1. CASE i < k
        BY <2>0, <2>3, <3>1, <4>1 DEF Lists
      <4>2. CASE k < i
        BY <2>0, <2>3, <3>1, <4>2 DEF Lists
      <4> QED BY <2>0, <3>1, <4>1, <4>2 DEF Lists
    <3>3. /\ ws'.count = ws.count - 1
          /\ \A i \in 0 .. ws.count - 2 :
                ws'.clients[i] = IF i = k THEN ws.clients[ws.count - 1] ELSE ws.clients[i]
      <4>1. ws.count \in Int /\ ws.count > 0 /\ ws.count <= WS_MAX_CLIENTS
        BY <2>0, <3>1 DEF Lists, TypeOK
      <4>2. ws' = [clients |-> [ws.clients EXCEPT ![k] = ws.clients[ws.count - 1]],
                   count |-> ws.count - 1]
        BY <3>1, <4>1 DEF Compacted
      <4>3. \A i \in 0 .. ws.count - 2 : i \in 0 .. WS_MAX_CLIENTS - 1
        BY <4>1, WebUiAssumption
      <4> QED BY <2>0, <4>2, <4>3 DEF Lists
    <3>4. ASSUME NEW i \in 0 .. ws.count - 2
          PROVE  /\ ws'.clients[i] \in Fds /\ sockets'[ws'.clients[i]] = "ws"
                 /\ \A j \in 0 .. i - 1 : ws'.clients[j] # ws'.clients[i]
      <4> DEFINE old == IF i = k THEN ws.count - 1 ELSE i
      <4>1. old \in 0 .. ws.count - 1 /\ old # k /\ ws'.clients[i] = ws.clients[old]
        BY <2>0, <3>1, <3>3 DEF Lists
      <4>2. ws.clients[old] \in Fds /\ ws.clients[old] # fd /\ sockets[ws.clients[old]] = "ws"
        BY <2>3, <3>2, <4>1
      <4>3. sockets'[ws'.clients[i]] = "ws"
        BY <2>2, <4>1, <4>2 DEF TypeOK
      <4>4. ASSUME NEW j \in 0 .. i - 1 PROVE ws'.clients[j] # ws.clients[old]
        <5> DEFINE was == IF j = k THEN ws.count - 1 ELSE j
        <5>1. was \in 0 .. ws.count - 1 /\ was # old /\ ws'.clients[j] = ws.clients[was]
          BY <2>0, <3>1, <3>3 DEF Lists
        <5> HIDE DEF was, old
        <5>2. CASE was < old
          BY <2>3, <4>1, <5>1, <5>2
        <5>3. CASE old < was
          BY <2>3, <4>1, <5>1, <5>3
        <5>4. was < old \/ old < was
          BY <2>0, <4>1, <5>1 DEF Lists
        <5> QED BY <5>1, <5>2, <5>3, <5>4
      <4> HIDE DEF old
      <4> QED BY <4>1, <4>2, <4>3, <4>4
    <3>5. ws'.count - 1 = ws.count - 2 /\ ws'.count >= 0
      BY <2>0, <3>1, <3>3 DEF Lists
    <3>6. Exact'
      BY <3>4, <3>5 DEF Exact
    <3> QED BY <3>5, <3>6 DEF Listed
  <2> QED BY <2>4, <2>5
<1>10. ASSUME PushBegins \/ Push PROVE (Listed /\ WalksList)'
  <2>1. CASE PushBegins
    BY <2>1, WebUiAssumption DEF TypeOK, Listed, Exact, WalksList, PushBegins, PushFrame, flags,
        Running, NoPush
  <2>2. CASE PushCheck
    <3>1. Listed'
      BY <2>2 DEF Listed, Exact, PushCheck, PushFrame
    <3>2. push' = NoPush \/ (push'.i \in Int /\ push'.i <= push.i)
      <4>1. push' = Onward(push.i) \/ push' = [push EXCEPT !.at = "compact"]
        BY <2>2 DEF PushCheck
      <4>2. push.i \in Int
        BY WebUiAssumption DEF TypeOK
      <4>3. Onward(push.i) = NoPush \/ (Onward(push.i).i \in Int /\ Onward(push.i).i <= push.i)
        BY <4>2 DEF Onward
      <4>4. [push EXCEPT !.at = "compact"].i = push.i
        BY DEF TypeOK
      <4>5. CASE push' = Onward(push.i)
        BY <4>3, <4>5
      <4>6. CASE push' = [push EXCEPT !.at = "compact"]
        BY <4>2, <4>4, <4>6
      <4> QED BY <4>1, <4>5, <4>6
    <3>3. push # NoPush
      BY <2>2 DEF PushCheck, NoPush
    <3>4. ws' = ws /\ clashed' = clashed /\ ws.count \in Int /\ push.i \in Int
      BY <2>2, WebUiAssumption DEF TypeOK, PushCheck, PushFrame
    <3>5. WalksList'
      BY <3>2, <3>3, <3>4 DEF WalksList, NoPush
    <3> QED BY <3>1, <3>5
  <2>3. CASE PushCompact
    BY <2>3, WebUiAssumption DEF TypeOK, Listed, Exact, WalksList, PushCompact, PushFrame, Onward,
        Compacted, flags, NoPush
  <2> QED BY <1>10, <2>1, <2>2, <2>3 DEF Push
<1>11. ASSUME UNCHANGED vars PROVE (Listed /\ WalksList)'
  BY <1>11 DEF TypeOK, Listed, Exact, WalksList, vars, flags, tasks, list, history, NoPush
<1> QED BY <1>1, <1>2, <1>3, <1>4, <1>5, <1>6, <1>7, <1>8, <1>9, <1>10, <1>11 DEF Next

\* A stop that overlapped another is never forgotten.
LEMMA OverlapStays ==
  ASSUME overlapped, [Next]_vars
  PROVE  overlapped'
<1>1. ASSUME BtnTakes \/ Start PROVE overlapped'
  BY <1>1 DEF BtnTakes, Start, StartTest, StartLed, StartRadio, StartServe, StartFails, StartBump,
      StartFrame, BtnFrame
<1>2. ASSUME NEW c \in Callers, Async(c) PROVE overlapped'
  BY <1>2 DEF Async, AsyncTest, AsyncMark, AsyncCreate, AsyncFails
<1>3. ASSUME NEW t \in Stoppers, Stop(t) PROVE overlapped'
  BY <1>3 DEF Stop, StopTest, StopTimer, StopDrained, StopClear, StopCount, StopRadio, StopLed,
      StopFlag, StopFrame
<1>4. ASSUME NEW kind \in {"short", "long"}, Press(kind) PROVE overlapped'
  BY <1>4 DEF Press, history
<1>5. CASE IdleTimerFires
  BY <1>5 DEF IdleTimerFires, history
<1>6. ASSUME NEW kind \in {"request", "logout"}, RequestBegins(kind) PROVE overlapped'
  BY <1>6 DEF RequestBegins, HttpdFrame
<1>7. CASE RequestAnswered
  BY <1>7 DEF RequestAnswered, HttpdFrame
<1>8. ASSUME NEW fd \in Fds, NEW protocol \in {"http", "ws"}, SocketOpens(fd, protocol)
      PROVE  overlapped'
  BY <1>8 DEF SocketOpens, HttpdFrame
<1>9. ASSUME NEW fd \in Fds, SocketCloses(fd) PROVE overlapped'
  BY <1>9 DEF SocketCloses, HttpdFrame
<1>10. CASE PushBegins \/ Push
  BY <1>10 DEF PushBegins, Push, PushCheck, PushCompact, PushFrame
<1>11. CASE UNCHANGED vars
  BY <1>11 DEF vars, history
<1> QED BY <1>1, <1>2, <1>3, <1>4, <1>5, <1>6, <1>7, <1>8, <1>9, <1>10, <1>11 DEF Next

-----------------------------------------------------------------------------
\* A server that app_main started is alive, watched and lit.
LEMMA InitInv ==
  ASSUME Init
  PROVE  WebInv
<1>1. TypeOK
  <2>1. servers \in Nat /\ server \in 0 .. servers /\ alive \subseteq 1 .. servers
    BY DEF Init
  <2>2. handle \in [Stoppers -> 0 .. servers]
    BY <2>1 DEF Init
  <2>3. ws \in Lists /\ ws.count <= WS_MAX_CLIENTS
    BY WebUiAssumption DEF Init, NoList, Lists
  <2>4. push \in [at : {"none", "check", "compact"}, i : 0 .. WS_MAX_CLIENTS - 1]
    BY WebUiAssumption DEF Init, NoPush
  <2>5. left \in [Events -> Nat]
    BY WebUiAssumption DEF Init
  <2> QED BY <2>1, <2>2, <2>3, <2>4, <2>5 DEF Init, TypeOK, Lists, Running, StopPlaces
<1>2. FlagHeld /\ OneRequest /\ StartsEmpty
  BY DEF Init, FlagHeld, OneRequest, StartsEmpty, Callers
<1>3. Dims /\ Watched
  BY DEF Init, Dims, Watched, Running
<1>4. OneStop /\ HandleGood /\ Lit
  BY DEF Init, OneStop, HandleGood, Lit, Running, Callers, Dimming
<1>5. Listed /\ WalksList
  BY DEF Init, Listed, Exact, WalksList, NoList
<1> QED BY <1>1, <1>2, <1>3, <1>4, <1>5 DEF WebInv

\* Each part by its lemma.
LEMMA StepInv ==
  ASSUME WebInv, [Next]_vars
  PROVE  WebInv'
<1>1. TypeOK' /\ FlagHeld' /\ OneRequest' /\ StartsEmpty'
  BY Typed, FlagNext, RequestNext, StartsNext DEF WebInv
<1>2. Dims' /\ Watched'
  BY DimsNext, WatchedNext DEF WebInv
<1>3. ASSUME ~overlapped' PROVE (OneStop /\ HandleGood /\ Lit)'
  <2>1. OneStop /\ HandleGood /\ Lit
    BY <1>3, OverlapStays DEF WebInv
  <2> QED BY <1>3, <2>1, OneNext, HandleNext, LitNext DEF WebInv
<1>4. (Listed /\ WalksList)'
  BY ListNext DEF WebInv
<1> QED BY <1>1, <1>2, <1>3, <1>4 DEF WebInv

\* WebInv is inductive: it holds at the start, and every step of every task keeps it.
THEOREM Invariance == Spec => []WebInv
BY InitInv, StepInv, PTL DEF Spec

\* The variables keep their types, and the list never grows past its array
\* (web_ui.c, handler_ws).
THEOREM TypeCorrect == Spec => []TypeOK
<1>1. WebInv => TypeOK
  BY DEF WebInv
<1> QED BY <1>1, Invariance, PTL

\* Once no task is at work, the idle timer of an open server is armed, unless a stop
\* found no memory (bump_idle_timer, web_ui_stop_async).
THEOREM AlwaysSupervised == Spec => []Supervised
<1>1. WebInv => Supervised
  <2> SUFFICES ASSUME WebInv, Settled, server # 0 PROVE idle \/ unstopped
    BY DEF Supervised, Running
  <2>1. btn = "wait" /\ httpd = "idle" /\ \A c \in Callers : async[c] = "none"
    BY DEF Settled
  <2>2. \A t \in Stoppers : stop[t] = "none"
    BY DEF Settled, Stopping
  <2> QED BY <2>1, <2>2 DEF WebInv, Watched, Early, Callers
<1> QED BY <1>1, Invariance, PTL

\* No server is freed twice, unless two callers were in web_ui_stop_async at once
\* (web_ui_stop).
THEOREM FreedOnceOnly == Spec => []FreedOnce
<1>1. WebInv => FreedOnce
  BY DEF WebInv, HandleGood, FreedOnce
<1> QED BY <1>1, Invariance, PTL

\* Radio and LED are on while the server is up and off once it is down, with the
\* exemptions that LightsFollow names (web_ui_start, web_ui_stop).
THEOREM LightsKept == Spec => []LightsFollow
<1>1. ASSUME WebInv, Settled, server # 0 PROVE (radio /\ blue) \/ crossed \/ overlapped
  BY <1>1 DEF WebInv, Lit
<1>2. ASSUME WebInv, Settled, server = 0, ~unstarted PROVE ~radio /\ ~blue
  <2>1. btn = "wait" /\ \A t \in Stoppers : stop[t] = "none"
    BY <1>2 DEF Settled, Stopping
  <2> QED BY <1>2, <2>1 DEF WebInv, Dims, Dimming
<1>3. WebInv => LightsFollow
  BY <1>1, <1>2 DEF LightsFollow, Running
<1> QED BY <1>3, Invariance, PTL

\* The list holds open WebSockets, each once, unless httpd changed it while the
\* engine walked it (handler_ws, on_sock_close, web_ui_push_key_event).
THEOREM ListStaysExact == Spec => []ListExact
<1>1. WebInv => ListExact
  BY DEF WebInv, TypeOK, ListExact, Listed
<1> QED BY <1>1, Invariance, PTL
=============================================================================
