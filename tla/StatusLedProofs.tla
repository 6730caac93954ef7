--------------------------- MODULE StatusLedProofs ---------------------------
(***************************************************************************)
(* Proofs about StatusLed, for any number of attempts, outages and other events:   *)
(* the state of the station follows the radio; hotkeys and requests leave the      *)
(* jiggler and what is stored of it in step; and the LED shows what has the        *)
(* highest priority.  The last two rest on what a task can have left to do.         *)
(***************************************************************************)
EXTENDS StatusLed, SequenceTheorems, TLAPS

\* What sys_evt has still to handle leads from the state to the radio.  The radio gives
\* an event when it changes, and nothing while it waits for a connect.
Leads ==
    /\ radio = "connecting" => queue = <<>>
    /\ radio = "up" => \/ queue = <<"address">>
                       \/ queue = <<>> /\ s_state = "connected" /\ s_retry_count = 0
    /\ radio = "down" =>
          \/ queue \in {<<"disconnected">>, <<"address", "disconnected">>}
          \/ queue = <<>> /\ s_state = "disconnected" /\ s_retry_count = MAX_RETRY

Counts == s_retry_count \in 0 .. MAX_RETRY

StationInv ==
    /\ radio \in {"connecting", "up", "down", "ap"} /\ queue \in Seq({"address", "disconnected"})
    /\ Counts /\ Leads

\* The queues that Leads names, without their first event and with one more.
LEMMA Queues ==
    /\ Tail(<<"address">>) = <<>> /\ Head(<<"address">>) = "address"
    /\ Tail(<<"disconnected">>) = <<>> /\ Head(<<"disconnected">>) = "disconnected"
    /\ Tail(<<"address", "disconnected">>) = <<"disconnected">>
    /\ Head(<<"address", "disconnected">>) = "address"
    /\ Append(<<>>, "address") = <<"address">> /\ Append(<<>>, "disconnected") = <<"disconnected">>
    /\ Append(<<"address">>, "disconnected") = <<"address", "disconnected">>
<1>1. Tail(<<"address">>) = <<>> /\ Head(<<"address">>) = "address"
  OBVIOUS
<1>2. Tail(<<"disconnected">>) = <<>> /\ Head(<<"disconnected">>) = "disconnected"
  OBVIOUS
<1>3. Head(<<"address", "disconnected">>) = "address"
  OBVIOUS
<1>4. Tail(<<"address", "disconnected">>) = <<"disconnected">>
  OBVIOUS
<1>5. Append(<<>>, "address") = <<"address">>
  OBVIOUS
<1>6. Append(<<>>, "disconnected") = <<"disconnected">>
  OBVIOUS
<1>7. Append(<<"address">>, "disconnected") = <<"address", "disconnected">>
  <2> DEFINE s == <<"address">>
             t == <<"address", "disconnected">>
  <2>1. s \in Seq({"address", "disconnected"}) /\ t \in Seq({"address", "disconnected"})
    OBVIOUS
  <2>2. Len(s) = 1 /\ Len(t) = 2 /\ s[1] = "address" /\ t[1] = "address" /\ t[2] = "disconnected"
    OBVIOUS
  <2>3. Len(Append(s, "disconnected")) = 2 /\ Append(s, "disconnected")[2] = "disconnected"
        /\ Append(s, "disconnected")[1] = "address"
    BY <2>1, <2>2, AppendProperties
  <2>4. Append(s, "disconnected") \in Seq({"address", "disconnected"})
    BY <2>1
  <2> HIDE DEF s, t
  <2>5. \A i \in 1 .. 2 : Append(s, "disconnected")[i] = t[i]
    BY <2>2, <2>3
  <2>6. Append(s, "disconnected") = t
    BY <2>1, <2>2, <2>3, <2>4, <2>5, SeqEqual
  <2> QED BY <2>6 DEF s, t
<1> QED BY <1>1, <1>2, <1>3, <1>4, <1>5, <1>6, <1>7

\* What does not change the station and its queue keeps the invariant.
LEMMA Elsewhere ==
    ASSUME StationInv, UNCHANGED wifi
    PROVE  StationInv'
BY DEF StationInv, Counts, Leads, wifi

\* The steps of the LED and of the jiggler leave the station alone.
LEMMA StepElsewhere ==
    ASSUME NEW t \in Tasks, LedStep(t) \/ JigStep(t)
    PROVE  UNCHANGED wifi
<1>1. CASE LedStep(t)
  BY <1>1 DEF LedStep, Stop, Choose, Start, StopBoth, ArmPulse, Toggle, Again, BlinkOnce, Show,
      StepFrame
<1>2. CASE JigStep(t)
  BY <1>2 DEF JigStep, Configure, Settings, Arm, Disarm, Read, Modify, Store, Switch, Flag,
      JigFrame
<1> QED BY <1>1, <1>2

LEMMA InitStation == Init => StationInv
<1> SUFFICES ASSUME Init PROVE StationInv
  OBVIOUS
<1>1. radio \in {"connecting", "up", "down"} /\ queue = <<>>
  BY StatusLedAssumption DEF Init
<1>2. /\ radio = "up" => s_state = "connected" /\ s_retry_count = 0
      /\ radio = "down" => s_state = "disconnected" /\ s_retry_count = MAX_RETRY
      /\ s_retry_count \in {0, MAX_RETRY}
  BY <1>1 DEF Init
<1> QED BY <1>1, <1>2, StatusLedAssumption DEF StationInv, Counts, Leads

\* One step for each event of the radio and each handler.
LEMMA StepStation == StationInv /\ [Next]_vars => StationInv'
<1> SUFFICES ASSUME StationInv, [Next]_vars PROVE StationInv'
  OBVIOUS
<1>1. CASE GetsAddress
  BY <1>1, Queues DEF StationInv, Counts, Leads, GetsAddress, RadioFrame
<1>2. CASE ConnectFails
  BY <1>2, Queues DEF StationInv, Counts, Leads, ConnectFails, RadioFrame
<1>3. CASE Outage
  <2>1. /\ radio = "up" /\ radio' = "down" /\ queue' = Append(queue, "disconnected")
        /\ s_state' = s_state /\ s_retry_count' = s_retry_count
    BY <1>3 DEF Outage, RadioFrame
  <2>2. queue \in {<<>>, <<"address">>}
    BY <2>1 DEF StationInv, Leads
  <2>3. queue' \in {<<"disconnected">>, <<"address", "disconnected">>}
    BY <2>1, <2>2, Queues
  <2>4. queue' \in Seq({"address", "disconnected"})
    BY <2>1 DEF StationInv
  <2> QED BY <2>1, <2>3, <2>4 DEF StationInv, Counts, Leads
<1>4. CASE Disconnected
  <2>1. queue # <<>> /\ Head(queue) = "disconnected" /\ queue' = Tail(queue)
    BY <1>4 DEF Disconnected
  <2>2. radio \in {"down", "ap"} /\ (radio = "down" => queue = <<"disconnected">>)
    BY <2>1, Queues DEF StationInv, Leads
  <2>3. queue' \in Seq({"address", "disconnected"})
    BY <2>1 DEF StationInv
  <2>4. CASE s_retry_count < MAX_RETRY
    <3>1. /\ radio' = IF radio = "ap" THEN "ap" ELSE "connecting"
          /\ s_retry_count' = s_retry_count + 1
      BY <1>4, <2>4 DEF Disconnected, Retry
    <3> QED BY <2>1, <2>2, <2>3, <2>4, <3>1, Queues, StatusLedAssumption
             DEF StationInv, Counts, Leads
  <2>5. CASE ~(s_retry_count < MAX_RETRY)
    <3>1. radio' = radio /\ s_retry_count' = s_retry_count /\ s_state' = "disconnected"
      BY <1>4, <2>5 DEF Disconnected, SetState
    <3>2. s_retry_count = MAX_RETRY
      BY <2>5, StatusLedAssumption DEF StationInv, Counts
    <3> QED BY <2>1, <2>2, <2>3, <3>1, <3>2, Queues DEF StationInv, Counts, Leads
  <2> QED BY <2>4, <2>5
<1>5. CASE GotAddress
  <2>1. /\ queue # <<>> /\ Head(queue) = "address" /\ queue' = Tail(queue)
        /\ radio' = radio /\ s_retry_count' = 0 /\ s_state' = "connected"
    BY <1>5 DEF GotAddress, SetState
  <2>2. /\ radio = "up" => queue = <<"address">>
        /\ radio = "down" => queue = <<"address", "disconnected">>
        /\ radio # "connecting"
    BY <2>1, Queues DEF StationInv, Leads
  <2>3. queue' \in Seq({"address", "disconnected"})
    BY <2>1 DEF StationInv
  <2>4. /\ radio' = "up" => queue' = <<>>
        /\ radio' = "down" => queue' = <<"disconnected">>
        /\ radio' # "connecting"
    BY <2>1, <2>2, Queues
  <2>5. Counts'
    BY <2>1, StatusLedAssumption DEF Counts
  <2>6. Leads'
    BY <2>1, <2>4 DEF Leads
  <2> QED BY <2>1, <2>3, <2>5, <2>6 DEF StationInv
<1>6. CASE StartAp
  <2>1. /\ radio' = "ap" /\ s_retry_count' = s_retry_count
        /\ queue' \in {queue, Append(queue, "disconnected")}
    BY <1>6 DEF StartAp
  <2> QED BY <2>1 DEF StationInv, Counts, Leads
<1>7. ASSUME NEW t \in Tasks, LedStep(t) \/ JigStep(t) PROVE StationInv'
  BY <1>7, StepElsewhere, Elsewhere
<1>8. CASE Timer \/ LedOn \/ LedOff \/ Substituted
  <2>1. UNCHANGED wifi
    BY <1>8 DEF Timer, BlinkFires, PulseEnds, LedOn, LedOff, Substituted
  <2> QED BY <2>1, Elsewhere
<1>9. ASSUME NEW pending \in BOOLEAN, SetFido2Pending(pending) PROVE StationInv'
  BY <1>9, Elsewhere DEF SetFido2Pending
<1>10. ASSUME NEW what \in Switches, Hotkey(what) PROVE StationInv'
  BY <1>10, Elsewhere DEF Hotkey
<1>11. ASSUME NEW value \in {0, 1}, NEW on \in BOOLEAN, Post(value, on) PROVE StationInv'
  BY <1>11, Elsewhere DEF Post
<1>12. CASE UNCHANGED vars
  BY <1>12, Elsewhere DEF vars
<1> QED BY <1>1, <1>2, <1>3, <1>4, <1>5, <1>6, <1>7, <1>8, <1>9, <1>10, <1>11, <1>12
         DEF Next, Answer, Handle

\* Once every event is handled the state of wifi_manager.c is that of the radio, and a
\* station counts as lost only when all attempts are used up (wifi_event_handler).
THEOREM StateTracksRadio == Spec => []StateFollows
<1>1. StationInv => StateFollows
  BY DEF StationInv, Leads, StateFollows
<1> QED BY <1>1, InitStation, StepStation, PTL DEF Spec

-----------------------------------------------------------------------------
(* What a task has still to do, as its next step and the rest.                 *)

Cons(x, r) == <<x>> \o r
LEMMA Single == ASSUME NEW S, NEW x \in S PROVE <<x>> \in Seq(S) /\ Len(<<x>>) = 1 /\ <<x>>[1] = x
OBVIOUS
LEMMA ConsAt ==
    ASSUME NEW S, NEW x \in S, NEW r \in Seq(S)
    PROVE  /\ Cons(x, r) \in Seq(S) /\ Len(Cons(x, r)) = Len(r) + 1 /\ Len(r) \in Nat
           /\ Cons(x, r)[1] = x /\ \A i \in 1 .. Len(r) : Cons(x, r)[i + 1] = r[i]
<1> DEFINE p == <<x>>
<1>1. p \in Seq(S) /\ Len(p) = 1 /\ p[1] = x
  BY Single
<1>2. Cons(x, r) = p \o r
  BY DEF Cons
<1> HIDE DEF p
<1>3. /\ p \o r \in Seq(S) /\ Len(p \o r) = 1 + Len(r)
      /\ \A i \in 1 .. 1 + Len(r) : (p \o r)[i] = IF i <= 1 THEN p[i] ELSE r[i - 1]
  <2>1. /\ p \o r \in Seq(S) /\ Len(p \o r) = Len(p) + Len(r)
        /\ \A i \in 1 .. Len(p) + Len(r) : (p \o r)[i] = IF i <= Len(p) THEN p[i] ELSE r[i - Len(p)]
    BY <1>1, ConcatProperties
  <2> QED BY <1>1, <2>1
<1>4. Len(r) \in Nat
  OBVIOUS
<1>5. (p \o r)[1] = x
  <2>1. 1 \in 1 .. 1 + Len(r) /\ 1 <= 1
    BY <1>4
  <2> QED BY <1>1, <1>3, <2>1
<1>6. ASSUME NEW i \in 1 .. Len(r) PROVE (p \o r)[i + 1] = r[i]
  <2>1. i + 1 \in 1 .. 1 + Len(r) /\ ~(i + 1 <= 1) /\ (i + 1) - 1 = i
    BY <1>4
  <2> QED BY <1>3, <2>1
<1> QED BY <1>2, <1>3, <1>4, <1>5, <1>6
LEMMA ConsFacts ==
    ASSUME NEW S, NEW x \in S, NEW r \in Seq(S)
    PROVE  /\ Cons(x, r) \in Seq(S) /\ Cons(x, r) # <<>>
           /\ Head(Cons(x, r)) = x /\ Tail(Cons(x, r)) = r
<1> DEFINE s == Cons(x, r)
<1>1. /\ s \in Seq(S) /\ Len(s) = Len(r) + 1 /\ Len(r) \in Nat
      /\ s[1] = x /\ \A i \in 1 .. Len(r) : s[i + 1] = r[i]
  BY ConsAt
<1> HIDE DEF s
<1>2. s # <<>>
  BY <1>1, EmptySeq
<1>3. Head(s) = x /\ Tail(s) \in Seq(S) /\ Len(Tail(s)) = Len(r)
      /\ \A i \in 1 .. Len(r) : Tail(s)[i] = r[i]
  BY <1>1, <1>2, HeadTailProperties
<1>4. Tail(s) = r
  BY <1>3, SeqEqual
<1> QED BY <1>1, <1>2, <1>3, <1>4 DEF s


LEMMA HeadAndTail ==
    ASSUME NEW S, NEW s \in Seq(S), s # <<>>
    PROVE  s = Cons(Head(s), Tail(s))
<1> DEFINE t == Cons(Head(s), Tail(s))
<1>1. /\ Head(s) \in S /\ Head(s) = s[1] /\ Tail(s) \in Seq(S) /\ Len(s) \in Nat \ {0}
      /\ Len(Tail(s)) = Len(s) - 1 /\ \A i \in 1 .. Len(s) - 1 : Tail(s)[i] = s[i + 1]
  BY HeadTailProperties, EmptySeq
<1>2. /\ t \in Seq(S) /\ Len(t) = Len(s) /\ t[1] = s[1]
      /\ \A i \in 1 .. Len(s) - 1 : t[i + 1] = s[i + 1]
  <2>1. /\ t \in Seq(S) /\ Len(t) = Len(Tail(s)) + 1 /\ t[1] = Head(s)
        /\ \A i \in 1 .. Len(Tail(s)) : t[i + 1] = Tail(s)[i]
    <3>1. Head(s) \in S /\ Tail(s) \in Seq(S)
      BY <1>1
    <3>2. PICK x \in S, r \in Seq(S) : x = Head(s) /\ r = Tail(s)
      BY <3>1
    <3>3. /\ Cons(x, r) \in Seq(S) /\ Len(Cons(x, r)) = Len(r) + 1 /\ Cons(x, r)[1] = x
          /\ \A i \in 1 .. Len(r) : Cons(x, r)[i + 1] = r[i]
      BY ConsAt
    <3> QED BY <3>2, <3>3
  <2> HIDE DEF t
  <2> QED BY <1>1, <2>1
<1> HIDE DEF t
<1>3. ASSUME NEW i \in 1 .. Len(s) PROVE t[i] = s[i]
  <2>1. i = 1 \/ (i - 1 \in 1 .. Len(s) - 1 /\ (i - 1) + 1 = i)
    BY <1>1
  <2>2. CASE i - 1 \in 1 .. Len(s) - 1 /\ (i - 1) + 1 = i
    BY <1>2, <2>2
  <2> QED BY <1>2, <2>1, <2>2
<1>4. t = s
  BY <1>2, <1>3, SeqEqual
<1> QED BY <1>4 DEF t

LEMMA Pairs ==
    ASSUME NEW a, NEW b
    PROVE  <<a>> = Cons(a, <<>>) /\ <<a, b>> = Cons(a, <<b>>)
<1> DEFINE S == {a, b}
<1>1. <<a>> \in Seq(S) /\ <<a>> # <<>> /\ Head(<<a>>) = a /\ Tail(<<a>>) = <<>>
  OBVIOUS
<1>2. <<a, b>> \in Seq(S) /\ <<a, b>> # <<>> /\ Head(<<a, b>>) = a /\ Tail(<<a, b>>) = <<b>>
  OBVIOUS
<1> QED BY <1>1, <1>2, HeadAndTail, Zenon

LEMMA Triples ==
    ASSUME NEW a, NEW b, NEW c
    PROVE  <<a, b, c>> = Cons(a, <<b, c>>)
<1> DEFINE S == {a, b, c}
<1>1. /\ <<a, b, c>> \in Seq(S) /\ <<a, b, c>> # <<>>
      /\ Head(<<a, b, c>>) = a /\ Tail(<<a, b, c>>) = <<b, c>>
  OBVIOUS
<1> QED BY <1>1, HeadAndTail, Zenon

LEMMA Quintuples ==
    ASSUME NEW a, NEW b, NEW c, NEW d, NEW e
    PROVE  <<a, b, c, d, e>> = Cons(a, Cons(b, <<c, d, e>>))
<1> DEFINE S == {a, b, c, d, e}
<1>1. /\ <<b, c, d, e>> \in Seq(S) /\ <<b, c, d, e>> # <<>>
      /\ Head(<<b, c, d, e>>) = b /\ Tail(<<b, c, d, e>>) = <<c, d, e>>
  OBVIOUS
<1>2. /\ <<a, b, c, d, e>> \in Seq(S) /\ <<a, b, c, d, e>> # <<>>
      /\ Head(<<a, b, c, d, e>>) = a /\ Tail(<<a, b, c, d, e>>) = <<b, c, d, e>>
  OBVIOUS
<1> QED BY <1>1, <1>2, HeadAndTail, Zenon

LEMMA Lists ==
    ASSUME NEW S, NEW a \in S, NEW b \in S, NEW c \in S, NEW d \in S, NEW e \in S
    PROVE  <<a, b, c>> \in Seq(S) /\ <<a, b, c, d, e>> \in Seq(S)
OBVIOUS

\* One, two or three steps before the steps r are added one by one.
OneByOne(S, r, a, b, c) ==
    /\ <<a>> \in Seq(S) /\ <<a, b>> \in Seq(S) /\ <<a, b, c>> \in Seq(S)
    /\ <<>> \o r = r /\ <<a>> \o r = Cons(a, r) /\ <<a, b>> \o r = Cons(a, Cons(b, r))
    /\ <<a, b, c>> \o r = Cons(a, Cons(b, Cons(c, r)))
LEMMA Joins ==
    ASSUME NEW S, NEW r \in Seq(S), NEW a \in S, NEW b \in S, NEW c \in S
    PROVE  OneByOne(S, r, a, b, c)
<1>1. <<>> \o r = r /\ <<a>> \o r = Cons(a, r)
  BY ConcatEmptySeq DEF Cons
<1>2. <<a>> \in Seq(S) /\ <<b>> \in Seq(S) /\ <<b, c>> \in Seq(S) /\ <<c>> \in Seq(S)
      /\ <<a, b>> \in Seq(S) /\ <<a, b, c>> \in Seq(S)
  OBVIOUS
<1>3. <<a>> \o <<b>> = <<a, b>> /\ <<b>> \o <<c>> = <<b, c>> /\ <<a>> \o <<b, c>> = <<a, b, c>>
  <2>1. <<a, b>> = Cons(a, <<b>>) /\ <<b, c>> = Cons(b, <<c>>)
    BY Pairs, Zenon
  <2>2. <<a, b, c>> = Cons(a, <<b, c>>)
    BY Triples, Zenon
  <2> QED BY <2>1, <2>2, Zenon DEF Cons
<1>4. ASSUME NEW p \in Seq(S), NEW q \in Seq(S) PROVE (p \o q) \o r = p \o (q \o r)
  BY ConcatAssociative
<1>5. /\ <<a, b>> \o r = <<a>> \o (<<b>> \o r) /\ <<b, c>> \o r = <<b>> \o (<<c>> \o r)
      /\ <<a, b, c>> \o r = <<a>> \o (<<b, c>> \o r)
  <2>1. (<<a>> \o <<b>>) \o r = <<a>> \o (<<b>> \o r)
    BY <1>2, <1>4, Zenon
  <2>2. (<<b>> \o <<c>>) \o r = <<b>> \o (<<c>> \o r)
    BY <1>2, <1>4, Zenon
  <2>3. (<<a>> \o <<b, c>>) \o r = <<a>> \o (<<b, c>> \o r)
    BY <1>2, <1>4, Zenon
  <2> QED BY <1>3, <2>1, <2>2, <2>3, Zenon
<1>6. <<a, b, c>> \o r = Cons(a, Cons(b, Cons(c, r))) /\ <<a, b>> \o r = Cons(a, Cons(b, r))
  BY <1>5, Zenon DEF Cons
<1> QED BY <1>1, <1>2, <1>6, Zenon DEF OneByOne

-----------------------------------------------------------------------------
(* The tasks and their steps.                                                *)

\* What the functions of a task call besides the LED; the others have nothing but the LED
\* to do.
Others == Tasks \ {"engine", "httpd"}
HttpdCalls == Switches \cup {"configure", "settings", "disarm", "on", "off", "read", "modify",
                            "modify off", "store"}
Calls(t) == CASE t = "engine" -> HttpdCalls \cup {"blink once"}
              [] t = "httpd" -> HttpdCalls
              [] OTHER -> {}
StepNames == LedSteps \cup HttpdCalls \cup {"blink once", "arm"}

\* A task is at most in one call of the LED, or of the jiggler's timer, and goes on with r.
Shapes(t, r) ==
    {r, Cons("stop", Cons("choose", r)), Cons("choose", r), Cons("start", r)}
        \cup (IF t = "web" THEN {Cons("stop both", Cons("blue", r)), Cons("blue", r)} ELSE {})
        \cup (IF t = "timer" THEN {Cons("toggle", r), Cons("again", r)} ELSE {})
        \cup (IF t \in Others THEN {} ELSE {Cons("arm", Cons("on", r))})
        \cup (IF t = "engine" THEN {Cons("stop both", Cons("white", Cons("arm pulse", r))),
                                   Cons("white", Cons("arm pulse", r)), Cons("arm pulse", r)}
             ELSE {})
TodoType ==
    /\ todo \in [Tasks -> Seq(StepNames)]
    /\ \A t \in Tasks : \E r \in Seq(Calls(t)) : todo[t] \in Shapes(t, r)

LEMMA Steps ==
    ASSUME NEW x \in StepNames, NEW r \in Seq(StepNames)
    PROVE  /\ Cons(x, r) \in Seq(StepNames) /\ Cons(x, r) # <<>>
           /\ Head(Cons(x, r)) = x /\ Tail(Cons(x, r)) = r
BY ConsFacts

\* Which step of which function it is.
LEMMA StepAt ==
    ASSUME NEW t \in Tasks, LedStep(t) \/ JigStep(t)
    PROVE  /\ todo[t] # <<>>
           /\ \/ Head(todo[t]) = "stop" /\ Stop(t)
              \/ Head(todo[t]) = "choose" /\ Choose(t)
              \/ Head(todo[t]) = "start" /\ Start(t)
              \/ Head(todo[t]) = "stop both" /\ StopBoth(t)
              \/ Head(todo[t]) = "arm pulse" /\ ArmPulse(t)
              \/ Head(todo[t]) = "toggle" /\ Toggle(t)
              \/ Head(todo[t]) = "again" /\ Again(t)
              \/ Head(todo[t]) = "blink once" /\ BlinkOnce(t)
              \/ Head(todo[t]) = "blue" /\ Show(t, "blue")
              \/ Head(todo[t]) = "white" /\ Show(t, "white")
              \/ Head(todo[t]) = "configure" /\ Configure(t)
              \/ Head(todo[t]) = "settings" /\ Settings(t)
              \/ Head(todo[t]) = "arm" /\ Arm(t)
              \/ Head(todo[t]) = "disarm" /\ Disarm(t)
              \/ Head(todo[t]) = "on" /\ Flag(t, TRUE)
              \/ Head(todo[t]) = "off" /\ Flag(t, FALSE)
              \/ Head(todo[t]) = "read" /\ Read(t)
              \/ Head(todo[t]) \in {"modify", "modify off"} /\ Modify(t)
              \/ Head(todo[t]) = "store" /\ Store(t)
              \/ Head(todo[t]) \in Switches /\ Switch(t, Head(todo[t]))
<1>1. CASE LedStep(t)
  <2>1. CASE \E c \in {"blue", "white"} : Show(t, c)
    BY <2>1 DEF Show, At, Idle
  <2>2. CASE BlinkOnce(t) \/ Toggle(t) \/ Again(t) \/ ArmPulse(t)
    BY <2>2 DEF BlinkOnce, Toggle, Again, ArmPulse, At, Idle
  <2>3. CASE Stop(t) \/ Choose(t) \/ Start(t) \/ StopBoth(t)
    BY <2>3 DEF Stop, Choose, Start, StopBoth, At, Idle
  <2> QED BY <1>1, <2>1, <2>2, <2>3 DEF LedStep
<1>2. CASE JigStep(t)
  <2>1. CASE \E what \in Switches : Switch(t, what)
    BY <2>1 DEF Switch, At, Idle
  <2>2. CASE \E on \in BOOLEAN : Flag(t, on)
    BY <2>2 DEF Flag, At, Idle
  <2>3. CASE Configure(t) \/ Settings(t) \/ Arm(t) \/ Disarm(t)
    BY <2>3 DEF Configure, Settings, Arm, Disarm, At, Idle
  <2>4. CASE Read(t) \/ Modify(t) \/ Store(t)
    BY <2>4 DEF Read, Modify, Store, At, Idle
  <2> QED BY <1>2, <2>1, <2>2, <2>3, <2>4 DEF JigStep
<1> QED BY <1>1, <1>2

\* What a step that is done leaves.
LEMMA ThenLeaves ==
    ASSUME TodoType, NEW t \in Tasks, todo[t] # <<>>, NEW p \in Seq(StepNames), Then(t, p)
    PROVE  /\ todo' \in [Tasks -> Seq(StepNames)]
           /\ todo'[t] = p \o Tail(todo[t]) /\ Tail(todo[t]) \in Seq(StepNames)
           /\ \A u \in Tasks : u # t => todo'[u] = todo[u]
<1>1. todo[t] \in Seq(StepNames)
  BY DEF TodoType
<1>2. Tail(todo[t]) \in Seq(StepNames)
  BY <1>1, HeadTailProperties
<1>3. p \o Tail(todo[t]) \in Seq(StepNames)
  BY <1>2, ConcatProperties
<1> QED BY <1>2, <1>3 DEF Then, TodoType

LEMMA DoneLeaves ==
    ASSUME TodoType, NEW t \in Tasks, todo[t] # <<>>, Done(t)
    PROVE  /\ todo' \in [Tasks -> Seq(StepNames)]
           /\ todo'[t] = Tail(todo[t]) /\ Tail(todo[t]) \in Seq(StepNames)
           /\ \A u \in Tasks : u # t => todo'[u] = todo[u]
<1>1. <<>> \in Seq(StepNames) /\ Then(t, <<>>)
  BY DEF Done
<1>2. Tail(todo[t]) \in Seq(StepNames) => <<>> \o Tail(todo[t]) = Tail(todo[t])
  BY ConcatEmptySeq
<1> QED BY <1>1, <1>2, ThenLeaves

\* The lists of steps that the functions push.
LEMMA Pushed ==
    ASSUME NEW r \in Seq(StepNames)
    PROVE  /\ <<"stop", "choose">> \in Seq(StepNames)
           /\ <<"stop", "choose">> \o r = Cons("stop", Cons("choose", r))
           /\ <<"start">> \in Seq(StepNames) /\ <<"start">> \o r = Cons("start", r)
           /\ <<"again">> \in Seq(StepNames) /\ <<"again">> \o r = Cons("again", r)
           /\ <<"settings">> \in Seq(StepNames) /\ <<"settings">> \o r = Cons("settings", r)
           /\ <<"arm", "on">> \in Seq(StepNames)
           /\ <<"arm", "on">> \o r = Cons("arm", Cons("on", r))
           /\ <<"disarm", "off">> \in Seq(StepNames)
           /\ <<"disarm", "off">> \o r = Cons("disarm", Cons("off", r))
           /\ <<"disable", "settings", "enable">> \in Seq(StepNames)
           /\ <<"disable", "settings", "enable">> \o r
                 = Cons("disable", Cons("settings", Cons("enable", r)))
           /\ <<"stop both", "white", "arm pulse">> \in Seq(StepNames)
           /\ <<"stop both", "white", "arm pulse">> \o r
                 = Cons("stop both", Cons("white", Cons("arm pulse", r)))
<1>1. \A a, b, c \in StepNames : OneByOne(StepNames, r, a, b, c)
  BY Joins
<1>2. /\ OneByOne(StepNames, r, "stop", "choose", "stop") /\ OneByOne(StepNames, r, "start", "stop", "stop")
      /\ OneByOne(StepNames, r, "again", "stop", "stop")
      /\ OneByOne(StepNames, r, "settings", "stop", "stop")
      /\ OneByOne(StepNames, r, "arm", "on", "stop") /\ OneByOne(StepNames, r, "disarm", "off", "stop")
      /\ OneByOne(StepNames, r, "disable", "settings", "enable")
      /\ OneByOne(StepNames, r, "stop both", "white", "arm pulse")
  <2>1. /\ "stop" \in StepNames /\ "choose" \in StepNames /\ "start" \in StepNames /\ "again" \in StepNames
        /\ "settings" \in StepNames /\ "arm" \in StepNames /\ "on" \in StepNames /\ "disarm" \in StepNames
        /\ "off" \in StepNames /\ "disable" \in StepNames /\ "enable" \in StepNames
        /\ "stop both" \in StepNames /\ "white" \in StepNames /\ "arm pulse" \in StepNames
    BY DEF StepNames, LedSteps, HttpdCalls, Switches
  <2> QED BY <1>1, <2>1, Zenon
<1>3. ASSUME NEW a, NEW b, NEW c, OneByOne(StepNames, r, a, b, c)
      PROVE  <<a>> \in Seq(StepNames) /\ <<a>> \o r = Cons(a, r)
  BY <1>3, Zenon DEF OneByOne
<1>4. ASSUME NEW a, NEW b, NEW c, OneByOne(StepNames, r, a, b, c)
      PROVE  <<a, b>> \in Seq(StepNames) /\ <<a, b>> \o r = Cons(a, Cons(b, r))
  BY <1>4, Zenon DEF OneByOne
<1>5. ASSUME NEW a, NEW b, NEW c, OneByOne(StepNames, r, a, b, c)
      PROVE  <<a, b, c>> \in Seq(StepNames) /\ <<a, b, c>> \o r = Cons(a, Cons(b, Cons(c, r)))
  BY <1>5, Zenon DEF OneByOne
<1>6. /\ <<"start">> \in Seq(StepNames) /\ <<"start">> \o r = Cons("start", r)
      /\ <<"again">> \in Seq(StepNames) /\ <<"again">> \o r = Cons("again", r)
      /\ <<"settings">> \in Seq(StepNames) /\ <<"settings">> \o r = Cons("settings", r)
  BY <1>2, <1>3, Zenon
<1>7. /\ <<"stop", "choose">> \in Seq(StepNames)
      /\ <<"stop", "choose">> \o r = Cons("stop", Cons("choose", r))
      /\ <<"arm", "on">> \in Seq(StepNames)
      /\ <<"arm", "on">> \o r = Cons("arm", Cons("on", r))
      /\ <<"disarm", "off">> \in Seq(StepNames)
      /\ <<"disarm", "off">> \o r = Cons("disarm", Cons("off", r))
  BY <1>2, <1>4, Zenon
<1>8. /\ <<"disable", "settings", "enable">> \in Seq(StepNames)
      /\ <<"disable", "settings", "enable">> \o r
            = Cons("disable", Cons("settings", Cons("enable", r)))
      /\ <<"stop both", "white", "arm pulse">> \in Seq(StepNames)
      /\ <<"stop both", "white", "arm pulse">> \o r
            = Cons("stop both", Cons("white", Cons("arm pulse", r)))
  BY <1>2, <1>5, Zenon
<1> QED BY <1>6, <1>7, <1>8

LEMMA CallNames == ASSUME NEW t \in Tasks PROVE Calls(t) \subseteq StepNames
BY DEF Calls, StepNames, Tasks

LEMMA RestType ==
    ASSUME NEW t \in Tasks, NEW r \in Seq(Calls(t))
    PROVE  /\ r \in Seq(StepNames) /\ (t \in Others => r = <<>>)
           /\ r # <<>> => Head(r) \in Calls(t) /\ Tail(r) \in Seq(Calls(t))
<1>1. r \in Seq(StepNames)
  BY CallNames
<1>2. r # <<>> => Head(r) \in Calls(t) /\ Tail(r) \in Seq(Calls(t))
  BY HeadTailProperties
<1>3. t \in Others => Calls(t) = {}
  BY DEF Others, Calls
<1> QED BY <1>1, <1>2, <1>3

\* A task whose next step is h goes on with u.
GoesOn(t, r, h, u) ==
    /\ h = "stop" => u = Cons("choose", r)
    /\ h \in {"choose", "start", "blue", "arm pulse", "toggle", "again"} => u = r
    /\ h = "stop both" => \/ t = "web" /\ u = Cons("blue", r)
                          \/ t = "engine" /\ u = Cons("white", Cons("arm pulse", r))
    /\ h = "white" => t = "engine" /\ u = Cons("arm pulse", r)
    /\ h = "blue" => t = "web"
    /\ h = "arm pulse" => t = "engine"
    /\ h \in {"toggle", "again"} => t = "timer"
    /\ h = "arm" => t \notin Others /\ u = Cons("on", r)
    /\ h \in HttpdCalls \cup {"blink once"} =>
          t \notin Others /\ h \in Calls(t) /\ u \in Seq(Calls(t))

LEMMA ShapeOf ==
    ASSUME NEW t \in Tasks, NEW r \in Seq(Calls(t)), NEW s \in Shapes(t, r), s # <<>>
    PROVE  s \in Seq(StepNames) /\ GoesOn(t, r, Head(s), Tail(s))
<1>1. /\ r \in Seq(StepNames) /\ (t \in Others => r = <<>>)
      /\ r # <<>> => Head(r) \in Calls(t) /\ Tail(r) \in Seq(Calls(t))
  BY RestType
<1>2. /\ "stop" \in StepNames /\ "choose" \in StepNames /\ "start" \in StepNames
      /\ "again" \in StepNames /\ "toggle" \in StepNames /\ "blue" \in StepNames
      /\ "arm" \in StepNames /\ "on" \in StepNames
      /\ "stop both" \in StepNames /\ "white" \in StepNames /\ "arm pulse" \in StepNames
  BY DEF StepNames, LedSteps, HttpdCalls
<1>3. ASSUME NEW x \in StepNames, NEW q \in Seq(StepNames)
      PROVE  Cons(x, q) \in Seq(StepNames) /\ Head(Cons(x, q)) = x /\ Tail(Cons(x, q)) = q
  BY Steps
<1>4. PICK h, u : h = Head(s) /\ u = Tail(s)
  OBVIOUS
<1>5. CASE s = r
  <2>1. h \in Calls(t) /\ u \in Seq(Calls(t)) /\ t \notin Others
    BY <1>1, <1>4, <1>5
  <2>2. Calls(t) \subseteq HttpdCalls \cup {"blink once"}
    BY DEF Calls
  <2>3. GoesOn(t, r, h, u)
    BY <2>1, <2>2 DEF GoesOn, HttpdCalls, Switches
  <2> QED BY <1>1, <1>4, <1>5, <2>3
<1>6. ASSUME NEW x \in StepNames, NEW q \in Seq(StepNames), s = Cons(x, q), GoesOn(t, r, x, q)
      PROVE  s \in Seq(StepNames) /\ GoesOn(t, r, Head(s), Tail(s))
  BY <1>3, <1>6
<1>7. /\ GoesOn(t, r, "stop", Cons("choose", r)) /\ GoesOn(t, r, "choose", r)
      /\ GoesOn(t, r, "start", r)
      /\ t = "web" => GoesOn(t, r, "stop both", Cons("blue", r)) /\ GoesOn(t, r, "blue", r)
      /\ t = "timer" => GoesOn(t, r, "toggle", r) /\ GoesOn(t, r, "again", r)
      /\ t \notin Others => GoesOn(t, r, "arm", Cons("on", r))
      /\ t = "engine" => /\ GoesOn(t, r, "stop both", Cons("white", Cons("arm pulse", r)))
                         /\ GoesOn(t, r, "white", Cons("arm pulse", r))
                         /\ GoesOn(t, r, "arm pulse", r)
  BY DEF GoesOn, HttpdCalls, Switches
<1>8. /\ Cons("choose", r) \in Seq(StepNames) /\ Cons("blue", r) \in Seq(StepNames)
      /\ Cons("on", r) \in Seq(StepNames) /\ Cons("arm pulse", r) \in Seq(StepNames)
      /\ Cons("white", Cons("arm pulse", r)) \in Seq(StepNames)
  BY <1>1, <1>2, <1>3
<1>9. CASE s \in {Cons("stop", Cons("choose", r)), Cons("choose", r), Cons("start", r)}
  BY <1>1, <1>2, <1>6, <1>7, <1>8, <1>9
<1>10. CASE t = "web" /\ s \in {Cons("stop both", Cons("blue", r)), Cons("blue", r)}
  BY <1>1, <1>2, <1>6, <1>7, <1>8, <1>10
<1>11. CASE t = "timer" /\ s \in {Cons("toggle", r), Cons("again", r)}
  BY <1>1, <1>2, <1>6, <1>7, <1>11
<1>12. CASE t \notin Others /\ s = Cons("arm", Cons("on", r))
  BY <1>1, <1>2, <1>6, <1>7, <1>8, <1>12
<1>13. CASE t = "engine" /\ s \in {Cons("stop both", Cons("white", Cons("arm pulse", r))),
                                  Cons("white", Cons("arm pulse", r)), Cons("arm pulse", r)}
  BY <1>1, <1>2, <1>6, <1>7, <1>8, <1>13
<1> QED BY <1>5, <1>9, <1>10, <1>11, <1>12, <1>13 DEF Shapes

\* A task with something to do is in the middle of its calls r.
LEMMA Busy ==
    ASSUME TodoType, NEW t \in Tasks, todo[t] # <<>>
    PROVE  /\ todo[t] \in Seq(StepNames) /\ Head(todo[t]) \in StepNames
           /\ Tail(todo[t]) \in Seq(StepNames) /\ todo[t] = Cons(Head(todo[t]), Tail(todo[t]))
           /\ \E r \in Seq(Calls(t)) :
                  r \in Seq(StepNames) /\ GoesOn(t, r, Head(todo[t]), Tail(todo[t]))
<1>1. /\ todo[t] \in Seq(StepNames) /\ Head(todo[t]) \in StepNames
      /\ Tail(todo[t]) \in Seq(StepNames)
  BY HeadTailProperties DEF TodoType
<1>2. PICK r \in Seq(Calls(t)) : todo[t] \in Shapes(t, r)
  BY DEF TodoType
<1>3. r \in Seq(StepNames) /\ GoesOn(t, r, Head(todo[t]), Tail(todo[t]))
  BY <1>2, ShapeOf, RestType
<1> QED BY <1>1, <1>3, HeadAndTail

\* A list with a shape of its task takes the place of what the task had to do.
LEMMA Reshaped ==
    ASSUME TodoType, NEW t \in Tasks, NEW r \in Seq(Calls(t)), NEW s \in Shapes(t, r),
           todo' = [todo EXCEPT ![t] = s]
    PROVE  TodoType' /\ todo'[t] = s /\ \A u \in Tasks : u # t => todo'[u] = todo[u]
<1>1. s \in Seq(StepNames)
  BY ShapeOf, EmptySeq
<1>2. /\ todo' \in [Tasks -> Seq(StepNames)] /\ todo'[t] = s
      /\ \A u \in Tasks : u # t => todo'[u] = todo[u]
  BY <1>1 DEF TodoType
<1>3. ASSUME NEW u \in Tasks PROVE \E q \in Seq(Calls(u)) : todo'[u] \in Shapes(u, q)
  BY <1>2 DEF TodoType
<1> QED BY <1>2, <1>3 DEF TodoType

\* A step is followed by the rest of the call, or by what it calls.
LEMMA StepLeaves ==
    ASSUME TodoType, NEW t \in Tasks, LedStep(t) \/ JigStep(t)
    PROVE  TodoType' /\ \A u \in Tasks : u # t => todo'[u] = todo[u]
<1>1. /\ todo[t] # <<>> /\ Tail(todo[t]) \in Seq(StepNames)
      /\ \E r \in Seq(Calls(t)) : r \in Seq(StepNames) /\ GoesOn(t, r, Head(todo[t]), Tail(todo[t]))
  BY StepAt, Busy
<1>2. PICK r \in Seq(Calls(t)) : r \in Seq(StepNames) /\ GoesOn(t, r, Head(todo[t]), Tail(todo[t]))
  BY <1>1
<1>3. PICK h, u : h = Head(todo[t]) /\ u = Tail(todo[t])
  OBVIOUS
<1>4. GoesOn(t, r, h, u) /\ u \in Seq(StepNames) /\ <<>> \o u = u
  BY <1>1, <1>2, <1>3, ConcatEmptySeq
<1> DEFINE Goal == TodoType' /\ \A w \in Tasks : w # t => todo'[w] = todo[w]
<1>5. ASSUME NEW p, Then(t, p), NEW q \in Seq(Calls(t)), p \o u \in Shapes(t, q)
      PROVE  Goal
  <2>1. todo' = [todo EXCEPT ![t] = p \o u]
    BY <1>3, <1>5 DEF Then, TodoType
  <2> QED BY <1>5, <2>1, Reshaped
<1>6. ASSUME Done(t), NEW q \in Seq(Calls(t)), u \in Shapes(t, q) PROVE Goal
  BY <1>4, <1>5, <1>6 DEF Done
<1>7. /\ <<"start">> \o u = Cons("start", u) /\ <<"again">> \o u = Cons("again", u)
      /\ <<"settings">> \o u = Cons("settings", u) /\ <<"arm", "on">> \o u = Cons("arm", Cons("on", u))
      /\ <<"disarm", "off">> \o u = Cons("disarm", Cons("off", u))
      /\ <<"disable", "settings", "enable">> \o u = Cons("disable", Cons("settings", Cons("enable", u)))
      /\ <<"stop both", "white", "arm pulse">> \o u = Cons("stop both", Cons("white", Cons("arm pulse", u)))
      /\ Apply \o u = Cons("stop", Cons("choose", u))
  BY <1>4, Pushed DEF Apply
<1> SUFFICES Goal
  OBVIOUS
<1> HIDE DEF Goal
<1>8. CASE h \in {"stop", "choose", "start", "stop both", "white", "blue", "arm pulse", "toggle", "again"}
  <2>1. CASE Done(t)
    <3>1. u \in Shapes(t, r)
      BY <1>4, <1>8 DEF GoesOn, Shapes
    <3> QED BY <1>6, <2>1, <3>1
  <2>2. CASE Choose(t) /\ ~Done(t)
    <3>1. h = "choose" /\ Then(t, <<"start">>)
      BY <1>3, <2>2 DEF Choose, At
    <3>2. <<"start">> \o u \in Shapes(t, r)
      BY <1>4, <1>7, <3>1 DEF GoesOn, Shapes
    <3> QED BY <1>5, <3>1, <3>2
  <2>3. CASE Toggle(t) /\ ~Done(t)
    <3>1. h = "toggle" /\ Then(t, <<"again">>)
      BY <1>3, <2>3 DEF Toggle, At
    <3>2. <<"again">> \o u \in Shapes(t, r)
      BY <1>4, <1>7, <3>1 DEF GoesOn, Shapes
    <3> QED BY <1>5, <3>1, <3>2
  <2>4. Done(t) \/ (Choose(t) /\ ~Done(t)) \/ (Toggle(t) /\ ~Done(t))
    BY <1>3, <1>8, StepAt DEF Stop, Start, StopBoth, Show, ArmPulse, Again, Choose, Toggle, Switches
  <2> QED BY <2>1, <2>2, <2>3, <2>4
<1>9. CASE h = "arm"
  <2>1. Arm(t)
    BY <1>3, <1>9, StepAt DEF Switches
  <2>2. todo' = [todo EXCEPT ![t] = IF jiggling THEN Tail(u) ELSE u]
    BY <1>3, <2>1 DEF Arm, TodoType
  <2>3. t \notin Others /\ u = Cons("on", r)
    BY <1>4, <1>9 DEF GoesOn
  <2>4. Calls(t) = HttpdCalls \/ Calls(t) = HttpdCalls \cup {"blink once"}
    BY <2>3 DEF Others, Calls
  <2>5. u \in Seq(Calls(t)) /\ Tail(u) = r
    <3>1. "on" \in Calls(t)
      BY <2>4 DEF HttpdCalls
    <3> QED BY <2>3, <3>1, ConsFacts
  <2>6. u \in Shapes(t, u) /\ r \in Shapes(t, r)
    BY DEF Shapes
  <2> QED BY <2>2, <2>5, <2>6, Reshaped DEF Goal
<1>10. CASE h \in HttpdCalls \cup {"blink once"}
  <2>1. t \notin Others /\ h \in Calls(t) /\ u \in Seq(Calls(t))
    BY <1>4, <1>10 DEF GoesOn
  <2>2. t \in {"engine", "httpd"} /\ (h = "blink once" => t = "engine")
    BY <2>1 DEF Others, Calls, HttpdCalls, Switches
  <2>3. HttpdCalls \subseteq Calls(t)
    BY <2>2 DEF Calls
  <2>4. ASSUME NEW x \in HttpdCalls, NEW q \in Seq(Calls(t)) PROVE Cons(x, q) \in Seq(Calls(t))
    BY <2>3, ConsFacts
  <2>5. /\ "settings" \in HttpdCalls /\ "disarm" \in HttpdCalls /\ "off" \in HttpdCalls
        /\ "disable" \in HttpdCalls /\ "enable" \in HttpdCalls
    BY DEF HttpdCalls, Switches
  <2>6. ASSUME NEW q \in Seq(Calls(t)) PROVE q \in Shapes(t, q)
    BY DEF Shapes
  <2>7. CASE Done(t)
    BY <1>6, <2>1, <2>6, <2>7
  <2>8. CASE Then(t, <<"disable", "settings", "enable">>) \/ Then(t, <<"settings">>)
             \/ Then(t, <<"disarm", "off">>)
    <3>1. /\ Cons("settings", u) \in Seq(Calls(t)) /\ Cons("disarm", Cons("off", u)) \in Seq(Calls(t))
          /\ Cons("disable", Cons("settings", Cons("enable", u))) \in Seq(Calls(t))
      BY <2>1, <2>4, <2>5
    <3> QED BY <1>5, <1>7, <2>6, <2>8, <3>1
  <2>9. CASE Then(t, <<"arm", "on">>)
    <3>1. Cons("arm", Cons("on", u)) \in Shapes(t, u)
      BY <2>1 DEF Shapes
    <3> QED BY <1>5, <1>7, <2>1, <2>9, <3>1
  <2>10. CASE Then(t, Apply)
    <3>1. Cons("stop", Cons("choose", u)) \in Shapes(t, u)
      BY DEF Shapes
    <3> QED BY <1>5, <1>7, <2>1, <2>10, <3>1
  <2>11. CASE t = "engine" /\ Then(t, <<"stop both", "white", "arm pulse">>)
    <3>1. Cons("stop both", Cons("white", Cons("arm pulse", u))) \in Shapes(t, u)
      BY <2>11 DEF Shapes
    <3> QED BY <1>5, <1>7, <2>1, <2>11, <3>1
  <2>12. \/ Configure(t) \/ Settings(t) \/ Disarm(t) \/ Read(t) \/ Modify(t) \/ Store(t) \/ Switch(t, h)
         \/ (\E on \in BOOLEAN : Flag(t, on)) \/ (t = "engine" /\ BlinkOnce(t))
    BY <1>3, <1>10, <2>2, StepAt DEF HttpdCalls, Switches
  <2> QED BY <2>7, <2>8, <2>9, <2>10, <2>11, <2>12
          DEF Configure, Settings, Disarm, Read, Modify, Store, Switch, Flag, BlinkOnce
<1>11. h \in StepNames
  BY <1>1, <1>3, Busy
<1> QED BY <1>8, <1>9, <1>10, <1>11 DEF StepNames, LedSteps

-----------------------------------------------------------------------------
(* The jiggler: the flag, the timer and what is stored are in step whenever neither  *)
(* the engine nor httpd is at them.                                             *)

Numbers == {0, 1}
Config == [enabled : BOOLEAN, settings : Numbers]
JigType ==
    /\ enabled \in BOOLEAN /\ jiggling \in BOOLEAN /\ astray \in BOOLEAN /\ settings \in Numbers
    /\ stored \in Config /\ copy \in [{"engine", "httpd"} -> Config]
    /\ enabled = s_jiggler_active

\* Task t switches the jiggler as w says, and goes on with r.
Switched(w) == enabled = jiggling /\ (w = "enable" => enabled) /\ (w = "disable" => ~enabled)
Switching(t, w, r) ==
    \/ todo[t] = Cons(w, r) /\ enabled = jiggling
    \/ todo[t] = Cons("arm", Cons("on", r)) /\ ~enabled /\ ~jiggling /\ w # "disable"
    \/ todo[t] = Cons("on", r) /\ ~enabled /\ jiggling /\ w # "disable"
    \/ todo[t] = Cons("disarm", Cons("off", r)) /\ enabled /\ jiggling /\ w # "enable"
    \/ todo[t] = Cons("off", r) /\ enabled /\ ~jiggling /\ w # "enable"
    \/ /\ todo[t] \in {Cons("stop", Cons("choose", r)), Cons("choose", r), Cons("start", r)}
       /\ Switched(w)

\* The engine handles a hotkey of the jiggler: it reads what is stored, and stores it with
\* what the jiggler now is.
Running == [enabled |-> enabled, settings |-> settings]
Storing == Cons("store", Cons("blink once", <<>>))
HotkeyRuns ==
    \/ \E w \in Switches, m \in {"modify", "modify off"} :
          /\ m = "modify off" <=> w = "disable"
          /\ stored.settings = settings
          /\ \/ Switching("engine", w, Cons("read", Cons(m, Storing)))
             \/ todo["engine"] = Cons("read", Cons(m, Storing)) /\ Switched(w)
             \/ todo["engine"] = Cons(m, Storing) /\ Switched(w) /\ copy["engine"].settings = settings
    \/ todo["engine"] = Storing /\ enabled = jiggling /\ copy["engine"] = Running

\* httpd stores a configuration and makes the jiggler follow it.
PostRuns ==
    \E last \in {"enable", "disable"} :
       /\ last = "enable" <=> copy["httpd"].enabled
       /\ \/ /\ todo["httpd"] = Cons("store", Cons("configure", Cons(last, <<>>)))
             /\ enabled = jiggling
          \/ /\ stored = copy["httpd"]
             /\ \/ /\ todo["httpd"] \in {Cons("configure", Cons(last, <<>>)),
                                         Cons("settings", Cons("enable", Cons(last, <<>>))),
                                         Cons("settings", Cons(last, <<>>))}
                   /\ enabled = jiggling
                \/ Switching("httpd", "disable", Cons("settings", Cons("enable", Cons(last, <<>>))))
                \/ /\ settings = copy["httpd"].settings
                   /\ \/ Switching("httpd", "enable", Cons(last, <<>>))
                      \/ Switching("httpd", last, <<>>)

FlashSteps == {"blink once", "stop both", "white", "arm pulse"}
EngineFree == todo["engine"] \in Seq(FlashSteps)
AtRest == enabled = jiggling /\ stored = Running
JigInv ==
    ~astray => \/ EngineFree /\ Idle("httpd") /\ AtRest
               \/ HotkeyRuns /\ Idle("httpd")
               \/ EngineFree /\ PostRuns

\* The step x of a task that goes on with r.
LEMMA Follow ==
    ASSUME TodoType, NEW t \in Tasks, NEW x \in StepNames, NEW r \in Seq(StepNames),
           todo[t] = Cons(x, r)
    PROVE  /\ todo[t] # <<>> /\ Head(todo[t]) = x
           /\ Done(t) => todo'[t] = r
           /\ todo' = [todo EXCEPT ![t] = Tail(@)] => todo'[t] = r
           /\ \A p \in Seq(StepNames) : Then(t, p) => todo'[t] = p \o r
<1>1. todo[t] # <<>> /\ Head(todo[t]) = x /\ Tail(todo[t]) = r
  BY Steps
<1>2. todo' = [todo EXCEPT ![t] = Tail(@)] => todo'[t] = r
  BY <1>1 DEF TodoType
<1>3. Done(t) => todo'[t] = r
  BY <1>1, DoneLeaves
<1>4. ASSUME NEW p \in Seq(StepNames), Then(t, p) PROVE todo'[t] = p \o r
  BY <1>1, <1>4, ThenLeaves
<1> QED BY <1>1, <1>2, <1>3, <1>4

LEMMA SwitchingStep ==
    ASSUME TodoType, JigType, NEW t \in {"engine", "httpd"}, NEW w \in Switches,
           NEW r \in Seq(StepNames), Switching(t, w, r), LedStep(t) \/ JigStep(t)
    PROVE  /\ Switching(t, w, r)' \/ (todo'[t] = r /\ Switched(w)')
           /\ UNCHANGED <<settings, stored, copy, astray>>
<1>1. t \in Tasks /\ w \in StepNames
  BY DEF Tasks, StepNames, HttpdCalls
<1>2. /\ "arm" \in StepNames /\ "on" \in StepNames /\ "disarm" \in StepNames /\ "off" \in StepNames
      /\ "stop" \in StepNames /\ "choose" \in StepNames /\ "start" \in StepNames
  BY DEF StepNames, LedSteps, HttpdCalls
<1>3. ASSUME NEW x \in StepNames, NEW q \in Seq(StepNames) PROVE Cons(x, q) \in Seq(StepNames)
  BY Steps
<1>4. /\ <<"start">> \in Seq(StepNames) /\ <<"start">> \o r = Cons("start", r)
      /\ <<"arm", "on">> \in Seq(StepNames) /\ <<"arm", "on">> \o r = Cons("arm", Cons("on", r))
      /\ <<"disarm", "off">> \in Seq(StepNames)
      /\ <<"disarm", "off">> \o r = Cons("disarm", Cons("off", r))
      /\ Apply \in Seq(StepNames) /\ Apply \o r = Cons("stop", Cons("choose", r))
  BY Pushed DEF Apply
<1>5. CASE todo[t] = Cons(w, r) /\ enabled = jiggling
  <2>1. Switch(t, w)
    <3>1. Head(todo[t]) = w
      BY <1>1, <1>5, Follow
    <3> QED BY <1>1, <3>1, StepAt DEF Switches
  <2>2. CASE (IF w = "toggle jiggler" THEN ~enabled ELSE w = "enable") = enabled
    <3>1. Done(t) /\ UNCHANGED <<enabled, jiggling, settings, stored, copy, astray>>
      BY <2>1, <2>2 DEF Switch, jig
    <3>2. todo'[t] = r
      BY <1>1, <1>5, <3>1, Follow
    <3> QED BY <1>5, <2>2, <3>1, <3>2 DEF Switched, Switches, JigType
  <2>3. CASE (IF w = "toggle jiggler" THEN ~enabled ELSE w = "enable") # enabled
    <3>1. /\ UNCHANGED <<enabled, jiggling, settings, stored, copy, astray>>
          /\ \/ ~enabled /\ w # "disable" /\ Then(t, <<"arm", "on">>)
             \/ enabled /\ w # "enable" /\ Then(t, <<"disarm", "off">>)
      BY <2>1, <2>3 DEF Switch, jig, Switches, JigType
    <3>2. \/ ~enabled /\ w # "disable" /\ todo'[t] = Cons("arm", Cons("on", r))
          \/ enabled /\ w # "enable" /\ todo'[t] = Cons("disarm", Cons("off", r))
      BY <1>1, <1>4, <1>5, <3>1, Follow
    <3> QED BY <1>5, <3>1, <3>2 DEF Switching
  <2> QED BY <2>2, <2>3
<1>6. CASE todo[t] = Cons("arm", Cons("on", r)) /\ ~enabled /\ ~jiggling /\ w # "disable"
  <2>1. Arm(t)
    <3>1. Head(todo[t]) = "arm"
      BY <1>1, <1>2, <1>3, <1>6, Follow
    <3> QED BY <1>1, <3>1, StepAt DEF Switches
  <2>2. /\ jiggling' = TRUE /\ todo' = [todo EXCEPT ![t] = Tail(@)]
        /\ UNCHANGED <<enabled, settings, stored, copy, astray>>
    BY <1>6, <2>1 DEF Arm
  <2>3. todo'[t] = Cons("on", r)
    <3>1. Cons("on", r) \in Seq(StepNames)
      BY <1>2, <1>3
    <3> QED BY <1>1, <1>2, <1>6, <2>2, <3>1, Follow
  <2> QED BY <1>6, <2>2, <2>3 DEF Switching
<1>7. CASE todo[t] = Cons("disarm", Cons("off", r)) /\ enabled /\ jiggling /\ w # "enable"
  <2>1. Disarm(t)
    <3>1. Head(todo[t]) = "disarm"
      BY <1>1, <1>2, <1>3, <1>7, Follow
    <3> QED BY <1>1, <3>1, StepAt DEF Switches
  <2>2. jiggling' = FALSE /\ Done(t) /\ UNCHANGED <<enabled, settings, stored, copy, astray>>
    BY <2>1 DEF Disarm
  <2>3. todo'[t] = Cons("off", r)
    <3>1. Cons("off", r) \in Seq(StepNames)
      BY <1>2, <1>3
    <3> QED BY <1>1, <1>2, <1>7, <2>2, <3>1, Follow
  <2> QED BY <1>7, <2>2, <2>3 DEF Switching
<1>8. CASE \/ todo[t] = Cons("on", r) /\ ~enabled /\ jiggling /\ w # "disable"
           \/ todo[t] = Cons("off", r) /\ enabled /\ ~jiggling /\ w # "enable"
  <2>1. \/ Flag(t, TRUE) /\ jiggling /\ w # "disable"
        \/ Flag(t, FALSE) /\ ~jiggling /\ w # "enable"
    <3>1. \/ Head(todo[t]) = "on" /\ jiggling /\ w # "disable"
          \/ Head(todo[t]) = "off" /\ ~jiggling /\ w # "enable"
      BY <1>1, <1>2, <1>8, Follow
    <3> QED BY <1>1, <3>1, StepAt DEF Switches
  <2>2. /\ enabled' = jiggling /\ Then(t, Apply) /\ UNCHANGED <<jiggling, settings, stored, copy, astray>>
        /\ (jiggling /\ w # "disable") \/ (~jiggling /\ w # "enable")
    BY <2>1 DEF Flag, JigType
  <2>3. todo'[t] = Cons("stop", Cons("choose", r))
    BY <1>1, <1>2, <1>4, <1>8, <2>2, Follow
  <2> QED BY <2>2, <2>3 DEF Switching, Switched
<1>9. CASE /\ todo[t] \in {Cons("stop", Cons("choose", r)), Cons("choose", r), Cons("start", r)}
           /\ Switched(w)
  <2>1. CASE todo[t] = Cons("stop", Cons("choose", r))
    <3>1. Stop(t)
      <4>1. Head(todo[t]) = "stop"
        BY <1>1, <1>2, <1>3, <2>1, Follow
      <4> QED BY <1>1, <4>1, StepAt DEF Switches
    <3>2. Done(t) /\ UNCHANGED jig
      BY <3>1 DEF Stop, StepFrame
    <3>3. todo'[t] = Cons("choose", r)
      BY <1>1, <1>2, <1>3, <2>1, <3>2, Follow
    <3> QED BY <1>9, <3>2, <3>3 DEF Switching, Switched, jig
  <2>2. CASE todo[t] = Cons("choose", r)
    <3>1. Choose(t)
      <4>1. Head(todo[t]) = "choose"
        BY <1>1, <1>2, <2>2, Follow
      <4> QED BY <1>1, <4>1, StepAt DEF Switches
    <3>2. (Done(t) \/ Then(t, <<"start">>)) /\ UNCHANGED jig
      BY <3>1 DEF Choose, StepFrame
    <3>3. todo'[t] = r \/ todo'[t] = Cons("start", r)
      BY <1>1, <1>2, <1>4, <2>2, <3>2, Follow
    <3> QED BY <1>9, <3>2, <3>3 DEF Switching, Switched, jig
  <2>3. CASE todo[t] = Cons("start", r)
    <3>1. Start(t)
      <4>1. Head(todo[t]) = "start"
        BY <1>1, <1>2, <2>3, Follow
      <4> QED BY <1>1, <4>1, StepAt DEF Switches
    <3>2. Done(t) /\ UNCHANGED jig
      BY <3>1 DEF Start, StepFrame
    <3>3. todo'[t] = r
      BY <1>1, <1>2, <2>3, <3>2, Follow
    <3> QED BY <1>9, <3>2, <3>3 DEF Switching, Switched, jig
  <2> QED BY <1>9, <2>1, <2>2, <2>3
<1> QED BY <1>5, <1>6, <1>7, <1>8, <1>9 DEF Switching

\* While the engine is free it leaves the jiggler alone.
LEMMA FreeStep ==
    ASSUME TodoType, EngineFree, LedStep("engine") \/ JigStep("engine")
    PROVE  EngineFree' /\ UNCHANGED jig
<1>1. "engine" \in Tasks /\ todo["engine"] # <<>>
  BY StepAt DEF Tasks
<1>2. Head(todo["engine"]) \in FlashSteps /\ Tail(todo["engine"]) \in Seq(FlashSteps)
  BY <1>1, HeadTailProperties DEF EngineFree
<1>3. StopBoth("engine") \/ Show("engine", "white") \/ ArmPulse("engine") \/ BlinkOnce("engine")
  BY <1>1, <1>2, StepAt DEF FlashSteps, Switches
<1>4. UNCHANGED jig
  BY <1>3 DEF StopBoth, Show, ArmPulse, BlinkOnce, StepFrame
<1>5. CASE Done("engine")
  BY <1>1, <1>2, <1>4, <1>5, DoneLeaves DEF EngineFree
<1>6. CASE Then("engine", <<"stop both", "white", "arm pulse">>)
  <2>1. todo'["engine"] = <<"stop both", "white", "arm pulse">> \o Tail(todo["engine"])
    BY <1>1, <1>6, ThenLeaves, Pushed, EmptySeq
  <2>2. <<"stop both", "white", "arm pulse">> \in Seq(FlashSteps)
    BY DEF FlashSteps
  <2> QED BY <1>2, <1>4, <2>1, <2>2, ConcatProperties DEF EngineFree
<1> QED BY <1>3, <1>4, <1>5, <1>6 DEF StopBoth, Show, ArmPulse, BlinkOnce

\* A task other than the engine and httpd leaves the jiggler alone.
LEMMA OtherStep ==
    ASSUME TodoType, NEW t \in Others, LedStep(t) \/ JigStep(t)
    PROVE  UNCHANGED jig
<1>1. t \in Tasks /\ todo[t] # <<>>
  BY StepAt DEF Others
<1>2. PICK r \in Seq(Calls(t)) : GoesOn(t, r, Head(todo[t]), Tail(todo[t]))
  BY <1>1, Busy
<1>3. /\ Head(todo[t]) \notin HttpdCalls \cup {"blink once"}
      /\ Head(todo[t]) # "arm" /\ Head(todo[t]) # "arm pulse" /\ Head(todo[t]) # "white"
  BY <1>2 DEF GoesOn, Others
<1>4. Stop(t) \/ Choose(t) \/ Start(t) \/ StopBoth(t) \/ Toggle(t) \/ Again(t) \/ Show(t, "blue")
  BY <1>1, <1>3, StepAt DEF HttpdCalls, Switches
<1> QED BY <1>4 DEF Stop, Choose, Start, StopBoth, Toggle, Again, Show, StepFrame

LEMMA HotkeyStep ==
    ASSUME TodoType, JigType, HotkeyRuns, LedStep("engine") \/ JigStep("engine")
    PROVE  astray' \/ ((HotkeyRuns \/ (EngineFree /\ AtRest))' /\ UNCHANGED astray)
<1>1. "engine" \in Tasks /\ "engine" \in {"engine", "httpd"}
  BY DEF Tasks
<1>2. /\ "read" \in StepNames /\ "store" \in StepNames /\ "blink once" \in StepNames
      /\ "modify" \in StepNames /\ "modify off" \in StepNames
  BY DEF StepNames, HttpdCalls
<1>3. Cons("blink once", <<>>) \in Seq(StepNames) /\ Storing \in Seq(StepNames)
  <2>1. <<>> \in Seq(StepNames)
    OBVIOUS
  <2>2. Cons("blink once", <<>>) \in Seq(StepNames)
    BY <1>2, <2>1, Steps
  <2> QED BY <1>2, <2>2, Steps DEF Storing
<1>4. ASSUME NEW w \in Switches, NEW m \in {"modify", "modify off"},
             m = "modify off" <=> w = "disable", stored.settings = settings
      PROVE  LET r == Cons("read", Cons(m, Storing)) IN
             /\ Switching("engine", w, r) => HotkeyRuns' /\ UNCHANGED astray
             /\ todo["engine"] = r /\ Switched(w) => HotkeyRuns' /\ UNCHANGED astray
             /\ todo["engine"] = Cons(m, Storing) /\ Switched(w) /\ copy["engine"].settings = settings
                   => HotkeyRuns' /\ UNCHANGED astray
  <2> DEFINE r == Cons("read", Cons(m, Storing))
  <2>1. m \in StepNames /\ Cons(m, Storing) \in Seq(StepNames) /\ r \in Seq(StepNames)
    <3>1. m \in StepNames
      BY <1>2
    <3>2. Cons(m, Storing) \in Seq(StepNames)
      BY <1>3, <3>1, Steps
    <3> QED BY <1>2, <3>1, <3>2, Steps
  <2>2. ASSUME Switching("engine", w, r) PROVE HotkeyRuns' /\ UNCHANGED astray
    <3>1. /\ Switching("engine", w, r)' \/ (todo'["engine"] = r /\ Switched(w)')
          /\ UNCHANGED <<settings, stored, copy, astray>>
      BY <1>1, <2>1, <2>2, SwitchingStep
    <3> QED BY <1>4, <3>1 DEF HotkeyRuns
  <2>3. ASSUME todo["engine"] = r, Switched(w) PROVE HotkeyRuns' /\ UNCHANGED astray
    <3>1. Head(todo["engine"]) = "read" /\ (Done("engine") => todo'["engine"] = Cons(m, Storing))
      BY <1>1, <1>2, <2>1, <2>3, Follow
    <3>2. Read("engine")
      BY <1>1, <3>1, StepAt DEF Switches
    <3>3. /\ Done("engine") /\ copy' = [copy EXCEPT !["engine"] = stored]
          /\ UNCHANGED <<enabled, jiggling, settings, stored, astray>>
      BY <3>2 DEF Read
    <3>4. copy'["engine"] = stored
      BY <3>3 DEF JigType
    <3>5. Switched(w)'
      BY <2>3, <3>3 DEF Switched
    <3> QED BY <1>4, <3>1, <3>3, <3>4, <3>5 DEF HotkeyRuns
  <2>4. ASSUME todo["engine"] = Cons(m, Storing), Switched(w), copy["engine"].settings = settings
        PROVE  HotkeyRuns' /\ UNCHANGED astray
    <3>1. /\ todo["engine"] # <<>> /\ Head(todo["engine"]) = m
          /\ Done("engine") => todo'["engine"] = Storing
      BY <1>1, <1>3, <2>1, <2>4, Follow
    <3>2. Modify("engine")
      BY <1>1, <3>1, StepAt DEF Switches
    <3>3. /\ Done("engine") /\ UNCHANGED <<enabled, jiggling, settings, stored, astray>>
          /\ copy' = [copy EXCEPT !["engine"].enabled = m = "modify" /\ enabled]
      BY <3>1, <3>2 DEF Modify, At, Idle
    <3>4. copy["engine"] \in Config
      BY DEF JigType
    <3>5. copy'["engine"] = [copy["engine"] EXCEPT !.enabled = m = "modify" /\ enabled]
      BY <3>3 DEF JigType
    <3>6. (m = "modify" /\ enabled) = enabled
      BY <1>4, <2>4 DEF Switched, JigType
    <3>7. copy'["engine"] = [enabled |-> enabled, settings |-> settings]
      BY <2>4, <3>4, <3>5, <3>6 DEF Config
    <3>8. copy'["engine"] = Running' /\ (enabled = jiggling)'
      BY <2>4, <3>3, <3>7 DEF Running, Switched
    <3> QED BY <3>1, <3>3, <3>8 DEF HotkeyRuns
  <2> QED BY <2>2, <2>3, <2>4
<1>5. ASSUME todo["engine"] = Storing, enabled = jiggling, copy["engine"] = Running
      PROVE  astray' \/ ((EngineFree /\ AtRest)' /\ UNCHANGED astray)
  <2>1. /\ Head(todo["engine"]) = "store"
        /\ Done("engine") => todo'["engine"] = Cons("blink once", <<>>)
    BY <1>1, <1>2, <1>3, <1>5, Follow DEF Storing
  <2>2. Store("engine")
    BY <1>1, <2>1, StepAt DEF Switches
  <2>3. /\ Done("engine") /\ UNCHANGED <<enabled, jiggling, settings>>
        /\ astray' \/ (stored' = copy["engine"] /\ UNCHANGED astray)
    BY <2>2 DEF Store
  <2>4. Cons("blink once", <<>>) \in Seq(FlashSteps)
    <3>1. "blink once" \in FlashSteps /\ <<>> \in Seq(FlashSteps)
      BY DEF FlashSteps
    <3> QED BY <3>1, ConsFacts
  <2> QED BY <1>5, <2>1, <2>3, <2>4 DEF EngineFree, AtRest, Running
<1>6. CASE todo["engine"] = Storing /\ enabled = jiggling /\ copy["engine"] = Running
  BY <1>5, <1>6
<1>7. CASE ~(todo["engine"] = Storing /\ enabled = jiggling /\ copy["engine"] = Running)
  <2>1. PICK w \in Switches, m \in {"modify", "modify off"} :
          /\ m = "modify off" <=> w = "disable"
          /\ stored.settings = settings
          /\ \/ Switching("engine", w, Cons("read", Cons(m, Storing)))
             \/ todo["engine"] = Cons("read", Cons(m, Storing)) /\ Switched(w)
             \/ todo["engine"] = Cons(m, Storing) /\ Switched(w) /\ copy["engine"].settings = settings
    BY <1>7 DEF HotkeyRuns
  <2> QED BY <1>4, <2>1
<1> QED BY <1>6, <1>7

LEMMA JigTypeStep ==
    ASSUME TodoType, JigType, NEW t \in Tasks, LedStep(t) \/ JigStep(t)
    PROVE  JigType'
<1>1. CASE UNCHANGED jig
  BY <1>1 DEF JigType, jig
<1>2. CASE LedStep(t)
  <2>1. UNCHANGED jig
    BY <1>2 DEF LedStep, Stop, Choose, Start, StopBoth, ArmPulse, Toggle, Again, BlinkOnce, Show,
         StepFrame
  <2> QED BY <1>1, <2>1
<1>3. CASE t \in Others
  BY <1>1, <1>3, OtherStep
<1>4. CASE JigStep(t) /\ t \in {"engine", "httpd"}
  <2>1. copy[t] \in Config
    BY <1>4 DEF JigType
  <2>2. CASE Configure(t) \/ \E what \in Switches : Switch(t, what)
    BY <1>1, <2>2 DEF Configure, Switch
  <2>3. CASE Settings(t)
    BY <2>1, <2>3 DEF Settings, JigType, Config
  <2>4. CASE Arm(t) \/ Disarm(t)
    BY <2>4 DEF Arm, Disarm, JigType
  <2>5. CASE \E on \in BOOLEAN : Flag(t, on)
    BY <2>5 DEF Flag, JigType
  <2>6. CASE Store(t)
    BY <2>1, <2>6 DEF Store, JigType
  <2>7. CASE Read(t)
    <3>1. copy' \in [{"engine", "httpd"} -> Config]
      BY <1>4, <2>7 DEF Read, JigType
    <3> QED BY <2>7, <3>1 DEF Read, JigType
  <2>8. CASE Modify(t)
    <3>1. PICK on \in BOOLEAN : copy' = [copy EXCEPT ![t].enabled = on]
      BY <2>8 DEF Modify, JigType
    <3>2. [copy[t] EXCEPT !.enabled = on] \in Config
      BY <2>1 DEF Config
    <3>3. copy' \in [{"engine", "httpd"} -> Config]
      BY <1>4, <3>1, <3>2 DEF JigType
    <3> QED BY <2>8, <3>3 DEF Modify, JigType
  <2> QED BY <1>4, <2>2, <2>3, <2>4, <2>5, <2>6, <2>7, <2>8 DEF JigStep
<1> QED BY <1>2, <1>3, <1>4 DEF Others

LEMMA PostStep ==
    ASSUME TodoType, JigType, PostRuns, LedStep("httpd") \/ JigStep("httpd")
    PROVE  astray' \/ ((PostRuns \/ (Idle("httpd") /\ AtRest))' /\ UNCHANGED astray)
<1>1. "httpd" \in Tasks /\ "httpd" \in {"engine", "httpd"}
  BY DEF Tasks
<1>2. /\ "store" \in StepNames /\ "configure" \in StepNames /\ "settings" \in StepNames
      /\ "enable" \in StepNames /\ "disable" \in StepNames
      /\ "enable" \in Switches /\ "disable" \in Switches
  BY DEF StepNames, HttpdCalls, Switches
<1>3. ASSUME NEW x \in StepNames, NEW q \in Seq(StepNames) PROVE Cons(x, q) \in Seq(StepNames)
  BY Steps
<1>4. PICK last \in {"enable", "disable"} :
         /\ last = "enable" <=> copy["httpd"].enabled
         /\ \/ /\ todo["httpd"] = Cons("store", Cons("configure", Cons(last, <<>>)))
               /\ enabled = jiggling
            \/ /\ stored = copy["httpd"]
               /\ \/ /\ todo["httpd"] \in {Cons("configure", Cons(last, <<>>)),
                                           Cons("settings", Cons("enable", Cons(last, <<>>))),
                                           Cons("settings", Cons(last, <<>>))}
                     /\ enabled = jiggling
                  \/ Switching("httpd", "disable", Cons("settings", Cons("enable", Cons(last, <<>>))))
                  \/ /\ settings = copy["httpd"].settings
                     /\ \/ Switching("httpd", "enable", Cons(last, <<>>))
                        \/ Switching("httpd", last, <<>>)
  BY DEF PostRuns
<1> DEFINE end == Cons(last, <<>>)
           again == Cons("settings", Cons("enable", end))
<1>5. <<>> \in Seq(StepNames) /\ last \in StepNames /\ last \in Switches
  BY <1>2
<1>6. end \in Seq(StepNames)
  BY <1>3, <1>5
<1>7. /\ Cons("enable", end) \in Seq(StepNames) /\ again \in Seq(StepNames)
      /\ Cons("configure", end) \in Seq(StepNames)
  <2> HIDE DEF end
  <2>1. Cons("enable", end) \in Seq(StepNames) /\ Cons("configure", end) \in Seq(StepNames)
    BY <1>2, <1>3, <1>6
  <2> QED BY <1>2, <1>3, <2>1
<1> HIDE DEF end
<1>8. CASE todo["httpd"] = Cons("store", Cons("configure", end)) /\ enabled = jiggling
  <2>1. /\ Head(todo["httpd"]) = "store"
        /\ Done("httpd") => todo'["httpd"] = Cons("configure", end)
    BY <1>1, <1>2, <1>7, <1>8, Follow
  <2>2. Store("httpd")
    BY <1>1, <2>1, StepAt DEF Switches
  <2>3. /\ Done("httpd") /\ UNCHANGED <<enabled, jiggling, settings, copy>>
        /\ astray' \/ (stored' = copy["httpd"] /\ UNCHANGED astray)
    BY <2>2 DEF Store
  <2> QED BY <1>4, <1>8, <2>1, <2>3 DEF PostRuns, end
<1>9. CASE stored = copy["httpd"] /\ todo["httpd"] = Cons("configure", end) /\ enabled = jiggling
  <2>1. /\ Head(todo["httpd"]) = "configure"
        /\ \A p \in Seq(StepNames) : Then("httpd", p) => todo'["httpd"] = p \o end
    BY <1>1, <1>2, <1>6, <1>9, Follow
  <2>2. Configure("httpd")
    BY <1>1, <2>1, StepAt DEF Switches
  <2>3. UNCHANGED <<enabled, jiggling, settings, stored, copy, astray>>
    BY <2>2 DEF Configure, jig
  <2>4. CASE enabled
    <3>1. Then("httpd", <<"disable", "settings", "enable">>)
      BY <2>2, <2>4 DEF Configure
    <3>2. todo'["httpd"] = Cons("disable", again)
      BY <1>6, <2>1, <3>1, Pushed
    <3>3. Switching("httpd", "disable", again)'
      BY <1>9, <2>3, <3>2 DEF Switching
    <3> QED BY <1>4, <1>9, <2>3, <3>3 DEF PostRuns, end
  <2>5. CASE ~enabled
    <3>1. Then("httpd", <<"settings">>)
      BY <2>2, <2>5 DEF Configure
    <3>2. todo'["httpd"] = Cons("settings", end)
      BY <1>6, <2>1, <3>1, Pushed
    <3> QED BY <1>4, <1>9, <2>3, <3>2 DEF PostRuns, end
  <2> QED BY <2>4, <2>5
<1>10. CASE /\ stored = copy["httpd"] /\ enabled = jiggling
            /\ todo["httpd"] \in {again, Cons("settings", end)}
  <2>1. PICK q \in {Cons("enable", end), end} : todo["httpd"] = Cons("settings", q)
    BY <1>10
  <2>2. q \in Seq(StepNames)
    BY <1>6, <1>7
  <2>3. Head(todo["httpd"]) = "settings" /\ (Done("httpd") => todo'["httpd"] = q)
    BY <1>1, <1>2, <2>1, <2>2, Follow
  <2>4. Settings("httpd")
    BY <1>1, <2>3, StepAt DEF Switches
  <2>5. /\ Done("httpd") /\ settings' = copy["httpd"].settings
        /\ UNCHANGED <<enabled, jiggling, stored, copy, astray>>
    BY <2>4 DEF Settings
  <2>6. CASE q = Cons("enable", end)
    <3>1. Switching("httpd", "enable", end)'
      BY <1>10, <2>3, <2>5, <2>6 DEF Switching
    <3> QED BY <1>4, <1>10, <2>5, <3>1 DEF PostRuns, end
  <2>7. CASE q = end
    <3>1. Switching("httpd", last, <<>>)'
      BY <1>10, <2>3, <2>5, <2>7 DEF Switching, end
    <3> QED BY <1>4, <1>10, <2>5, <3>1 DEF PostRuns
  <2> QED BY <2>6, <2>7
<1>11. CASE stored = copy["httpd"] /\ Switching("httpd", "disable", again)
  <2>1. /\ Switching("httpd", "disable", again)'
           \/ (todo'["httpd"] = again /\ Switched("disable")')
        /\ UNCHANGED <<settings, stored, copy, astray>>
    <3> HIDE DEF again
    <3> QED BY <1>1, <1>2, <1>7, <1>11, SwitchingStep
  <2>2. Switched("disable")' => (enabled = jiggling)'
    BY DEF Switched
  <2> QED BY <1>4, <1>11, <2>1, <2>2 DEF PostRuns, end
<1>12. CASE /\ stored = copy["httpd"] /\ settings = copy["httpd"].settings
            /\ Switching("httpd", "enable", end)
  <2>1. /\ Switching("httpd", "enable", end)' \/ (todo'["httpd"] = end /\ Switched("enable")')
        /\ UNCHANGED <<settings, stored, copy, astray>>
    BY <1>1, <1>2, <1>6, <1>12, SwitchingStep
  <2>2. todo'["httpd"] = end /\ Switched("enable")' => Switching("httpd", last, <<>>)'
    BY DEF Switched, Switching, end
  <2> QED BY <1>4, <1>12, <2>1, <2>2 DEF PostRuns, end
<1>13. CASE /\ stored = copy["httpd"] /\ settings = copy["httpd"].settings
            /\ Switching("httpd", last, <<>>)
  <2>1. /\ Switching("httpd", last, <<>>)' \/ (todo'["httpd"] = <<>> /\ Switched(last)')
        /\ UNCHANGED <<settings, stored, copy, astray>>
    BY <1>1, <1>5, <1>13, SwitchingStep
  <2>2. CASE Switching("httpd", last, <<>>)'
    BY <1>4, <1>13, <2>1, <2>2 DEF PostRuns
  <2>3. CASE todo'["httpd"] = <<>> /\ Switched(last)'
    <3>1. copy["httpd"] \in Config
      BY DEF JigType
    <3>2. enabled' = copy["httpd"].enabled /\ (enabled = jiggling)'
      <4>1. JigType'
        BY <1>1, JigTypeStep
      <4>2. enabled' \in BOOLEAN /\ copy["httpd"].enabled \in BOOLEAN
        BY <3>1, <4>1 DEF JigType, Config
      <4>3. /\ last = "enable" => enabled' /\ copy["httpd"].enabled
            /\ last = "disable" => ~enabled' /\ ~copy["httpd"].enabled
        BY <1>4, <2>3 DEF Switched
      <4> QED BY <2>3, <4>2, <4>3 DEF Switched
    <3>3. copy["httpd"] = [enabled |-> copy["httpd"].enabled, settings |-> copy["httpd"].settings]
      BY <3>1 DEF Config
    <3> QED BY <1>13, <2>1, <2>3, <3>2, <3>3 DEF Idle, AtRest, Running
  <2> QED BY <2>1, <2>2, <2>3
<1> QED BY <1>4, <1>8, <1>9, <1>10, <1>11, <1>12, <1>13 DEF end

LEMMA JigKept ==
    ASSUME JigType, JigInv, UNCHANGED jig,
           todo'["engine"] = todo["engine"], todo'["httpd"] = todo["httpd"]
    PROVE  JigType' /\ JigInv'
<1>1. UNCHANGED <<s_jiggler_active, enabled, jiggling, settings, stored, copy, astray>>
  BY DEF jig
<1>2. JigType'
  BY <1>1 DEF JigType
<1>3. ASSUME NEW t \in {"engine", "httpd"}, NEW w, NEW r
      PROVE  Switching(t, w, r) => Switching(t, w, r)'
  BY <1>1 DEF Switching, Switched
<1>4. HotkeyRuns => HotkeyRuns'
  <2>1. ASSUME NEW w PROVE Switched(w) => Switched(w)'
    BY <1>1 DEF Switched
  <2>2. ASSUME NEW w, NEW r PROVE Switching("engine", w, r) => Switching("engine", w, r)'
    BY <1>3
  <2>3. Running' = Running
    BY <1>1 DEF Running
  <2> QED BY <1>1, <2>1, <2>2, <2>3 DEF HotkeyRuns
<1>5. PostRuns => PostRuns'
  <2>1. ASSUME NEW w, NEW r PROVE Switching("httpd", w, r) => Switching("httpd", w, r)'
    BY <1>3
  <2> QED BY <1>1, <2>1 DEF PostRuns
<1>6. (EngineFree => EngineFree') /\ (AtRest => AtRest') /\ (Idle("httpd") => Idle("httpd")')
  BY <1>1 DEF EngineFree, AtRest, Running, Idle
<1> QED BY <1>1, <1>2, <1>4, <1>5, <1>6 DEF JigInv

\* A hotkey, and a request, that is not done has something left to do.
LEMMA RunsBusy == (HotkeyRuns => ~Idle("engine")) /\ (PostRuns => ~Idle("httpd"))
<1>1. /\ "read" \in StepNames /\ "store" \in StepNames /\ "blink once" \in StepNames
      /\ "modify" \in StepNames /\ "modify off" \in StepNames
      /\ "configure" \in StepNames /\ "settings" \in StepNames
      /\ "enable" \in StepNames /\ "disable" \in StepNames /\ Switches \subseteq StepNames
      /\ "arm" \in StepNames /\ "on" \in StepNames /\ "disarm" \in StepNames /\ "off" \in StepNames
      /\ "stop" \in StepNames /\ "choose" \in StepNames /\ "start" \in StepNames
  BY DEF StepNames, LedSteps, HttpdCalls, Switches
<1>2. ASSUME NEW x \in StepNames, NEW q \in Seq(StepNames)
      PROVE  Cons(x, q) \in Seq(StepNames) /\ Cons(x, q) # <<>>
  BY Steps
<1>3. ASSUME NEW t, NEW w \in Switches, NEW r \in Seq(StepNames), Switching(t, w, r)
      PROVE  todo[t] # <<>>
  BY <1>1, <1>2, <1>3 DEF Switching
<1>4. <<>> \in Seq(StepNames)
  OBVIOUS
<1>5. Cons("blink once", <<>>) \in Seq(StepNames)
  BY <1>1, <1>2, <1>4
<1>6. Storing \in Seq(StepNames) /\ Storing # <<>>
  BY <1>1, <1>2, <1>5 DEF Storing
<1>7. ASSUME NEW m \in {"modify", "modify off"}
      PROVE  Cons(m, Storing) \in Seq(StepNames) /\ Cons(m, Storing) # <<>>
  BY <1>1, <1>2, <1>6
<1>8. ASSUME NEW m \in {"modify", "modify off"}
      PROVE  /\ Cons("read", Cons(m, Storing)) \in Seq(StepNames)
             /\ Cons("read", Cons(m, Storing)) # <<>>
  BY <1>1, <1>2, <1>7
<1>9. HotkeyRuns => todo["engine"] # <<>>
  BY <1>3, <1>6, <1>7, <1>8 DEF HotkeyRuns
<1>10. ASSUME NEW last \in {"enable", "disable"}
       PROVE  /\ Cons(last, <<>>) \in Seq(StepNames)
              /\ Cons("enable", Cons(last, <<>>)) \in Seq(StepNames)
              /\ Cons("configure", Cons(last, <<>>)) \in Seq(StepNames)
              /\ Cons("configure", Cons(last, <<>>)) # <<>> /\ Cons("settings", Cons(last, <<>>)) # <<>>
  BY <1>1, <1>2, <1>4
<1>11. ASSUME NEW last \in {"enable", "disable"}
       PROVE  /\ Cons("store", Cons("configure", Cons(last, <<>>))) # <<>>
              /\ Cons("settings", Cons("enable", Cons(last, <<>>))) \in Seq(StepNames)
              /\ Cons("settings", Cons("enable", Cons(last, <<>>))) # <<>>
  BY <1>1, <1>2, <1>10
<1>12. PostRuns => todo["httpd"] # <<>>
  <2> SUFFICES ASSUME PostRuns PROVE todo["httpd"] # <<>>
    OBVIOUS
  <2>1. PICK last \in {"enable", "disable"} :
          \/ todo["httpd"] \in {Cons("store", Cons("configure", Cons(last, <<>>))),
                                Cons("configure", Cons(last, <<>>)),
                                Cons("settings", Cons("enable", Cons(last, <<>>))),
                                Cons("settings", Cons(last, <<>>))}
          \/ Switching("httpd", "disable", Cons("settings", Cons("enable", Cons(last, <<>>))))
          \/ Switching("httpd", "enable", Cons(last, <<>>))
          \/ Switching("httpd", last, <<>>)
    BY DEF PostRuns
  <2>2. "enable" \in Switches /\ "disable" \in Switches
    BY DEF Switches
  <2> QED BY <1>3, <1>4, <1>10, <1>11, <2>1, <2>2
<1> QED BY <1>9, <1>12 DEF Idle

\* What a task that was idle begins to do, and what the others have still to do.
LEMMA Begins ==
    ASSUME TodoType, [Next]_vars
    PROVE  /\ TodoType'
           /\ \/ UNCHANGED <<todo, jig>>
              \/ \E t \in Tasks : /\ LedStep(t) \/ JigStep(t)
                                  /\ \A u \in Tasks : u # t => todo'[u] = todo[u]
              \/ UNCHANGED jig /\ \A t \in {"engine", "httpd"} : todo'[t] = todo[t]
              \/ Substituted /\ todo'["engine"] = <<"blink once">> /\ todo'["httpd"] = todo["httpd"]
              \/ \E what \in Switches :
                    /\ Hotkey(what) /\ todo'["httpd"] = todo["httpd"]
                    /\ todo'["engine"] = Cons(what, Cons("read", Cons(IF what = "disable"
                                                 THEN "modify off" ELSE "modify", Storing)))
              \/ \E value \in {0, 1}, on \in BOOLEAN :
                    /\ Post(value, on) /\ todo'["engine"] = todo["engine"]
                    /\ todo'["httpd"] = Cons("store", Cons("configure", 
                                             Cons(IF on THEN "enable" ELSE "disable", <<>>)))
<1>1. CASE UNCHANGED vars
  BY <1>1 DEF vars, TodoType
<1>2. ASSUME NEW t \in Tasks, LedStep(t) \/ JigStep(t)
      PROVE  TodoType' /\ \A u \in Tasks : u # t => todo'[u] = todo[u]
  BY <1>2, StepLeaves
<1>3. ASSUME UNCHANGED <<todo, jig>> PROVE TodoType'
  BY <1>3 DEF TodoType
<1>4. ASSUME NEW t \in Others, NEW s \in Shapes(t, <<>>), Do(t, s)
      PROVE  TodoType' /\ \A u \in {"engine", "httpd"} : todo'[u] = todo[u]
  <2>1. t \in Tasks /\ <<>> \in Seq(Calls(t)) /\ todo' = [todo EXCEPT ![t] = s]
    BY <1>4 DEF Others, Do
  <2> QED BY <2>1, Reshaped DEF Others, Tasks
<1>5. /\ Apply = Cons("stop", Cons("choose", <<>>)) /\ <<"toggle">> = Cons("toggle", <<>>)
      /\ <<"stop both", "blue">> = Cons("stop both", Cons("blue", <<>>))
  BY Pairs, Zenon DEF Apply
<1>6. ASSUME NEW t \in Others PROVE Apply \in Shapes(t, <<>>)
  BY <1>5 DEF Shapes
<1>7. ASSUME NEW t \in Others, Do(t, Apply)
      PROVE  TodoType' /\ \A u \in {"engine", "httpd"} : todo'[u] = todo[u]
  BY <1>4, <1>6, <1>7
<1>8. /\ "events" \in Others /\ "web" \in Others /\ "web_stop" \in Others /\ "fido2" \in Others
      /\ "timer" \in Others /\ "engine" \in Tasks /\ "httpd" \in Tasks
  BY DEF Others, Tasks
<1>9. CASE Timer
  <2>1. <<"toggle">> \in Shapes("timer", <<>>)
    BY <1>5 DEF Shapes
  <2>2. UNCHANGED jig /\ (Do("timer", <<"toggle">>) \/ Do("timer", Apply))
    BY <1>9 DEF Timer, BlinkFires, PulseEnds
  <2> QED BY <1>4, <1>7, <1>8, <2>1, <2>2
<1>10. CASE LedOn \/ LedOff
  <2>1. <<"stop both", "blue">> \in Shapes("web", <<>>)
    BY <1>5 DEF Shapes
  <2>2. UNCHANGED jig /\ (Do("web", <<"stop both", "blue">>) \/ Do("web_stop", Apply))
    BY <1>10 DEF LedOn, LedOff
  <2> QED BY <1>4, <1>7, <1>8, <2>1, <2>2
<1>11. CASE \E pending \in BOOLEAN : SetFido2Pending(pending)
  <2>1. UNCHANGED jig /\ Do("fido2", Apply)
    BY <1>11 DEF SetFido2Pending
  <2> QED BY <1>7, <1>8, <2>1
<1>12. CASE Handle \/ StartAp
  <2>1. UNCHANGED jig /\ (UNCHANGED todo \/ Do("events", Apply) \/ Do("web", Apply))
    BY <1>12 DEF Handle, Disconnected, GotAddress, StartAp, SetState, HandleFrame
  <2> QED BY <1>3, <1>7, <1>8, <2>1
<1>13. CASE Answer \/ Outage
  <2>1. UNCHANGED <<todo, jig>>
    BY <1>13 DEF Answer, GetsAddress, ConnectFails, Outage, RadioFrame
  <2> QED BY <1>3, <2>1
<1>14. ASSUME NEW t \in {"engine", "httpd"}, NEW s \in Seq(Calls(t)), Do(t, s)
       PROVE  TodoType' /\ todo'[t] = s /\ \A u \in Tasks : u # t => todo'[u] = todo[u]
  <2>1. s \in Shapes(t, s) /\ t \in Tasks /\ todo' = [todo EXCEPT ![t] = s]
    BY <1>8, <1>14 DEF Shapes, Do
  <2> QED BY <1>14, <2>1, Reshaped
<1>15. CASE Substituted
  <2>1. <<"blink once">> \in Seq(Calls("engine"))
    BY DEF Calls
  <2>2. Do("engine", <<"blink once">>)
    BY <1>15 DEF Substituted
  <2> QED BY <1>8, <1>14, <1>15, <2>1, <2>2
<1>16. ASSUME NEW what \in Switches, Hotkey(what)
       PROVE  /\ TodoType' /\ todo'["httpd"] = todo["httpd"]
              /\ todo'["engine"] = Cons(what, Cons("read", Cons(IF what = "disable"
                                           THEN "modify off" ELSE "modify", Storing)))
  <2> DEFINE m == IF what = "disable" THEN "modify off" ELSE "modify"
             s == <<what, "read", m, "store", "blink once">>
  <2>1. /\ what \in Calls("engine") /\ "read" \in Calls("engine") /\ m \in Calls("engine")
        /\ "store" \in Calls("engine") /\ "blink once" \in Calls("engine")
    BY DEF Calls, HttpdCalls
  <2>2. s \in Seq(Calls("engine"))
    <3> HIDE DEF m
    <3> QED BY <2>1, Lists, Zenon
  <2>3. Do("engine", s)
    BY <1>16 DEF Hotkey
  <2>4. s = Cons(what, Cons("read", Cons(m, Cons("store", Cons("blink once", <<>>)))))
    <3> HIDE DEF m
    <3>1. /\ <<m, "store", "blink once">> = Cons(m, <<"store", "blink once">>)
          /\ <<"store", "blink once">> = Cons("store", <<"blink once">>)
          /\ <<"blink once">> = Cons("blink once", <<>>)
      <4>1. <<m, "store", "blink once">> = Cons(m, <<"store", "blink once">>)
        BY Triples, Zenon
      <4> QED BY <4>1, Pairs, Zenon
    <3>2. s = Cons(what, Cons("read", <<m, "store", "blink once">>))
      BY Quintuples, Zenon
    <3> QED BY <3>1, <3>2, Zenon
  <2> QED BY <1>8, <1>14, <2>2, <2>3, <2>4 DEF Storing
<1>17. ASSUME NEW value \in {0, 1}, NEW on \in BOOLEAN, Post(value, on)
       PROVE  /\ TodoType' /\ todo'["engine"] = todo["engine"]
              /\ todo'["httpd"] = Cons("store", Cons("configure",
                                       Cons(IF on THEN "enable" ELSE "disable", <<>>)))
  <2> DEFINE e == IF on THEN "enable" ELSE "disable"
             s == <<"store", "configure", e>>
  <2>1. e \in Calls("httpd") /\ "store" \in Calls("httpd") /\ "configure" \in Calls("httpd")
    BY DEF Calls, HttpdCalls, Switches
  <2>2. s \in Seq(Calls("httpd"))
    <3> HIDE DEF e
    <3> QED BY <2>1, Lists, Zenon
  <2>3. Do("httpd", s)
    BY <1>17 DEF Post
  <2>4. s = Cons("store", Cons("configure", Cons(e, <<>>)))
    <3> HIDE DEF e
    <3>1. s = Cons("store", <<"configure", e>>)
      BY Triples, Zenon
    <3>2. <<"configure", e>> = Cons("configure", <<e>>) /\ <<e>> = Cons(e, <<>>)
      BY Pairs, Zenon
    <3> QED BY <3>1, <3>2, Zenon
  <2> QED BY <1>8, <1>14, <2>2, <2>3, <2>4
<1>18. CASE UNCHANGED <<todo, jig>>
  BY <1>3, <1>18
<1>19. CASE \E t \in Tasks : LedStep(t) \/ JigStep(t)
  BY <1>2, <1>19
<1>20. CASE \E what \in Switches : Hotkey(what)
  BY <1>16, <1>20
<1>21. CASE \E value \in {0, 1}, on \in BOOLEAN : Post(value, on)
  BY <1>17, <1>21
<1> QED BY <1>1, <1>9, <1>10, <1>11, <1>12, <1>13, <1>15, <1>19, <1>20, <1>21 DEF Next

JigglerInv == TodoType /\ JigType /\ JigInv

LEMMA InitJiggler == Init => JigglerInv
<1> SUFFICES ASSUME Init PROVE JigglerInv
  OBVIOUS
<1>1. todo = [t \in Tasks |-> <<>>] /\ \A S : <<>> \in Seq(S)
  BY DEF Init
<1>2. TodoType
  <2>1. ASSUME NEW t \in Tasks PROVE \E r \in Seq(Calls(t)) : todo[t] \in Shapes(t, r)
    BY <1>1 DEF Shapes
  <2> QED BY <1>1, <2>1 DEF TodoType
<1>3. JigType
  BY StatusLedAssumption DEF Init, JigType, Config, Numbers
<1>4. EngineFree /\ Idle("httpd") /\ AtRest
  BY <1>1 DEF Init, EngineFree, Idle, AtRest, Running, Tasks
<1> QED BY <1>2, <1>3, <1>4 DEF JigglerInv, JigInv

LEMMA StepJiggler == JigglerInv /\ [Next]_vars => JigglerInv'
<1> SUFFICES ASSUME TodoType, JigType, JigInv, [Next]_vars PROVE JigglerInv'
  BY DEF JigglerInv
<1>1. TodoType'
  BY Begins
<1>2. "engine" \in Tasks /\ "httpd" \in Tasks
  BY DEF Tasks
<1>3. CASE UNCHANGED <<todo, jig>>
  BY <1>1, <1>3, JigKept DEF JigglerInv
<1>4. CASE UNCHANGED jig /\ \A t \in {"engine", "httpd"} : todo'[t] = todo[t]
  BY <1>1, <1>4, JigKept DEF JigglerInv
<1>5. ASSUME NEW t \in Tasks, LedStep(t) \/ JigStep(t),
             \A u \in Tasks : u # t => todo'[u] = todo[u]
      PROVE  JigglerInv'
  <2>1. JigType' /\ ~Idle(t)
    BY <1>5, JigTypeStep, StepAt DEF Idle
  <2> SUFFICES JigInv'
    BY <1>1, <2>1 DEF JigglerInv
  <2>2. CASE t \in Others
    <3>1. UNCHANGED jig /\ t # "engine" /\ t # "httpd"
      BY <1>5, <2>2, OtherStep DEF Others
    <3> QED BY <1>2, <1>5, <3>1, JigKept
  <2>3. CASE t = "engine"
    <3>1. todo'["httpd"] = todo["httpd"]
      BY <1>2, <1>5, <2>3
    <3>2. EngineFree => EngineFree' /\ UNCHANGED jig
      BY <1>5, <2>3, FreeStep
    <3>3. CASE EngineFree /\ Idle("httpd") /\ AtRest
      BY <3>1, <3>2, <3>3 DEF JigInv, Idle, AtRest, Running, jig
    <3>4. CASE HotkeyRuns /\ Idle("httpd")
      BY <1>5, <2>3, <3>1, <3>4, HotkeyStep DEF JigInv, Idle
    <3>5. CASE EngineFree /\ PostRuns
      <4>1. PostRuns'
        <5>1. UNCHANGED <<enabled, jiggling, settings, stored, copy>>
          BY <3>2, <3>5 DEF jig
        <5>2. ASSUME NEW w, NEW r PROVE Switching("httpd", w, r) => Switching("httpd", w, r)'
          BY <3>1, <5>1 DEF Switching, Switched
        <5> QED BY <3>1, <3>5, <5>1, <5>2 DEF PostRuns
      <4> QED BY <3>2, <3>5, <4>1 DEF JigInv
    <3>6. CASE astray
      <4>1. astray'
        BY <1>5, <3>6 DEF LedStep, Stop, Choose, Start, StopBoth, ArmPulse, Toggle, Again, BlinkOnce,
             Show, StepFrame, JigStep, Configure, Settings, Arm, Disarm, Read, Modify, Store, Switch,
             Flag, jig
      <4> QED BY <4>1 DEF JigInv
    <3> QED BY <3>3, <3>4, <3>5, <3>6 DEF JigInv
  <2>4. CASE t = "httpd"
    <3>1. todo'["engine"] = todo["engine"]
      BY <1>2, <1>5, <2>4
    <3>2. ~Idle("httpd")
      BY <2>1, <2>4
    <3>3. CASE EngineFree /\ PostRuns
      BY <1>5, <2>4, <3>1, <3>3, PostStep DEF JigInv, EngineFree
    <3>4. CASE astray
      <4>1. astray'
        BY <1>5, <3>4 DEF LedStep, Stop, Choose, Start, StopBoth, ArmPulse, Toggle, Again, BlinkOnce,
             Show, StepFrame, JigStep, Configure, Settings, Arm, Disarm, Read, Modify, Store, Switch,
             Flag, jig
      <4> QED BY <4>1 DEF JigInv
    <3> QED BY <3>2, <3>3, <3>4 DEF JigInv
  <2> QED BY <2>2, <2>3, <2>4 DEF Others
<1>6. CASE Substituted /\ todo'["engine"] = <<"blink once">> /\ todo'["httpd"] = todo["httpd"]
  <2>1. UNCHANGED jig /\ Idle("engine")
    BY <1>6 DEF Substituted
  <2>2. UNCHANGED <<s_jiggler_active, enabled, jiggling, settings, stored, copy, astray>>
    BY <2>1 DEF jig
  <2>3. JigType'
    BY <2>2 DEF JigType
  <2>4. EngineFree'
    <3>1. <<"blink once">> \in Seq(FlashSteps)
      BY DEF FlashSteps
    <3> QED BY <1>6, <3>1 DEF EngineFree
  <2>5. ~HotkeyRuns
    BY <2>1, RunsBusy
  <2>6. AtRest => AtRest'
    BY <2>2 DEF AtRest, Running
  <2>7. PostRuns => PostRuns'
    <3>1. ASSUME NEW w, NEW r PROVE Switching("httpd", w, r) => Switching("httpd", w, r)'
      BY <1>6, <2>2 DEF Switching, Switched
    <3> QED BY <1>6, <2>2, <3>1 DEF PostRuns
  <2> QED BY <1>1, <1>6, <2>2, <2>3, <2>4, <2>5, <2>6, <2>7 DEF JigInv, Idle, JigglerInv
<1>7. ASSUME NEW what \in Switches, Hotkey(what), todo'["httpd"] = todo["httpd"],
             todo'["engine"] = Cons(what, Cons("read", Cons(IF what = "disable"
                                         THEN "modify off" ELSE "modify", Storing)))
      PROVE  JigglerInv'
  <2>1. /\ Idle("engine") /\ astray' = (astray \/ ~Idle("httpd"))
        /\ UNCHANGED <<s_jiggler_active, enabled, jiggling, settings, stored, copy>>
    BY <1>7 DEF Hotkey
  <2>2. JigType'
    BY <2>1 DEF JigType
  <2>3. ~astray' => AtRest
    BY <2>1, RunsBusy DEF JigInv
  <2>4. PICK m \in {"modify", "modify off"} : m = IF what = "disable" THEN "modify off" ELSE "modify"
    OBVIOUS
  <2>5. AtRest => Switching("engine", what, Cons("read", Cons(m, Storing)))'
    BY <1>7, <2>1, <2>4 DEF Switching, AtRest
  <2>6. AtRest => HotkeyRuns'
    <3>1. m = "modify off" <=> what = "disable"
      BY <2>4
    <3>2. AtRest => stored'.settings = settings'
      <4>1. AtRest => stored.settings = settings
        <5>1. [enabled |-> enabled, settings |-> settings].settings = settings
          OBVIOUS
        <5> QED BY <5>1, Zenon DEF AtRest, Running
      <4> QED BY <2>1, <4>1
    <3>3. AtRest => /\ stored'.settings = settings'
                    /\ Switching("engine", what, Cons("read", Cons(m, Storing)))'
      BY <2>5, <3>2
    <3> QED BY <3>1, <3>3, Zenon DEF HotkeyRuns
  <2> QED BY <1>1, <1>7, <2>1, <2>2, <2>3, <2>6 DEF JigInv, Idle, JigglerInv
<1>8. ASSUME NEW value \in {0, 1}, NEW on \in BOOLEAN, Post(value, on), todo'["engine"] = todo["engine"],
             todo'["httpd"] = Cons("store", Cons("configure", 
                                   Cons(IF on THEN "enable" ELSE "disable", <<>>)))
      PROVE  JigglerInv'
  <2>1. /\ Idle("httpd") /\ astray' = (astray \/ ~Idle("engine"))
        /\ copy' = [copy EXCEPT !["httpd"] = [enabled |-> on, settings |-> value]]
        /\ UNCHANGED <<s_jiggler_active, enabled, jiggling, settings, stored>>
    BY <1>8 DEF Post
  <2>2. /\ copy' \in [{"engine", "httpd"} -> Config]
        /\ copy'["httpd"] = [enabled |-> on, settings |-> value]
    BY <2>1 DEF JigType, Config, Numbers
  <2>3. JigType'
    BY <2>1, <2>2 DEF JigType
  <2>4. ~astray' => AtRest /\ EngineFree'
    <3>1. ~astray' => Idle("engine") /\ ~astray
      BY <2>1
    <3> QED BY <1>8, <2>1, <3>1, RunsBusy DEF JigInv, EngineFree
  <2>5. AtRest => PostRuns'
    <3>1. PICK last \in {"enable", "disable"} : last = IF on THEN "enable" ELSE "disable"
      OBVIOUS
    <3>2. (last = "enable" <=> copy["httpd"].enabled)'
      BY <2>2, <3>1
    <3>3. AtRest => (enabled = jiggling)'
      BY <2>1 DEF AtRest
    <3> QED BY <1>8, <3>1, <3>2, <3>3 DEF PostRuns
  <2> QED BY <1>1, <2>3, <2>4, <2>5 DEF JigInv, JigglerInv
<1> QED BY <1>3, <1>4, <1>5, <1>6, <1>7, <1>8, Begins

\* Hotkeys and POST /api/jiggler leave the flag of the jiggler, its timer, the LED's copy of
\* the flag and the stored configuration in step (hotkey.c, web_ui.c, jiggler.c), whatever
\* the tasks at the LED do meanwhile, unless the two were at it at once or a store failed.
THEOREM JigglerStored == Spec => []JigglerAsStored
<1>1. JigglerInv => JigglerAsStored
  <2> SUFFICES ASSUME JigglerInv, Settled, ~astray
               PROVE  /\ enabled = jiggling /\ enabled = s_jiggler_active
                      /\ stored = [enabled |-> enabled, settings |-> settings]
    BY DEF JigglerAsStored
  <2>1. Idle("engine") /\ Idle("httpd")
    BY DEF Settled, Tasks
  <2>2. AtRest
    BY <2>1, RunsBusy DEF JigglerInv, JigInv
  <2> QED BY <2>2 DEF JigglerInv, JigType, AtRest, Running
<1> QED BY <1>1, InitJiggler, StepJiggler, PTL DEF Spec

-----------------------------------------------------------------------------
(* The LED: one task at a time is at it, or it is marked as crossed.              *)

LedType ==
    /\ blink \in BOOLEAN /\ pulse \in BOOLEAN /\ crossed \in BOOLEAN
    /\ s_web_ui_active \in BOOLEAN /\ s_fido2_pending \in BOOLEAN /\ s_jiggler_active \in BOOLEAN

Right ==
    IF Wanted \in {"red", "green"} THEN blink /\ color = Wanted /\ shown \in {Wanted, "off"}
    ELSE ~blink /\ shown = Wanted
Resting == Right \/ (pulse /\ ~blink /\ shown = "white")
OneAtLed == \A t, u \in Tasks : AtLed(t) /\ AtLed(u) => t = u
\* What the step that is next at the LED finds there.
Finds(t) ==
    /\ At(t, "choose") => ~blink
    /\ At(t, "start") => Wanted \in {"red", "green"} /\ color = Wanted /\ shown = "off"
    /\ At(t, "stop both") /\ t = "web" => Wanted = "blue"
    /\ At(t, "blue") => ~blink /\ Wanted = "blue"
    /\ At(t, "white") => ~blink
    /\ At(t, "arm pulse") => ~blink /\ shown = "white"
    /\ At(t, "toggle") \/ At(t, "again") =>
          Wanted \in {"red", "green"} /\ color = Wanted /\ shown \in {Wanted, "off"}
LedInv ==
    ~crossed =>
        /\ OneAtLed
        /\ (\A t \in Tasks : ~AtLed(t)) => Resting
        /\ \A t \in Tasks : Finds(t)

LEMMA FindsAway == ASSUME NEW t \in Tasks, ~AtLed(t) PROVE Finds(t)
BY DEF Finds, At, AtLed, LedSteps

LEMMA FindsAwayNext == ASSUME NEW t \in Tasks, ~AtLed(t)' PROVE Finds(t)'
BY DEF Finds, At, AtLed, LedSteps, Idle

\* Away from the LED a task changes nothing of it.
LEMMA LedElsewhere ==
    ASSUME LedInv, UNCHANGED <<led, crossed>>, Wanted' = Wanted,
           \A t \in Tasks : todo'[t] = todo[t] \/ (~AtLed(t) /\ ~AtLed(t)')
    PROVE  LedInv'
<1>1. UNCHANGED <<blink, pulse, color, shown, crossed>>
  BY DEF led
<1>2. ASSUME NEW t \in Tasks PROVE AtLed(t)' = AtLed(t) /\ (Finds(t) => Finds(t)')
  <2>1. CASE todo'[t] = todo[t]
    BY <1>1, <2>1 DEF AtLed, Finds, At, Idle
  <2>2. CASE ~AtLed(t) /\ ~AtLed(t)'
    <3>1. Finds(t)'
      BY <2>2, FindsAwayNext
    <3> QED BY <2>2, <3>1 DEF AtLed
  <2> QED BY <2>1, <2>2
<1>3. Resting => Resting'
  BY <1>1 DEF Resting, Right
<1>4. OneAtLed => OneAtLed'
  BY <1>2 DEF OneAtLed
<1> QED BY <1>1, <1>2, <1>3, <1>4 DEF LedInv

\* A task at the LED goes on, or leaves it as it should be.
LEMMA LedMoves ==
    ASSUME LedInv, NEW t \in Tasks, AtLed(t), crossed' = crossed,
           \A u \in Tasks : u # t => todo'[u] = todo[u],
           ~crossed => Finds(t)' /\ (~AtLed(t)' => Resting')
    PROVE  LedInv'
<1> SUFFICES ASSUME ~crossed PROVE LedInv'
  BY DEF LedInv
<1>1. ASSUME NEW u \in Tasks, u # t PROVE ~AtLed(u)'
  <2>1. ~AtLed(u)
    BY <1>1 DEF LedInv, OneAtLed
  <2> QED BY <1>1, <2>1 DEF AtLed, Idle
<1>2. ASSUME NEW u \in Tasks PROVE Finds(u)'
  BY <1>1, FindsAwayNext
<1>3. OneAtLed'
  BY <1>1 DEF OneAtLed
<1> QED BY <1>1, <1>2, <1>3 DEF LedInv

\* A task that comes to the LED finds what its first step needs, or is marked.
LEMMA LedEnters ==
    ASSUME LedInv, NEW t \in Tasks, NEW repairs \in BOOLEAN, Enter(t, repairs),
           \A u \in Tasks : u # t => todo'[u] = todo[u],
           ~crossed' => AtLed(t)' /\ Finds(t)'
    PROVE  LedInv'
<1> SUFFICES ASSUME ~crossed' PROVE LedInv'
  BY DEF LedInv
<1>1. ASSUME NEW u \in Tasks, u # t PROVE ~AtLed(u)'
  <2>1. ~AtLed(u)
    BY <1>1 DEF Enter
  <2> QED BY <1>1, <2>1 DEF AtLed, Idle
<1>2. ASSUME NEW u \in Tasks PROVE Finds(u)'
  BY <1>1, FindsAwayNext
<1>3. OneAtLed'
  BY <1>1 DEF OneAtLed
<1> QED BY <1>2, <1>3 DEF LedInv

LEMMA WantedKept ==
    ASSUME UNCHANGED <<s_web_ui_active, s_fido2_pending, s_state, s_jiggler_active>>
    PROVE  Wanted' = Wanted /\ (Connected' <=> Connected)
BY DEF Wanted, Connected

\* The calls of a task are not at the LED.
LEMMA CallsAway ==
    ASSUME NEW t \in Tasks, NEW s \in Seq(Calls(t))
    PROVE  /\ todo[t] = s => ~AtLed(t)
           /\ todo'[t] = s => ~AtLed(t)'
<1>1. s # <<>> => Head(s) \in Calls(t)
  BY HeadTailProperties
<1>2. s # <<>> => Head(s) \notin LedSteps
  <2>1. "blue" \notin Calls(t) /\ \A x \in Calls(t) : x \notin LedSteps
    BY DEF Calls, HttpdCalls, Switches, LedSteps
  <2> QED BY <1>1, <2>1
<1> QED BY <1>2 DEF AtLed, Idle

\* What a task finds when x is next.
LEMMA NowAt ==
    ASSUME NEW t \in Tasks, NEW x \in StepNames, NEW q \in Seq(StepNames), todo'[t] = Cons(x, q)
    PROVE  /\ At(t, x)' /\ \A y : At(t, y)' => y = x
           /\ AtLed(t)' <=> x \in LedSteps
BY Steps DEF At, AtLed, Idle

LEMMA LedStepKeeps ==
    ASSUME TodoType, LedType, LedInv, NEW t \in Tasks, LedStep(t)
    PROVE  LedInv'
<1>1. todo[t] # <<>> /\ (\A w \in Tasks : w # t => todo'[w] = todo[w])
  BY StepAt, StepLeaves
<1>2. PICK r \in Seq(Calls(t)) : r \in Seq(StepNames) /\ GoesOn(t, r, Head(todo[t]), Tail(todo[t]))
  BY <1>1, Busy
<1>3. PICK u \in Seq(StepNames) : u = Tail(todo[t])
  BY <1>1, Busy
<1>4. /\ Done(t) => todo'[t] = u
      /\ Then(t, <<"start">>) => todo'[t] = Cons("start", u)
      /\ Then(t, <<"again">>) => todo'[t] = Cons("again", u)
      /\ Then(t, <<"stop both", "white", "arm pulse">>) =>
            todo'[t] = Cons("stop both", Cons("white", Cons("arm pulse", u)))
  BY <1>1, <1>3, DoneLeaves, ThenLeaves, Pushed
<1>5. /\ "choose" \in StepNames /\ "start" \in StepNames /\ "blue" \in StepNames
      /\ "white" \in StepNames /\ "arm pulse" \in StepNames /\ "again" \in StepNames
      /\ "stop both" \in StepNames
  BY DEF StepNames, LedSteps
<1>6. ASSUME NEW x \in StepNames, NEW q \in Seq(StepNames) PROVE Cons(x, q) \in Seq(StepNames)
  BY Steps
<1>7. todo'[t] = r => ~AtLed(t)'
  BY CallsAway
<1>8. ASSUME StepFrame PROVE Wanted' = Wanted /\ crossed' = crossed /\ (Connected' <=> Connected)
  BY <1>8, WantedKept DEF StepFrame, wifi, wanted, jig
<1>9. ASSUME ~crossed PROVE Finds(t)
  BY <1>9 DEF LedInv
<1>10. CASE Stop(t)
  <2>1. At(t, "stop") /\ blink' = FALSE /\ Done(t) /\ StepFrame
    BY <1>10 DEF Stop
  <2>2. AtLed(t) /\ todo'[t] = Cons("choose", r)
    BY <1>2, <1>3, <1>4, <2>1 DEF At, AtLed, LedSteps, GoesOn
  <2>3. AtLed(t)' /\ \A y : At(t, y)' => y = "choose"
    BY <1>2, <1>5, <2>2, NowAt DEF LedSteps
  <2>4. Finds(t)'
    BY <2>1, <2>3 DEF Finds
  <2> QED BY <1>1, <1>8, <2>1, <2>2, <2>3, <2>4, LedMoves
<1>11. CASE Choose(t)
  <2>1. At(t, "choose") /\ AtLed(t) /\ StepFrame /\ blink' = blink /\ u = r
    BY <1>2, <1>3, <1>11 DEF Choose, At, AtLed, LedSteps, GoesOn
  <2>2. ~crossed => ~blink
    BY <1>9, <2>1 DEF Finds
  <2>3. CASE Wanted \in {"red", "green"}
    <3>1. color' = Wanted /\ shown' = "off" /\ todo'[t] = Cons("start", r)
      BY <1>4, <1>11, <2>1, <2>3 DEF Choose
    <3>2. AtLed(t)' /\ \A y : At(t, y)' => y = "start"
      BY <1>2, <1>5, <3>1, NowAt DEF LedSteps
    <3>3. Finds(t)'
      BY <1>8, <2>1, <2>3, <3>1, <3>2 DEF Finds
    <3> QED BY <1>1, <1>8, <2>1, <3>2, <3>3, LedMoves
  <2>4. CASE Wanted \notin {"red", "green"}
    <3>1. shown' = Wanted /\ todo'[t] = r
      BY <1>4, <1>11, <2>1, <2>4 DEF Choose
    <3>2. ~AtLed(t)' /\ Finds(t)'
      BY <1>7, <3>1, FindsAwayNext
    <3>3. ~crossed => Resting'
      BY <1>8, <2>1, <2>2, <2>4, <3>1 DEF Resting, Right
    <3> QED BY <1>1, <1>8, <2>1, <3>2, <3>3, LedMoves
  <2> QED BY <2>3, <2>4
<1>12. CASE Start(t)
  <2>1. /\ At(t, "start") /\ AtLed(t) /\ StepFrame /\ blink' = TRUE /\ Done(t) /\ u = r
        /\ color' = color /\ shown' = shown
    BY <1>2, <1>3, <1>12 DEF Start, At, AtLed, LedSteps, GoesOn
  <2>2. ~AtLed(t)' /\ Finds(t)'
    BY <1>4, <1>7, <2>1, FindsAwayNext
  <2>3. ~crossed => Resting'
    BY <1>8, <1>9, <2>1 DEF Resting, Right, Finds
  <2> QED BY <1>1, <1>8, <2>1, <2>2, <2>3, LedMoves
<1>13. CASE StopBoth(t)
  <2>1. At(t, "stop both") /\ AtLed(t) /\ StepFrame /\ blink' = FALSE /\ Done(t)
    BY <1>13 DEF StopBoth, At, AtLed, LedSteps
  <2>2. CASE t = "web" /\ u = Cons("blue", r)
    <3>1. todo'[t] = Cons("blue", r)
      BY <1>4, <2>1, <2>2
    <3>2. AtLed(t)' /\ \A y : At(t, y)' => y = "blue"
      BY <1>2, <1>5, <3>1, NowAt DEF LedSteps
    <3>3. ~crossed => Finds(t)'
      BY <1>8, <1>9, <2>1, <2>2, <3>2 DEF Finds
    <3> QED BY <1>1, <1>8, <2>1, <3>2, <3>3, LedMoves
  <2>3. CASE t = "engine" /\ u = Cons("white", Cons("arm pulse", r))
    <3>1. todo'[t] = Cons("white", Cons("arm pulse", r)) /\ Cons("arm pulse", r) \in Seq(StepNames)
      BY <1>2, <1>4, <1>5, <1>6, <2>1, <2>3
    <3>2. AtLed(t)' /\ \A y : At(t, y)' => y = "white"
      BY <1>5, <3>1, NowAt DEF LedSteps
    <3>3. ~crossed => Finds(t)'
      BY <2>1, <3>2 DEF Finds
    <3> QED BY <1>1, <1>8, <2>1, <3>2, <3>3, LedMoves
  <2> QED BY <1>2, <1>3, <2>1, <2>2, <2>3 DEF GoesOn, At
<1>14. CASE Show(t, "blue")
  <2>1. /\ At(t, "blue") /\ AtLed(t) /\ StepFrame /\ blink' = blink /\ Done(t) /\ u = r
        /\ shown' = "blue"
    BY <1>2, <1>3, <1>14 DEF Show, At, AtLed, LedSteps, GoesOn
  <2>2. ~AtLed(t)' /\ Finds(t)'
    BY <1>4, <1>7, <2>1, FindsAwayNext
  <2>3. ~crossed => Resting'
    BY <1>8, <1>9, <2>1 DEF Resting, Right, Finds
  <2> QED BY <1>1, <1>8, <2>1, <2>2, <2>3, LedMoves
<1>15. CASE Show(t, "white")
  <2>1. /\ At(t, "white") /\ AtLed(t) /\ StepFrame /\ blink' = blink /\ Done(t)
        /\ u = Cons("arm pulse", r) /\ shown' = "white"
    BY <1>2, <1>3, <1>15 DEF Show, At, AtLed, LedSteps, GoesOn
  <2>2. AtLed(t)' /\ \A y : At(t, y)' => y = "arm pulse"
    BY <1>2, <1>4, <1>5, <2>1, NowAt DEF LedSteps
  <2>3. ~crossed => Finds(t)'
    BY <1>9, <2>1, <2>2 DEF Finds
  <2> QED BY <1>1, <1>8, <2>1, <2>2, <2>3, LedMoves
<1>16. CASE ArmPulse(t)
  <2>1. /\ At(t, "arm pulse") /\ AtLed(t) /\ StepFrame /\ blink' = blink /\ Done(t) /\ u = r
        /\ shown' = shown /\ pulse' = TRUE
    BY <1>2, <1>3, <1>16 DEF ArmPulse, At, AtLed, LedSteps, GoesOn
  <2>2. ~AtLed(t)' /\ Finds(t)'
    BY <1>4, <1>7, <2>1, FindsAwayNext
  <2>3. ~crossed => Resting'
    BY <1>9, <2>1 DEF Resting, Finds
  <2> QED BY <1>1, <1>8, <2>1, <2>2, <2>3, LedMoves
<1>17. CASE Toggle(t)
  <2>1. At(t, "toggle") /\ AtLed(t) /\ StepFrame /\ blink' = blink /\ color' = color /\ u = r
    BY <1>2, <1>3, <1>17 DEF Toggle, At, AtLed, LedSteps, GoesOn
  <2>2. ~crossed => ~s_web_ui_active
    BY <1>9, <2>1 DEF Finds, Wanted
  <2>3. CASE ~crossed
    <3>1. shown' \in {color, "off"} /\ todo'[t] = Cons("again", r)
      BY <1>4, <1>17, <2>1, <2>2, <2>3 DEF Toggle
    <3>2. AtLed(t)' /\ \A y : At(t, y)' => y = "again"
      BY <1>2, <1>5, <3>1, NowAt DEF LedSteps
    <3>3. Finds(t)'
      BY <1>8, <1>9, <2>1, <2>3, <3>1, <3>2 DEF Finds
    <3> QED BY <1>1, <1>8, <2>1, <3>2, <3>3, LedMoves
  <2> QED BY <1>8, <2>1, <2>3 DEF LedInv
<1>18. CASE Again(t)
  <2>1. /\ At(t, "again") /\ AtLed(t) /\ StepFrame /\ Done(t) /\ u = r
        /\ color' = color /\ shown' = shown /\ blink' = (blink \/ ~Connected \/ s_jiggler_active)
    BY <1>2, <1>3, <1>18 DEF Again, At, AtLed, LedSteps, GoesOn
  <2>2. ~AtLed(t)' /\ Finds(t)'
    BY <1>4, <1>7, <2>1, FindsAwayNext
  <2>3. ~crossed => blink'
    BY <1>9, <2>1 DEF Finds, Wanted
  <2>4. ~crossed => Resting'
    BY <1>8, <1>9, <2>1, <2>3 DEF Resting, Right, Finds
  <2> QED BY <1>1, <1>8, <2>1, <2>2, <2>4, LedMoves
<1>19. CASE BlinkOnce(t)
  <2>1. At(t, "blink once") /\ ~AtLed(t) /\ u \in Seq(Calls(t))
    BY <1>2, <1>3, <1>19 DEF BlinkOnce, At, AtLed, LedSteps, GoesOn
  <2>2. CASE s_web_ui_active
    <3>1. todo'[t] = u /\ UNCHANGED <<led, crossed>> /\ Wanted' = Wanted
      BY <1>4, <1>19, <2>2, WantedKept DEF BlinkOnce, wifi, wanted, jig
    <3>2. ~AtLed(t)'
      BY <2>1, <3>1, CallsAway
    <3> QED BY <1>1, <2>1, <3>1, <3>2, LedElsewhere
  <2>3. CASE ~s_web_ui_active
    <3>1. /\ todo'[t] = Cons("stop both", Cons("white", Cons("arm pulse", u)))
          /\ Enter(t, FALSE)
      BY <1>4, <1>19, <2>3 DEF BlinkOnce
    <3>2. Cons("white", Cons("arm pulse", u)) \in Seq(StepNames)
      BY <1>5, <1>6
    <3>3. AtLed(t)' /\ \A y : At(t, y)' => y = "stop both"
      <4>1. PICK q \in Seq(StepNames) : todo'[t] = Cons("stop both", q)
        BY <3>1, <3>2
      <4> QED BY <1>5, <4>1, NowAt DEF LedSteps
    <3>4. t # "web"
      BY <1>2, <2>1 DEF GoesOn, At, Others, Tasks
    <3>5. Finds(t)'
      BY <3>3, <3>4 DEF Finds
    <3> QED BY <1>1, <3>1, <3>3, <3>5, LedEnters
  <2> QED BY <2>2, <2>3
<1> QED BY <1>10, <1>11, <1>12, <1>13, <1>14, <1>15, <1>16, <1>17, <1>18, <1>19 DEF LedStep

LEMMA JigStepKeeps ==
    ASSUME TodoType, LedType, LedInv, NEW t \in Tasks, JigStep(t)
    PROVE  LedInv'
<1>1. todo[t] # <<>> /\ (\A w \in Tasks : w # t => todo'[w] = todo[w])
  BY StepAt, StepLeaves
<1>2. PICK r \in Seq(Calls(t)) : r \in Seq(StepNames) /\ GoesOn(t, r, Head(todo[t]), Tail(todo[t]))
  BY <1>1, Busy
<1>3. PICK u \in Seq(StepNames) : u = Tail(todo[t])
  BY <1>1, Busy
<1>4. /\ Done(t) => todo'[t] = u
      /\ Then(t, <<"settings">>) => todo'[t] = Cons("settings", u)
      /\ Then(t, <<"arm", "on">>) => todo'[t] = Cons("arm", Cons("on", u))
      /\ Then(t, <<"disarm", "off">>) => todo'[t] = Cons("disarm", Cons("off", u))
      /\ Then(t, <<"disable", "settings", "enable">>) =>
            todo'[t] = Cons("disable", Cons("settings", Cons("enable", u)))
      /\ Then(t, Apply) => todo'[t] = Cons("stop", Cons("choose", u))
  <2>1. ASSUME NEW p \in Seq(StepNames), Then(t, p) PROVE todo'[t] = p \o u
    BY <1>1, <1>3, <2>1, ThenLeaves
  <2>2. Done(t) => todo'[t] = u
    BY <1>1, <1>3, DoneLeaves
  <2> QED BY <2>1, <2>2, Pushed DEF Apply
<1>5. /\ "settings" \in StepNames /\ "arm" \in StepNames /\ "on" \in StepNames
      /\ "disarm" \in StepNames /\ "off" \in StepNames /\ "disable" \in StepNames
      /\ "enable" \in StepNames /\ "stop" \in StepNames /\ "choose" \in StepNames
  BY DEF StepNames, LedSteps, HttpdCalls, Switches
<1>6. ASSUME NEW x \in StepNames, NEW q \in Seq(StepNames) PROVE Cons(x, q) \in Seq(StepNames)
  BY Steps
<1>7. /\ Head(todo[t]) \in HttpdCalls \cup {"arm"}
      /\ Head(todo[t]) \notin LedSteps
  BY <1>1 DEF JigStep, Configure, Settings, Arm, Disarm, Read, Modify, Store, Switch, Flag, At,
     HttpdCalls, Switches, LedSteps
<1>8. ~AtLed(t)
  BY <1>7 DEF AtLed
<1>9. CASE \E on \in BOOLEAN : Flag(t, on)
  <2>1. Enter(t, TRUE) /\ todo'[t] = Cons("stop", Cons("choose", u))
    BY <1>4, <1>9 DEF Flag
  <2>2. PICK q \in Seq(StepNames) : todo'[t] = Cons("stop", q)
    BY <1>5, <1>6, <2>1
  <2>3. AtLed(t)' /\ \A y : At(t, y)' => y = "stop"
    BY <1>5, <2>2, NowAt DEF LedSteps
  <2>4. Finds(t)'
    BY <2>3 DEF Finds
  <2> QED BY <1>1, <2>1, <2>3, <2>4, LedEnters
<1>10. CASE ~\E on \in BOOLEAN : Flag(t, on)
  <2>1. /\ UNCHANGED <<led, crossed, s_web_ui_active, s_fido2_pending, s_state, s_jiggler_active>>
        /\ \/ Done(t) \/ Arm(t) \/ Then(t, <<"settings">>) \/ Then(t, <<"arm", "on">>)
           \/ Then(t, <<"disarm", "off">>) \/ Then(t, <<"disable", "settings", "enable">>)
    BY <1>10 DEF JigStep, Configure, Settings, Arm, Disarm, Read, Modify, Store, Switch, JigFrame,
       wifi, wanted, jig
  <2>2. Wanted' = Wanted
    BY <2>1, WantedKept
  <2>3. ~AtLed(t)'
    <3>1. ASSUME NEW x \in StepNames \ LedSteps, NEW q \in Seq(StepNames), todo'[t] = Cons(x, q)
          PROVE  ~AtLed(t)'
      BY <3>1, NowAt
    <3>2. /\ "settings" \notin LedSteps /\ "arm" \notin LedSteps /\ "on" \notin LedSteps
          /\ "disarm" \notin LedSteps /\ "disable" \notin LedSteps
      BY DEF LedSteps
    <3>3. Cons("on", u) \in Seq(StepNames) /\ Cons("off", u) \in Seq(StepNames)
      BY <1>5, <1>6
    <3>4. Cons("settings", Cons("enable", u)) \in Seq(StepNames)
      <4>1. Cons("enable", u) \in Seq(StepNames)
        BY <1>5, <1>6
      <4> QED BY <1>5, <1>6, <4>1
    <3>5. CASE Arm(t)
      <4>1. Head(todo[t]) = "arm" /\ todo' = [todo EXCEPT ![t] = IF jiggling THEN Tail(u) ELSE u]
        BY <1>3, <3>5 DEF Arm, At, TodoType
      <4>2. u = Cons("on", r)
        BY <1>2, <1>3, <4>1 DEF GoesOn
      <4>3. todo'[t] = Cons("on", r) \/ todo'[t] = r
        <5>1. Tail(u) = r
          BY <1>2, <1>5, <4>2, Steps
        <5> QED BY <4>1, <4>2, <5>1 DEF TodoType
      <4> QED BY <1>2, <1>5, <3>1, <3>2, <4>3, CallsAway
    <3>6. CASE Done(t)
      <4>1. CASE Head(todo[t]) = "arm"
        <5>1. todo'[t] = Cons("on", r)
          BY <1>2, <1>3, <1>4, <3>6, <4>1 DEF GoesOn
        <5> QED BY <1>2, <1>5, <3>1, <3>2, <5>1
      <4>2. CASE Head(todo[t]) \in HttpdCalls
        <5>1. u \in Seq(Calls(t))
          BY <1>2, <1>3, <4>2 DEF GoesOn
        <5> QED BY <1>4, <3>6, <5>1, CallsAway
      <4> QED BY <1>7, <4>1, <4>2
    <3>7. CASE Then(t, <<"settings">>)
      BY <1>4, <1>5, <3>1, <3>2, <3>7
    <3>8. CASE Then(t, <<"arm", "on">>) \/ Then(t, <<"disarm", "off">>)
      BY <1>4, <1>5, <3>1, <3>2, <3>3, <3>8
    <3>9. CASE Then(t, <<"disable", "settings", "enable">>)
      BY <1>4, <1>5, <3>1, <3>2, <3>4, <3>9
    <3> QED BY <2>1, <3>5, <3>6, <3>7, <3>8, <3>9
  <2> QED BY <1>1, <1>8, <2>1, <2>2, <2>3, LedElsewhere
<1> QED BY <1>9, <1>10

LEMMA LedTypeNext == ASSUME LedType, JigType', [Next]_vars PROVE LedType'
<1>1. CASE UNCHANGED vars
  BY <1>1 DEF LedType, vars, led, wanted, jig
<1>2. ASSUME NEW t \in Tasks, LedStep(t) PROVE LedType'
  BY <1>2 DEF LedType, LedStep, Stop, Choose, Start, StopBoth, ArmPulse, Toggle, Again, BlinkOnce,
     Show, StepFrame, Enter, led, wanted, jig
<1>3. ASSUME NEW t \in Tasks, JigStep(t) PROVE LedType'
  <2>1. UNCHANGED <<led, wanted>>
    BY <1>3 DEF JigStep, Configure, Settings, Arm, Disarm, Read, Modify, Store, Switch, Flag, JigFrame
  <2>2. crossed' \in BOOLEAN
    BY <1>3 DEF LedType, JigStep, Configure, Settings, Arm, Disarm, Read, Modify, Store, Switch, Flag,
       Enter
  <2>3. s_jiggler_active' \in BOOLEAN
    BY DEF JigType
  <2> QED BY <2>1, <2>2, <2>3 DEF LedType, led, wanted
<1>4. CASE Timer
  BY <1>4 DEF Timer, BlinkFires, PulseEnds, LedType, Enter, jig, wanted
<1>5. CASE LedOn \/ LedOff
  BY <1>5 DEF LedOn, LedOff, LedType, Enter, led, jig
<1>6. ASSUME NEW pending \in BOOLEAN, SetFido2Pending(pending) PROVE LedType'
  BY <1>6 DEF SetFido2Pending, LedType, Enter, led, jig
<1>7. CASE Handle \/ StartAp
  BY <1>7 DEF Handle, Disconnected, GotAddress, StartAp, SetState, HandleFrame, LedType, Enter, led,
     wanted, jig
<1>8. CASE Answer \/ Outage \/ Substituted
  BY <1>8 DEF Answer, GetsAddress, ConnectFails, Outage, RadioFrame, Substituted, LedType, led,
     wanted, jig
<1>9. ASSUME NEW what \in Switches, Hotkey(what) PROVE LedType'
  BY <1>9 DEF Hotkey, LedType, led, wanted
<1>10. ASSUME NEW value \in {0, 1}, NEW on \in BOOLEAN, Post(value, on) PROVE LedType'
  BY <1>10 DEF Post, LedType, led, wanted
<1> QED BY <1>1, <1>2, <1>3, <1>4, <1>5, <1>6, <1>7, <1>8, <1>9, <1>10 DEF Next

StatusInv == JigglerInv /\ LedType /\ LedInv

LEMMA InitStatus == Init => StatusInv
<1> SUFFICES ASSUME Init PROVE StatusInv
  OBVIOUS
<1>1. /\ s_web_ui_active = FALSE /\ s_fido2_pending = FALSE
      /\ enabled \in BOOLEAN /\ s_jiggler_active = enabled
      /\ color = IF Connected /\ enabled THEN "green" ELSE "red"
      /\ shown = "off" /\ blink = (~Connected \/ enabled) /\ pulse = FALSE /\ crossed = FALSE
      /\ todo = [t \in Tasks |-> <<>>]
  BY StatusLedAssumption DEF Init
<1>2. LedType
  BY <1>1 DEF LedType
<1>3. \A t \in Tasks : ~AtLed(t)
  BY <1>1 DEF AtLed, Idle
<1>4. Resting
  BY <1>1 DEF Resting, Right, Wanted
<1>5. \A t \in Tasks : Finds(t)
  BY <1>3, FindsAway
<1> QED BY <1>2, <1>3, <1>4, <1>5, InitJiggler DEF StatusInv, LedInv, OneAtLed

LEMMA StepStatus == StatusInv /\ [Next]_vars => StatusInv'
<1> SUFFICES ASSUME JigglerInv, LedType, LedInv, [Next]_vars PROVE StatusInv'
  BY DEF StatusInv
<1>1. TodoType /\ JigglerInv' /\ LedType'
  BY StepJiggler, LedTypeNext DEF JigglerInv
<1> SUFFICES LedInv'
  BY <1>1 DEF StatusInv
<1>2. ASSUME NEW t \in Tasks, NEW s, Do(t, s)
      PROVE  todo'[t] = s /\ \A u \in Tasks : u # t => todo'[u] = todo[u]
  BY <1>1, <1>2 DEF Do, TodoType
<1>3. /\ "events" \in Tasks /\ "web" \in Tasks /\ "web_stop" \in Tasks /\ "fido2" \in Tasks
      /\ "engine" \in Tasks /\ "httpd" \in Tasks /\ "timer" \in Tasks
  BY DEF Tasks
<1>4. ASSUME NEW t \in Tasks, Do(t, Apply), Enter(t, TRUE) PROVE LedInv'
  <2>1. Apply # <<>> /\ Head(Apply) = "stop"
    BY DEF Apply
  <2>2. AtLed(t)' /\ Finds(t)'
    BY <1>2, <1>4, <2>1 DEF AtLed, Finds, At, Idle, LedSteps
  <2> QED BY <1>2, <1>4, <2>2, LedEnters
<1>5. ASSUME NEW t \in Tasks, NEW s, Do(t, s), Idle(t), s # <<>>, Head(s) \notin LedSteps,
             UNCHANGED <<led, crossed, s_web_ui_active, s_fido2_pending, s_state, s_jiggler_active>>
      PROVE  LedInv'
  <2>1. ~AtLed(t) /\ ~AtLed(t)'
    BY <1>2, <1>5 DEF AtLed, Idle
  <2>2. \A u \in Tasks : todo'[u] = todo[u] \/ (~AtLed(u) /\ ~AtLed(u)')
    BY <1>2, <1>5, <2>1
  <2> QED BY <1>5, <2>2, LedElsewhere, WantedKept
<1>6. ASSUME UNCHANGED <<todo, led, crossed, s_web_ui_active, s_fido2_pending, s_state, s_jiggler_active>>
      PROVE  LedInv'
  BY <1>6, LedElsewhere, WantedKept
<1>7. ASSUME NEW t \in Tasks, LedStep(t) PROVE LedInv'
  BY <1>1, <1>7, LedStepKeeps
<1>8. ASSUME NEW t \in Tasks, JigStep(t) PROVE LedInv'
  BY <1>1, <1>8, JigStepKeeps
<1>9. CASE BlinkFires
  <2>1. /\ blink /\ Idle("timer") /\ Do("timer", <<"toggle">>) /\ Enter("timer", FALSE)
        /\ color' = color /\ shown' = shown /\ Wanted' = Wanted
    BY <1>9, WantedKept DEF BlinkFires, wifi, wanted, jig
  <2>2. <<"toggle">> # <<>> /\ Head(<<"toggle">>) = "toggle"
    OBVIOUS
  <2>3. AtLed("timer")' /\ \A y : At("timer", y)' => y = "toggle"
    BY <1>2, <1>3, <2>1, <2>2 DEF AtLed, At, Idle, LedSteps
  <2>4. ASSUME ~crossed' PROVE Finds("timer")'
    <3>1. ~crossed /\ \A u \in Tasks : ~AtLed(u)
      BY <2>1, <2>4 DEF Enter, AtLed
    <3>2. Wanted \in {"red", "green"} /\ color = Wanted /\ shown \in {Wanted, "off"}
      BY <2>1, <3>1 DEF LedInv, Resting, Right
    <3> QED BY <2>1, <2>3, <3>2 DEF Finds
  <2> QED BY <1>2, <1>3, <2>1, <2>3, <2>4, LedEnters
<1>10. CASE PulseEnds
  BY <1>3, <1>4, <1>10 DEF PulseEnds
<1>11. CASE LedOn
  <2>1. /\ Do("web", <<"stop both", "blue">>) /\ Enter("web", TRUE) /\ s_web_ui_active' = TRUE
    BY <1>11 DEF LedOn
  <2>2. Wanted' = "blue"
    BY <2>1 DEF Wanted
  <2>3. <<"stop both", "blue">> # <<>> /\ Head(<<"stop both", "blue">>) = "stop both"
    OBVIOUS
  <2>4. AtLed("web")' /\ \A y : At("web", y)' => y = "stop both"
    BY <1>2, <1>3, <2>1, <2>3 DEF AtLed, At, Idle, LedSteps
  <2>5. Finds("web")'
    BY <2>2, <2>4 DEF Finds
  <2> QED BY <1>2, <1>3, <2>1, <2>4, <2>5, LedEnters
<1>12. CASE LedOff
  BY <1>3, <1>4, <1>12 DEF LedOff
<1>13. ASSUME NEW pending \in BOOLEAN, SetFido2Pending(pending) PROVE LedInv'
  BY <1>3, <1>4, <1>13 DEF SetFido2Pending
<1>14. CASE Handle
  <2>1. \/ Do("events", Apply) /\ Enter("events", TRUE)
        \/ UNCHANGED <<todo, led, crossed, s_web_ui_active, s_fido2_pending, s_state, s_jiggler_active>>
    BY <1>14 DEF Handle, Disconnected, GotAddress, SetState, HandleFrame, wanted, jig
  <2> QED BY <1>3, <1>4, <1>6, <2>1
<1>15. CASE StartAp
  BY <1>3, <1>4, <1>15 DEF StartAp, SetState
<1>16. CASE Answer \/ Outage
  <2>1. UNCHANGED <<todo, led, crossed, s_web_ui_active, s_fido2_pending, s_state, s_jiggler_active>>
    BY <1>16 DEF Answer, GetsAddress, ConnectFails, Outage, RadioFrame, wanted, jig
  <2> QED BY <1>6, <2>1
<1>17. CASE UNCHANGED vars
  <2>1. UNCHANGED <<todo, led, crossed, s_web_ui_active, s_fido2_pending, s_state, s_jiggler_active>>
    BY <1>17 DEF vars, wifi, wanted, jig
  <2> QED BY <1>6, <2>1
<1>18. CASE Substituted
  <2>1. /\ Do("engine", <<"blink once">>) /\ Idle("engine")
        /\ UNCHANGED <<led, crossed, s_web_ui_active, s_fido2_pending, s_state, s_jiggler_active>>
    BY <1>18 DEF Substituted, wifi, wanted, jig
  <2>2. <<"blink once">> # <<>> /\ Head(<<"blink once">>) \notin LedSteps
    BY DEF LedSteps
  <2> QED BY <1>3, <1>5, <2>1, <2>2
<1>19. ASSUME NEW what \in Switches, Hotkey(what) PROVE LedInv'
  <2>1. PICK s : /\ s = <<what, "read", IF what = "disable" THEN "modify off" ELSE "modify", "store",
                          "blink once">>
                 /\ Do("engine", s)
    BY <1>19 DEF Hotkey
  <2>2. s # <<>> /\ Head(s) = what
    <3>1. ASSUME NEW m
          PROVE  LET p == <<what, "read", m, "store", "blink once">> IN p # <<>> /\ Head(p) = what
      OBVIOUS
    <3> QED BY <2>1, <3>1, Zenon
  <2>3. what \notin LedSteps
    BY DEF LedSteps, Switches
  <2>4. /\ Idle("engine")
        /\ UNCHANGED <<led, crossed, s_web_ui_active, s_fido2_pending, s_state, s_jiggler_active>>
    BY <1>19 DEF Hotkey, wifi, wanted
  <2> QED BY <1>3, <1>5, <2>1, <2>2, <2>3, <2>4
<1>20. ASSUME NEW value \in {0, 1}, NEW on \in BOOLEAN, Post(value, on) PROVE LedInv'
  <2>1. PICK s : /\ s = <<"store", "configure", IF on THEN "enable" ELSE "disable">>
                 /\ Do("httpd", s)
    BY <1>20 DEF Post
  <2>2. s # <<>> /\ Head(s) = "store"
    BY <2>1
  <2>3. "store" \notin LedSteps
    BY DEF LedSteps
  <2>4. /\ Idle("httpd")
        /\ UNCHANGED <<led, crossed, s_web_ui_active, s_fido2_pending, s_state, s_jiggler_active>>
    BY <1>20 DEF Post, wifi, wanted
  <2> QED BY <1>3, <1>5, <2>1, <2>2, <2>3, <2>4
<1> QED BY <1>7, <1>8, <1>9, <1>10, <1>11, <1>12, <1>13, <1>14, <1>15, <1>16, <1>17, <1>18, <1>19,
           <1>20 DEF Next, Timer

\* Once no task is at the LED and no flash is under way it shows what has the highest
\* priority (led_apply), unless two tasks changed it at once, for any number of outages,
\* touches, hotkeys, requests and flashes.
THEOREM PriorityShown == Spec => []ShowsPriority
<1>1. StatusInv => ShowsPriority
  <2> SUFFICES ASSUME StatusInv, Settled, ~pulse, ~crossed PROVE Right
    BY DEF ShowsPriority, Right
  <2>1. \A t \in Tasks : ~AtLed(t)
    BY DEF Settled, AtLed
  <2> QED BY <2>1 DEF StatusInv, LedInv, Resting
<1> QED BY <1>1, InitStatus, StepStatus, PTL DEF Spec
=============================================================================
