------------------------------ MODULE StatusLed ------------------------------
(***************************************************************************)
(* wifi_manager.c and jiggler.c: the state of the Wi-Fi station, the jiggler,    *)
(* and the status LED that shows them.  Seven tasks change the LED, without a lock: *)
(*   events   sys_evt, wifi_event_handler;                                      *)
(*   web      btn_task: the light of the web UI goes on, the access point;          *)
(*   web_stop the light goes off, when the server has stopped;                     *)
(*   fido2    a request for a touch begins or ends;                               *)
(*   engine   the jiggler's hotkeys, and the pulse of a substitution;              *)
(*   httpd    POST /api/jiggler;                                                 *)
(*   timer    esp_timer, the callbacks of the blink and of the pulse.             *)
(* todo is what a task has still to do of its function; a step is a statement, or  *)
(* some that touch nothing another task uses.                                   *)
(*                                                                         *)
(* The radio and esp_timer are external.  A connect is answered by an address or a *)
(* disconnection, an address can be lost, and a timer that is armed fires.        *)
(***************************************************************************)
EXTENDS Naturals, Sequences

CONSTANTS MAX_RETRY,
          Starts       \* the bounds (outages, web, touches, hotkeys, posts, pulses), the
                       \* station and the jiggler that a behaviour starts with

Counted == {"outage", "web", "touch", "hotkey", "post", "pulse"}
ASSUME StatusLedAssumption ==
    /\ MAX_RETRY \in Nat
    /\ Starts \subseteq [left : [Counted -> Nat], radio : {"connecting", "up", "down"},
                          enabled : BOOLEAN]

Tasks == {"events", "web", "web_stop", "fido2", "engine", "httpd", "timer"}

VARIABLES
    radio,        \* driver: "connecting", "up", "down", or "ap"
    queue,        \* events sys_evt has to handle
    s_state, s_retry_count,
    s_web_ui_active, s_fido2_pending, s_jiggler_active,
    color,        \* s_blink_r, s_blink_g, s_blink_b
    shown,        \* the LED
    s_led_on,
    blink,        \* s_led_timer is armed
    pulse,        \* s_pulse_timer is armed
    todo,
    enabled,      \* s_jig.enabled
    jiggling,     \* the jiggler's timer is armed
    settings,     \* s_jig: key, modifiers and interval, by number
    stored,       \* jiggler_config_t in storage
    copy,         \* the jiggler_config_t of the engine and of httpd
    crossed,      \* history: two tasks were at the LED since it was last set alone
    astray,        \* history: the engine and httpd were at the jiggler at once, or a store failed
    left          \* what is left of the bounds

wifi == <<radio, queue, s_state, s_retry_count>>
wanted == <<s_web_ui_active, s_fido2_pending>>
led == <<color, shown, s_led_on, blink, pulse>>
jig == <<s_jiggler_active, enabled, jiggling, settings, stored, copy, astray>>
vars == <<wifi, wanted, led, todo, jig, crossed, left>>

Connected == s_state = "connected"
\* After wifi_manager_init, with the jiggler as it is stored, or later, when the station
\* has come to rest.
Init ==
    /\ \E start \in Starts :
          left = start.left /\ radio = start.radio /\ enabled = start.enabled
    /\ queue = <<>> /\ s_retry_count = IF radio = "down" THEN MAX_RETRY ELSE 0
    /\ s_state = CASE radio = "up" -> "connected" [] radio = "down" -> "disconnected"
                   [] OTHER -> "connecting"
    /\ s_web_ui_active = FALSE /\ s_fido2_pending = FALSE
    /\ jiggling = enabled /\ s_jiggler_active = enabled /\ settings = 0
    /\ color = IF Connected /\ enabled THEN "green" ELSE "red"
    /\ shown = "off" /\ s_led_on = FALSE /\ blink = (~Connected \/ enabled) /\ pulse = FALSE
    /\ todo = [t \in Tasks |-> <<>>]
    /\ stored = [enabled |-> enabled, settings |-> settings]
    /\ copy = [t \in {"engine", "httpd"} |-> stored]
    /\ crossed = FALSE /\ astray = FALSE

Spend(what) == left[what] > 0 /\ left' = [left EXCEPT ![what] = @ - 1]
Idle(t) == todo[t] = <<>>
At(t, step) == ~Idle(t) /\ Head(todo[t]) = step
Do(t, steps) == todo' = [todo EXCEPT ![t] = steps]
\* The step is done; what it calls is next.
Then(t, steps) == todo' = [todo EXCEPT ![t] = steps \o Tail(@)]
Done(t) == Then(t, <<>>)

-----------------------------------------------------------------------------
(* The LED.                                                                  *)

Apply == <<"stop", "choose">>
LedSteps == {"stop", "choose", "start", "stop both", "blue", "white", "arm pulse", "toggle", "again"}
AtLed(t) == ~Idle(t) /\ Head(todo[t]) \in LedSteps
Enter(t, repairs) ==
    crossed' = \/ \E u \in Tasks \ {t} : AtLed(u)
               \/ crossed /\ ~repairs
StepFrame == UNCHANGED <<wifi, wanted, jig, crossed, left>>

Stop(t) ==
    /\ At(t, "stop") /\ Done(t) /\ blink' = FALSE
    /\ UNCHANGED <<color, shown, s_led_on, pulse>> /\ StepFrame
\* What led_apply shows, by priority.
Wanted == IF s_web_ui_active THEN "blue" ELSE IF s_fido2_pending THEN "amber"
          ELSE IF ~Connected THEN "red" ELSE IF s_jiggler_active THEN "green" ELSE "off"
\* A wrong order: the jiggler before the touch.
ChooseJigglerFirst(t) ==
    /\ At(t, "choose")
    /\ LET c == IF s_jiggler_active /\ ~s_web_ui_active /\ Connected THEN "green" ELSE Wanted
       IN  IF c \in {"red", "green"}
           THEN Then(t, <<"start">>) /\ color' = c /\ shown' = "off" /\ s_led_on' = FALSE
           ELSE Done(t) /\ shown' = c /\ s_led_on' = (c # "off") /\ UNCHANGED color
    /\ UNCHANGED <<blink, pulse>> /\ StepFrame
Choose(t) ==
    /\ At(t, "choose")
    /\ IF Wanted \in {"red", "green"}
       THEN Then(t, <<"start">>) /\ color' = Wanted /\ shown' = "off" /\ s_led_on' = FALSE
       ELSE Done(t) /\ shown' = Wanted /\ s_led_on' = (Wanted # "off") /\ UNCHANGED color
    /\ UNCHANGED <<blink, pulse>> /\ StepFrame
Start(t) ==
    /\ At(t, "start") /\ Done(t) /\ blink' = TRUE
    /\ UNCHANGED <<color, shown, s_led_on, pulse>> /\ StepFrame
StopBoth(t) ==
    /\ At(t, "stop both") /\ Done(t) /\ blink' = FALSE /\ pulse' = FALSE
    /\ UNCHANGED <<color, shown, s_led_on>> /\ StepFrame
Show(t, c) ==
    /\ At(t, c) /\ Done(t) /\ shown' = c /\ s_led_on' = TRUE
    /\ UNCHANGED <<color, blink, pulse>> /\ StepFrame
\* A wrong pulse: its end is not scheduled.
ArmPulseForgotten(t) ==
    /\ At(t, "arm pulse") /\ Done(t) /\ UNCHANGED led /\ StepFrame
ArmPulse(t) ==
    /\ At(t, "arm pulse") /\ Done(t) /\ pulse' = TRUE
    /\ UNCHANGED <<color, shown, s_led_on, blink>> /\ StepFrame

\* led_blink_cb and led_pulse_end_cb.
BlinkFires ==
    /\ blink /\ Idle("timer") /\ blink' = FALSE /\ Do("timer", <<"toggle">>)
    /\ Enter("timer", FALSE)
    /\ UNCHANGED <<wifi, wanted, color, shown, s_led_on, pulse, jig, left>>
Toggle(t) ==
    /\ At(t, "toggle")
    /\ IF s_web_ui_active
       THEN Done(t) /\ shown' = "blue" /\ s_led_on' = TRUE
       ELSE Then(t, <<"again">>) /\ s_led_on' = ~s_led_on /\ shown' = IF s_led_on' THEN color ELSE "off"
    /\ UNCHANGED <<color, blink, pulse>> /\ StepFrame
\* A wrong callback: only the red light is started again.
AgainOnlyRed(t) ==
    /\ At(t, "again") /\ Done(t) /\ blink' = (blink \/ ~Connected)
    /\ UNCHANGED <<color, shown, s_led_on, pulse>> /\ StepFrame
Again(t) ==
    /\ At(t, "again") /\ Done(t) /\ blink' = (blink \/ ~Connected \/ s_jiggler_active)
    /\ UNCHANGED <<color, shown, s_led_on, pulse>> /\ StepFrame
PulseEnds ==
    /\ pulse /\ Idle("timer") /\ pulse' = FALSE /\ Do("timer", Apply) /\ Enter("timer", TRUE)
    /\ UNCHANGED <<wifi, wanted, color, shown, s_led_on, blink, jig, left>>

LedOn ==
    /\ ~s_web_ui_active /\ Idle("web") /\ Spend("web")
    /\ s_web_ui_active' = TRUE /\ Do("web", <<"stop both", "blue">>) /\ Enter("web", TRUE)
    /\ UNCHANGED <<wifi, s_fido2_pending, led, jig>>
\* It may come late, when the next start is at the LED.
LedOff ==
    /\ s_web_ui_active /\ Idle("web_stop")
    /\ s_web_ui_active' = FALSE /\ Do("web_stop", Apply) /\ Enter("web_stop", TRUE)
    /\ UNCHANGED <<wifi, s_fido2_pending, led, jig, left>>
SetFido2Pending(pending) ==
    /\ s_fido2_pending # pending /\ Idle("fido2") /\ IF pending THEN Spend("touch") ELSE UNCHANGED left
    /\ s_fido2_pending' = pending /\ Do("fido2", Apply) /\ Enter("fido2", TRUE)
    /\ UNCHANGED <<wifi, s_web_ui_active, led, jig>>
BlinkOnce(t) ==
    /\ At(t, "blink once")
    /\ IF s_web_ui_active THEN Done(t) /\ UNCHANGED crossed
       ELSE Then(t, <<"stop both", "white", "arm pulse">>) /\ Enter(t, FALSE)
    /\ UNCHANGED <<wifi, wanted, led, jig, left>>
Substituted ==
    /\ Idle("engine") /\ Spend("pulse") /\ Do("engine", <<"blink once">>)
    /\ UNCHANGED <<wifi, wanted, led, jig, crossed>>

-----------------------------------------------------------------------------
(* The station.                                                              *)

RadioFrame == UNCHANGED <<s_state, s_retry_count, wanted, led, todo, jig, crossed>>
GetsAddress ==
    /\ radio = "connecting" /\ radio' = "up" /\ queue' = Append(queue, "address")
    /\ UNCHANGED left /\ RadioFrame
ConnectFails ==
    /\ radio = "connecting" /\ radio' = "down" /\ queue' = Append(queue, "disconnected")
    /\ UNCHANGED left /\ RadioFrame
Outage ==
    /\ radio = "up" /\ Spend("outage") /\ radio' = "down" /\ queue' = Append(queue, "disconnected")
    /\ RadioFrame

\* set_state, in the task t.
SetState(t, state) == s_state' = state /\ Do(t, Apply) /\ Enter(t, TRUE)
Retry == radio' = IF radio = "ap" THEN "ap" ELSE "connecting"
HandleFrame == UNCHANGED <<wanted, led, jig, left>>
Disconnected ==
    /\ Idle("events") /\ queue # <<>> /\ Head(queue) = "disconnected" /\ queue' = Tail(queue)
    /\ IF s_retry_count < MAX_RETRY
       THEN Retry /\ s_retry_count' = s_retry_count + 1 /\ UNCHANGED <<s_state, todo, crossed>>
       ELSE SetState("events", "disconnected") /\ UNCHANGED <<radio, s_retry_count>>
    /\ HandleFrame
\* A wrong handler: after an address the attempts are not counted from zero.
GotAddressNoReset ==
    /\ Idle("events") /\ queue # <<>> /\ Head(queue) = "address" /\ queue' = Tail(queue)
    /\ SetState("events", "connected") /\ UNCHANGED <<radio, s_retry_count>> /\ HandleFrame
GotAddress ==
    /\ Idle("events") /\ queue # <<>> /\ Head(queue) = "address" /\ queue' = Tail(queue)
    /\ s_retry_count' = 0 /\ SetState("events", "connected") /\ UNCHANGED radio /\ HandleFrame
\* wifi_manager_start_ap, in btn_task.  The station is switched off first.
StartAp ==
    /\ Idle("web") /\ Spend("web") /\ radio' = "ap"
    /\ queue' = IF radio = "up" THEN Append(queue, "disconnected") ELSE queue
    /\ SetState("web", "ap") /\ UNCHANGED <<s_retry_count, wanted, led, jig>>

-----------------------------------------------------------------------------
(* The jiggler.                                                              *)

JigFrame == UNCHANGED <<wifi, wanted, led, left>>
Hotkey(what) ==
    /\ Idle("engine") /\ Spend("hotkey") /\ astray' = (astray \/ ~Idle("httpd"))
    /\ Do("engine", <<what, "read", IF what = "disable" THEN "modify off" ELSE "modify", "store",
                      "blink once">>)
    /\ UNCHANGED <<wifi, wanted, led, s_jiggler_active, enabled, jiggling, settings, stored, copy,
                   crossed>>
\* What the request does not name stays as it is stored, which is one of the cases.
Post(value, on) ==
    /\ Idle("httpd") /\ Spend("post") /\ astray' = (astray \/ ~Idle("engine"))
    /\ copy' = [copy EXCEPT !["httpd"] = [enabled |-> on, settings |-> value]]
    /\ Do("httpd", <<"store", "configure", IF on THEN "enable" ELSE "disable">>)
    /\ UNCHANGED <<wifi, wanted, led, s_jiggler_active, enabled, jiggling, settings, stored, crossed>>

Configure(t) ==
    /\ At(t, "configure")
    /\ Then(t, IF enabled THEN <<"disable", "settings", "enable">> ELSE <<"settings">>)
    /\ UNCHANGED <<jig, crossed>> /\ JigFrame
Settings(t) ==
    /\ At(t, "settings") /\ Done(t) /\ settings' = copy[t].settings
    /\ UNCHANGED <<s_jiggler_active, enabled, jiggling, stored, copy, astray, crossed>> /\ JigFrame
Switch(t, what) ==
    /\ At(t, what)
    /\ LET on == IF what = "toggle jiggler" THEN ~enabled ELSE what = "enable"
       IN  IF on = enabled THEN Done(t)
           ELSE Then(t, IF on THEN <<"arm", "on">> ELSE <<"disarm", "off">>)
    /\ UNCHANGED <<jig, crossed>> /\ JigFrame
\* An armed timer is not armed again, and the flag then not set.
Arm(t) ==
    /\ At(t, "arm") /\ jiggling' = TRUE
    /\ todo' = [todo EXCEPT ![t] = IF jiggling THEN Tail(Tail(@)) ELSE Tail(@)]
    /\ UNCHANGED <<s_jiggler_active, enabled, settings, stored, copy, astray, crossed>> /\ JigFrame
Disarm(t) ==
    /\ At(t, "disarm") /\ Done(t) /\ jiggling' = FALSE
    /\ UNCHANGED <<s_jiggler_active, enabled, settings, stored, copy, astray, crossed>> /\ JigFrame
\* The flag, and the callback of main.c.
Flag(t, on) ==
    /\ At(t, IF on THEN "on" ELSE "off") /\ enabled' = on
    /\ s_jiggler_active' = on /\ Then(t, Apply) /\ Enter(t, TRUE)
    /\ UNCHANGED <<jiggling, settings, stored, copy, astray>> /\ JigFrame
Read(t) ==
    /\ At(t, "read") /\ Done(t) /\ copy' = [copy EXCEPT ![t] = stored]
    /\ UNCHANGED <<s_jiggler_active, enabled, jiggling, settings, stored, astray, crossed>> /\ JigFrame
\* Enabled is what the jiggler is now, but after a disable it is false.
\* A wrong hotkey: what was stored is stored again.
ModifyNot(t) ==
    /\ At(t, "modify") \/ At(t, "modify off")
    /\ Done(t) /\ UNCHANGED <<jig, crossed>> /\ JigFrame
Modify(t) ==
    /\ At(t, "modify") \/ At(t, "modify off")
    /\ Done(t) /\ copy' = [copy EXCEPT ![t].enabled = At(t, "modify") /\ enabled]
    /\ UNCHANGED <<s_jiggler_active, enabled, jiggling, settings, stored, astray, crossed>> /\ JigFrame
\* What storage_set_jiggler_config returns is not looked at.
Store(t) ==
    /\ At(t, "store") /\ Done(t)
    /\ \/ stored' = copy[t] /\ UNCHANGED astray
       \/ astray' = TRUE /\ UNCHANGED stored
    /\ UNCHANGED <<s_jiggler_active, enabled, jiggling, settings, copy, crossed>> /\ JigFrame

-----------------------------------------------------------------------------
Switches == {"enable", "disable", "toggle jiggler"}
LedStep(t) == \/ Stop(t) \/ Choose(t) \/ Start(t) \/ StopBoth(t) \/ ArmPulse(t) \/ Toggle(t)
              \/ Again(t) \/ BlinkOnce(t) \/ \E c \in {"blue", "white"} : Show(t, c)
JigStep(t) == \/ Configure(t) \/ Settings(t) \/ Arm(t) \/ Disarm(t) \/ Read(t) \/ Modify(t) \/ Store(t)
              \/ \E what \in Switches : Switch(t, what)
              \/ \E on \in BOOLEAN : Flag(t, on)
Timer == BlinkFires \/ PulseEnds
Answer == GetsAddress \/ ConnectFails
Handle == Disconnected \/ GotAddress

Next ==
    \/ \E t \in Tasks : LedStep(t) \/ JigStep(t)
    \/ Timer \/ LedOn \/ LedOff \/ Substituted \/ Answer \/ Outage \/ Handle \/ StartAp
    \/ \E pending \in BOOLEAN : SetFido2Pending(pending)
    \/ \E what \in Switches : Hotkey(what)
    \/ \E value \in {0, 1}, on \in BOOLEAN : Post(value, on)

Spec == Init /\ [][Next]_vars
\* Tasks run, timers fire, and the driver answers a connect.
FairSpec ==
    /\ Spec /\ \A t \in Tasks : WF_vars(LedStep(t) \/ JigStep(t))
    /\ WF_vars(BlinkFires) /\ SF_vars(PulseEnds) /\ WF_vars(Answer) /\ WF_vars(Handle)

-----------------------------------------------------------------------------
(* Properties.                                                               *)

Settled == \A t \in Tasks : Idle(t)

\* The table of README.md:338 and wifi_manager.c:122: once no task is at the LED and
\* no flash is under way it shows what has the highest priority, steadily or with the
\* blink running, unless two tasks changed it at once.
ShowsPriority ==
    Settled /\ ~pulse /\ ~crossed =>
        IF Wanted \in {"red", "green"} THEN blink /\ color = Wanted /\ shown \in {Wanted, "off"}
        ELSE ~blink /\ shown = Wanted

\* README.md:344, a substitution is a single flash: whatever crosses it, the LED
\* does not stay white.
FlashEnds == shown = "white" ~> shown # "white"

\* The blink is a timer that starts itself again: when the LED is left to blink it
\* goes on and off for ever, unless two tasks changed it at once.
BlinkGoesOn ==
    <>[](Wanted \in {"red", "green"} /\ ~crossed) => []<>(shown = "off") /\ []<>(shown # "off")

\* Once every event was handled the state is that of the radio, and the attempts are
\* used up before the station counts as lost: after an outage MAX_RETRY more.
StateFollows ==
    Settled /\ queue = <<>> =>
        /\ radio = "up" => s_state = "connected" /\ s_retry_count = 0
        /\ radio = "down" => s_state = "disconnected" /\ s_retry_count = MAX_RETRY

\* Hotkeys and POST /api/jiggler leave the jiggler and what is stored of it in step:
\* the timer runs when its flag is set, the LED knows it, and the configuration the
\* next start reads (hotkey.c:231) is the one that runs, whatever order they come in,
\* unless one came in the middle of the other or a store failed.
JigglerAsStored ==
    Settled => \/ /\ enabled = jiggling /\ enabled = s_jiggler_active
                  /\ stored = [enabled |-> enabled, settings |-> settings]
               \/ astray
=============================================================================
