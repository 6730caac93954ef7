------------------------------- MODULE Hotkey -------------------------------
(***************************************************************************)
(* The hotkey engine (components/hotkey) between a BLE keyboard and a USB   *)
(* host, with every other task that writes keyboard reports to that host.   *)
(*                                                                         *)
(*   engine    the BLE host task in hotkey_engine_process, one report at a  *)
(*             time, in the order the keyboard sent them                    *)
(*   typist    typing_task: types the queued substitutions                  *)
(*   httpd     the slot and jiggler handlers of web_ui.c, which store a     *)
(*             change and run hotkey_engine_reload                          *)
(*   injector  the jiggler timer and the MQTT task, which press and release *)
(*             a key of their own                                           *)
(*   keyboard  the person at the keyboard                                   *)
(*                                                                         *)
(* A step is a maximal stretch of code between two points at which another  *)
(* task can see or change the shared state.  The host is the keyboard state *)
(* and the consumer code of the last report it was sent.                    *)
(***************************************************************************)
EXTENDS HidReport, Sequences

CONSTANTS HOTKEY_SLOTS_MAX,   \* places in storage and in the slot table
          TYPE_QUEUE_LEN,     \* places in the typing queue
          SlotValues,         \* active slots the web UI may store
          Taps,               \* payload -> the key presses type_string makes of it
          EmptyText,          \* the payload of a zeroed slot
          JigConfigs,         \* jiggler configurations the web UI may store
          OutCombos,          \* combinations of the webhook and MQTT-out slots
          Injected,           \* injector task -> the keyboard state it presses
          InitSlots, InitJig, \* what storage holds at boot
          Mirrored,           \* the keyboard notifies each report twice
          MaxEvents,          \* bound: changes of the physical keyboard
          MaxEdits,           \* bound: edits through the web UI
          MaxInject,          \* bound: keys pressed by the injectors
          MaxLoss             \* bound: reports the USB stack fails to send

Index == 0 .. HOTKEY_SLOTS_MAX - 1
Payloads == DOMAIN Taps
Injectors == DOMAIN Injected

Slot == [active : BOOLEAN, consumer_code : Codes \cup {NoCode},
         modifiers : SUBSET ModKeys, keycode : Keys \cup {NoKey},
         type : {"text", "totp"}, payload : Payloads,
         match_mode : {0, 1}, replace_mode : {0, 1}]
ZeroSlot == [active |-> FALSE, consumer_code |-> NoCode, modifiers |-> {},
             keycode |-> NoKey, type |-> "text", payload |-> EmptyText,
             match_mode |-> 0, replace_mode |-> 0]
JigConfig == [on : Combo, off : Combo, enabled : BOOLEAN]
Job == [text : Payloads, restore_mods : SUBSET ModKeys]
NoJob == [text |-> EmptyText, restore_mods |-> {}]

ASSUME HotkeyAssumption ==
    /\ HOTKEY_SLOTS_MAX \in Nat /\ TYPE_QUEUE_LEN \in Nat
    /\ Taps \in [Payloads -> Seq(KeyboardState)] /\ EmptyText \in Payloads
    /\ SlotValues \subseteq Slot /\ \A s \in SlotValues : s.active
    /\ JigConfigs \subseteq JigConfig /\ InitJig \in JigConfigs
    /\ OutCombos \subseteq Combo
    /\ Injected \in [Injectors -> KeyboardState]
    /\ InitSlots \in [Index -> SlotValues \cup {ZeroSlot}]
    /\ Mirrored \in BOOLEAN
    /\ MaxEvents \in Nat /\ MaxEdits \in Nat /\ MaxInject \in Nat /\ MaxLoss \in Nat

VARIABLES
    phys,            \* keyboard keys that are physically down
    phys_cc,         \* media key that is physically down
    inbox,           \* reports the BLE stack has received and not yet delivered
    epc, cur,        \* engine: where it is, the report it processes
    slot_i,          \* engine: index of the slot loop
    s_last_report,   \* last report that was not dropped
    recent,          \* ... and it is less than 100 ms old
    s_had_consumer,  \* a consumer code was sent and not yet cleared
    s_slots, s_slot_count, s_jig,      \* the tables the engine matches against
    s_type_queue, s_typing,            \* shared with the typist
    tpc, job, tap,   \* typist: where it is, its job, the index of the next tap
    rpc, load_i,     \* httpd: where it is in hotkey_engine_reload, its loop index
    nvs, nvs_jig,    \* storage: the slots and the jiggler configuration
    jig_enabled,     \* the jiggler timer runs
    inj,             \* injectors: "idle" or "held"
    host, host_cc,   \* the host: keyboard state and consumer code
    events, edits, injections, losses,  \* bounded counters
    intrusions,      \* history: engine reports sent during the current typing
    overlap,         \* history: a reload overlapped the processing of cur
    taken            \* history: the first copy of cur's press was not dropped

keyboardVars == <<phys, phys_cc, inbox, events>>
engineVars == <<epc, cur, slot_i, s_last_report, recent, s_had_consumer, taken>>
tableVars == <<s_slots, s_slot_count, s_jig>>
typistVars == <<s_typing, tpc, job, tap>>
webVars == <<rpc, load_i, nvs, nvs_jig, edits>>
injVars == <<inj, injections>>
hostVars == <<host, host_cc, losses>>
vars == <<keyboardVars, engineVars, tableVars, s_type_queue, typistVars, webVars,
          jig_enabled, injVars, hostVars, intrusions, overlap>>

NoReport == ConsumerReport(NoCode)
NoCombo == [mod |-> {}, key |-> NoKey]

\* hotkey_engine_init has created the queue and the typist and is about to load
\* the table (line 84).  app_main starts the jiggler, MQTT and httpd only after
\* it; a keyboard needs seconds to connect, so its first report comes later too.
BootLoad == rpc # "idle" /\ edits = 0
Init ==
    /\ phys = Released /\ phys_cc = NoCode /\ inbox = <<>>
    /\ epc = "idle" /\ cur = [r |-> NoReport, copy |-> FALSE] /\ slot_i = 0
    /\ s_last_report = NoReport /\ recent = FALSE /\ s_had_consumer = FALSE
    /\ nvs = InitSlots /\ nvs_jig = InitJig
    /\ s_slot_count = 0 /\ s_slots = [n \in Index |-> ZeroSlot]
    /\ s_jig = [on |-> NoCombo, off |-> NoCombo]
    /\ jig_enabled = InitJig.enabled
    /\ s_type_queue = <<>> /\ s_typing = FALSE
    /\ tpc = "wait" /\ job = NoJob /\ tap = 1
    /\ rpc = "begin" /\ load_i = 0
    /\ inj = [t \in Injectors |-> "idle"]
    /\ host = Released /\ host_cc = NoCode
    /\ events = 0 /\ edits = 0 /\ injections = 0 /\ losses = 0
    /\ intrusions = 0 /\ overlap = FALSE /\ taken = FALSE

-----------------------------------------------------------------------------
(* The USB keyboard endpoint: a report is queued for the host, or given up   *)
(* after three attempts (kbd_report).                                        *)
SendReport(k) ==
    \/ host' = k /\ UNCHANGED losses
    \/ losses < MaxLoss /\ losses' = losses + 1 /\ UNCHANGED host
ReportQueued == UNCHANGED losses
SendConsumer(c) ==
    \/ host_cc' = c /\ UNCHANGED losses
    \/ losses < MaxLoss /\ losses' = losses + 1 /\ UNCHANGED host_cc

-----------------------------------------------------------------------------
(* The keyboard.  Each change is one report, or two identical ones on a      *)
(* keyboard that notifies a press on two Input Report characteristics.       *)
Notify(r) ==
    LET copies == IF Mirrored THEN <<[r |-> r, copy |-> FALSE], [r |-> r, copy |-> TRUE]>>
                              ELSE <<[r |-> r, copy |-> FALSE]>>
    IN inbox' = inbox \o copies

KeyChange ==
    /\ ~BootLoad /\ events < MaxEvents
    /\ \E k \in KeyboardState \ {phys} :
          phys' = k /\ Notify(KeyboardReport(k))
    /\ events' = events + 1
    /\ UNCHANGED <<phys_cc, engineVars, tableVars, s_type_queue, typistVars, webVars,
                   jig_enabled, injVars, hostVars, intrusions, overlap>>

MediaKeyChange ==
    /\ ~BootLoad /\ events < MaxEvents
    /\ \E c \in Codes \cup {NoCode} :
          c # phys_cc /\ phys_cc' = c /\ Notify(ConsumerReport(c))
    /\ events' = events + 1
    /\ UNCHANGED <<phys, engineVars, tableVars, s_type_queue, typistVars, webVars,
                   jig_enabled, injVars, hostVars, intrusions, overlap>>

CopyDue == inbox # <<>> /\ Head(inbox).copy

\* 100 ms pass.  The two copies of a press are a few milliseconds apart.
WindowPasses ==
    /\ recent
    /\ ~CopyDue
    /\ recent' = FALSE
    /\ UNCHANGED <<keyboardVars, epc, cur, slot_i, s_last_report, s_had_consumer, taken,
                   tableVars, s_type_queue, typistVars, webVars,
                   jig_enabled, injVars, hostVars, intrusions, overlap>>

-----------------------------------------------------------------------------
(* The engine: hotkey_engine_process.                                        *)

\* Two wrong entry checks: without line 200, and without lines 205-208.
DroppedNotWhenTyping(entry) == recent /\ entry.r = s_last_report
DroppedNoDuplicates(entry) == s_typing
Dropped(entry) == s_typing \/ (recent /\ entry.r = s_last_report)

\* Lines 200-208: muted while a substitution is typed, or a duplicate.
EnterDrop ==
    /\ epc = "idle" /\ inbox # <<>>
    /\ Dropped(Head(inbox))
    /\ inbox' = Tail(inbox)
    /\ taken' = IF Head(inbox).copy THEN taken ELSE FALSE
    /\ UNCHANGED <<phys, phys_cc, events, epc, cur, slot_i, s_last_report, recent,
                   s_had_consumer, tableVars, s_type_queue, typistVars, webVars,
                   jig_enabled, injVars, hostVars, intrusions, overlap>>

EnterAccept ==
    /\ epc = "idle" /\ inbox # <<>>
    /\ ~Dropped(Head(inbox))
    /\ inbox' = Tail(inbox)
    /\ cur' = Head(inbox)
    /\ s_last_report' = Head(inbox).r /\ recent' = TRUE
    /\ epc' = IF IsAllZero(Head(inbox).r) THEN "send" ELSE "dispatch"
    /\ taken' = IF Head(inbox).copy THEN taken ELSE TRUE
    /\ overlap' = (rpc # "idle")
    /\ UNCHANGED <<phys, phys_cc, events, slot_i, s_had_consumer, tableVars, s_type_queue,
                   typistVars, webVars, jig_enabled, injVars, hostVars, intrusions>>

\* Lines 223-247.  With no off combination the on combination toggles.
JigglerHotkey ==
    LET on == KbComboMatches(cur.r, s_jig.on)
        off == KbComboMatches(cur.r, s_jig.off)
    IN
    /\ epc = "dispatch" /\ (on \/ off)
    /\ jig_enabled' = (on /\ (s_jig.off.key = NoKey => ~jig_enabled))
    /\ nvs_jig' = [nvs_jig EXCEPT !.enabled = jig_enabled']
    /\ epc' = "idle"
    /\ UNCHANGED <<keyboardVars, cur, slot_i, s_last_report, recent, s_had_consumer, taken,
                   tableVars, s_type_queue, typistVars, rpc, load_i, nvs, edits,
                   injVars, hostVars, intrusions, overlap>>

JigglerMatches == KbComboMatches(cur.r, s_jig.on) \/ KbComboMatches(cur.r, s_jig.off)
OutMatches == \E c \in OutCombos : KbComboMatches(cur.r, c)

\* Lines 249-256: a webhook or MQTT slot takes the report.
OutDispatch ==
    /\ epc = "dispatch" /\ ~JigglerMatches
    /\ OutMatches
    /\ epc' = "idle"
    /\ UNCHANGED <<keyboardVars, cur, slot_i, s_last_report, recent, s_had_consumer, taken,
                   tableVars, s_type_queue, typistVars, webVars,
                   jig_enabled, injVars, hostVars, intrusions, overlap>>

\* A wrong loop start.
StartScanAtOne ==
    /\ epc = "dispatch" /\ ~JigglerMatches
    /\ epc' = "scan" /\ slot_i' = 1
    /\ UNCHANGED <<keyboardVars, cur, s_last_report, recent, s_had_consumer, taken,
                   tableVars, s_type_queue, typistVars, webVars,
                   jig_enabled, injVars, hostVars, intrusions, overlap>>

\* No such slot, or it is disabled or its broker is not connected.
StartScan ==
    /\ epc = "dispatch" /\ ~JigglerMatches
    /\ epc' = "scan" /\ slot_i' = 0
    /\ UNCHANGED <<keyboardVars, cur, s_last_report, recent, s_had_consumer, taken,
                   tableVars, s_type_queue, typistVars, webVars,
                   jig_enabled, injVars, hostVars, intrusions, overlap>>

\* Lines 258-259, one slot at a time: the count and the slots are read while
\* httpd may be rewriting them.
ScanSlot ==
    /\ epc = "scan" /\ slot_i < s_slot_count
    /\ IF ReportMatches(cur.r, s_slots[slot_i])
       THEN epc' = "fire" /\ UNCHANGED slot_i
       ELSE slot_i' = slot_i + 1 /\ UNCHANGED epc
    /\ UNCHANGED <<keyboardVars, cur, s_last_report, recent, s_had_consumer, taken,
                   tableVars, s_type_queue, typistVars, webVars,
                   jig_enabled, injVars, hostVars, intrusions, overlap>>

ScanEnd ==
    /\ epc = "scan" /\ slot_i >= s_slot_count
    /\ epc' = "send"
    /\ UNCHANGED <<keyboardVars, cur, slot_i, s_last_report, recent, s_had_consumer, taken,
                   tableVars, s_type_queue, typistVars, webVars,
                   jig_enabled, injVars, hostVars, intrusions, overlap>>

\* A wrong fire_substitution: it does not notice that the queue is full.
FireUnbounded ==
    /\ epc = "fire"
    /\ s_type_queue' = Append(s_type_queue, [text |-> s_slots[slot_i].payload,
                                             restore_mods |-> {}])
    /\ epc' = "idle"
    /\ UNCHANGED <<keyboardVars, cur, slot_i, s_last_report, recent, s_had_consumer, taken,
                   tableVars, typistVars, webVars,
                   jig_enabled, injVars, hostVars, intrusions, overlap>>

\* fire_substitution.  A full queue loses the job: the result of xQueueSend is
\* not looked at.  A TOTP code cannot be made before the clock is set.
RestoreMods(s) == IF s.replace_mode = 1 THEN cur.r.mod ELSE {}
SlotJob(s) == [text |-> s.payload, restore_mods |-> RestoreMods(s)]
Fire ==
    /\ epc = "fire"
    /\ LET s == s_slots[slot_i] IN
          \/ s_type_queue' = IF Len(s_type_queue) < TYPE_QUEUE_LEN
                             THEN Append(s_type_queue, SlotJob(s)) ELSE s_type_queue
          \/ s.type = "totp" /\ UNCHANGED s_type_queue
    /\ epc' = "idle"
    /\ UNCHANGED <<keyboardVars, cur, slot_i, s_last_report, recent, s_had_consumer, taken,
                   tableVars, typistVars, webVars,
                   jig_enabled, injVars, hostVars, intrusions, overlap>>

\* Lines 212-214 and 264-267: the keyboard report goes out.
ForwardKeyboard ==
    /\ epc = "send" /\ cur.r.cc = NoCode
    /\ SendReport(KeyboardPart(cur.r))
    /\ intrusions' = IF s_typing THEN intrusions + 1 ELSE intrusions
    /\ epc' = IF s_had_consumer THEN "consumer" ELSE "idle"
    /\ UNCHANGED <<keyboardVars, cur, slot_i, s_last_report, recent, s_had_consumer, taken,
                   tableVars, s_type_queue, typistVars, webVars,
                   jig_enabled, injVars, host_cc, overlap>>

ForwardConsumer ==
    /\ epc = "send" /\ cur.r.cc # NoCode
    /\ SendConsumer(cur.r.cc)
    /\ s_had_consumer' = TRUE
    /\ epc' = "idle"
    /\ UNCHANGED <<keyboardVars, cur, slot_i, s_last_report, recent, taken,
                   tableVars, s_type_queue, typistVars, webVars,
                   jig_enabled, injVars, host, intrusions, overlap>>

ReleaseConsumer ==
    /\ epc = "consumer"
    /\ SendConsumer(NoCode)
    /\ s_had_consumer' = FALSE
    /\ epc' = "idle"
    /\ UNCHANGED <<keyboardVars, cur, slot_i, s_last_report, recent, taken,
                   tableVars, s_type_queue, typistVars, webVars,
                   jig_enabled, injVars, host, intrusions, overlap>>

Engine == \/ EnterDrop \/ EnterAccept \/ JigglerHotkey \/ OutDispatch \/ StartScan
          \/ ScanSlot \/ ScanEnd \/ Fire
          \/ ForwardKeyboard \/ ForwardConsumer \/ ReleaseConsumer

-----------------------------------------------------------------------------
(* The typist: typing_task and the skeleton of usb_hid_device_type_string.   *)

TypistFrame == UNCHANGED <<keyboardVars, engineVars, tableVars, webVars, jig_enabled,
                           injVars, host_cc, overlap>>

TypistReceive ==
    /\ tpc = "wait" /\ s_type_queue # <<>>
    /\ job' = Head(s_type_queue) /\ s_type_queue' = Tail(s_type_queue)
    /\ tpc' = "mark"
    /\ TypistFrame /\ UNCHANGED <<s_typing, tap, host, losses, intrusions>>

TypistMark ==
    /\ tpc = "mark"
    /\ s_typing' = TRUE /\ tpc' = "clear" /\ intrusions' = 0
    /\ TypistFrame /\ UNCHANGED <<s_type_queue, job, tap, host, losses>>

TypistClear ==
    /\ tpc = "clear"
    /\ SendReport(Released)
    /\ tpc' = "type" /\ tap' = 1
    /\ TypistFrame /\ UNCHANGED <<s_type_queue, s_typing, job, intrusions>>

Text == Taps[job.text]

\* tap_key: down, then up with the modifier still held.  A report that cannot
\* be sent ends the text.
TypistKeyDown ==
    /\ tpc = "type" /\ tap <= Len(Text)
    /\ SendReport(Text[tap])
    /\ tpc' = IF ReportQueued THEN "up" ELSE "final"
    /\ TypistFrame /\ UNCHANGED <<s_type_queue, s_typing, job, tap, intrusions>>

\* A wrong error path: the task goes back to the queue at once.
TypistKeyUpReturnsEarly ==
    /\ tpc = "up"
    /\ SendReport([Text[tap] EXCEPT !.keys = {}])
    /\ tpc' = IF ReportQueued THEN "type" ELSE "wait"
    /\ tap' = IF ReportQueued THEN tap + 1 ELSE tap
    /\ TypistFrame /\ UNCHANGED <<s_type_queue, s_typing, job, intrusions>>

TypistKeyUp ==
    /\ tpc = "up"
    /\ SendReport([Text[tap] EXCEPT !.keys = {}])
    /\ tpc' = IF ReportQueued THEN "type" ELSE "final"
    /\ tap' = IF ReportQueued THEN tap + 1 ELSE tap
    /\ TypistFrame /\ UNCHANGED <<s_type_queue, s_typing, job, intrusions>>

TypistFinalRelease ==
    /\ tpc = "final" \/ (tpc = "type" /\ tap > Len(Text))
    /\ SendReport(Released)
    /\ tpc' = IF job.restore_mods # {} THEN "restore" ELSE "done"
    /\ TypistFrame /\ UNCHANGED <<s_type_queue, s_typing, job, tap, intrusions>>

TypistRestore ==
    /\ tpc = "restore"
    /\ SendReport([mod |-> job.restore_mods, keys |-> {}])
    /\ tpc' = "done"
    /\ TypistFrame /\ UNCHANGED <<s_type_queue, s_typing, job, tap, intrusions>>

TypistDone ==
    /\ tpc = "done"
    /\ s_typing' = FALSE /\ tpc' = "wait"
    /\ TypistFrame /\ UNCHANGED <<s_type_queue, job, tap, host, losses, intrusions>>

Typist == \/ TypistReceive \/ TypistMark \/ TypistClear \/ TypistKeyDown \/ TypistKeyUp
          \/ TypistFinalRelease \/ TypistRestore \/ TypistDone

-----------------------------------------------------------------------------
(* httpd: one handler at a time.  A handler stores its change and runs        *)
(* hotkey_engine_reload, which rebuilds the table in place.                   *)

WebFrame == UNCHANGED <<keyboardVars, engineVars, s_type_queue, typistVars, injVars,
                        hostVars, intrusions>>

\* PUT and DELETE /api/slots/{n}; storage has no slot where nothing is active.
StoreSlot ==
    /\ rpc = "idle" /\ edits < MaxEdits
    /\ \E n \in Index, s \in SlotValues \cup {ZeroSlot} : nvs' = [nvs EXCEPT ![n] = s]
    /\ rpc' = "begin" /\ edits' = edits + 1 /\ overlap' = TRUE
    /\ WebFrame /\ UNCHANGED <<tableVars, load_i, nvs_jig, jig_enabled>>

\* POST /api/jiggler: store, configure, start or stop the timer.
StoreJiggler ==
    /\ rpc = "idle" /\ edits < MaxEdits
    /\ nvs_jig' \in JigConfigs /\ jig_enabled' = nvs_jig'.enabled
    /\ rpc' = "begin" /\ edits' = edits + 1 /\ overlap' = TRUE
    /\ WebFrame /\ UNCHANGED <<tableVars, load_i, nvs>>

ReloadBegin ==
    /\ rpc = "begin"
    /\ s_slot_count' = 0 /\ load_i' = 0 /\ rpc' = "read"
    /\ WebFrame /\ UNCHANGED <<s_slots, s_jig, nvs, nvs_jig, edits, jig_enabled, overlap>>

ReloadRead ==
    /\ rpc = "read" /\ load_i < HOTKEY_SLOTS_MAX
    /\ IF nvs[load_i].active THEN rpc' = "count" /\ UNCHANGED load_i
                             ELSE load_i' = load_i + 1 /\ UNCHANGED rpc
    /\ WebFrame /\ UNCHANGED <<tableVars, nvs, nvs_jig, edits, jig_enabled, overlap>>

\* s_slots[s_slot_count++] = slot is not atomic.  The count may become visible
\* first; the copy runs upwards, the word with the trigger before the rest.
ReloadCount ==
    /\ rpc = "count"
    /\ s_slot_count' = s_slot_count + 1 /\ rpc' = "head"
    /\ WebFrame /\ UNCHANGED <<s_slots, s_jig, load_i, nvs, nvs_jig, edits, jig_enabled, overlap>>

ReloadHead ==
    /\ rpc = "head"
    /\ s_slots' = [s_slots EXCEPT ![s_slot_count - 1] =
                      [nvs[load_i] EXCEPT !.active = @, !.type = s_slots[s_slot_count - 1].type,
                          !.payload = s_slots[s_slot_count - 1].payload,
                          !.match_mode = s_slots[s_slot_count - 1].match_mode,
                          !.replace_mode = s_slots[s_slot_count - 1].replace_mode]]
    /\ rpc' = "body"
    /\ WebFrame /\ UNCHANGED <<s_slot_count, s_jig, load_i, nvs, nvs_jig, edits, jig_enabled, overlap>>

ReloadBody ==
    /\ rpc = "body"
    /\ s_slots' = [s_slots EXCEPT ![s_slot_count - 1] = nvs[load_i]]
    /\ load_i' = load_i + 1 /\ rpc' = "read"
    /\ WebFrame /\ UNCHANGED <<s_slot_count, s_jig, nvs, nvs_jig, edits, jig_enabled, overlap>>

ReloadJiggler ==
    /\ rpc = "read" /\ load_i = HOTKEY_SLOTS_MAX
    /\ s_jig' = [on |-> nvs_jig.on, off |-> nvs_jig.off]
    /\ rpc' = "idle"
    /\ WebFrame /\ UNCHANGED <<s_slots, s_slot_count, load_i, nvs, nvs_jig, edits,
                               jig_enabled, overlap>>

Reload == \/ ReloadBegin \/ ReloadRead \/ ReloadCount \/ ReloadHead \/ ReloadBody
          \/ ReloadJiggler

-----------------------------------------------------------------------------
(* The injectors: jiggler_timer_cb and handle_incoming of mqtt_mgr.c.  Both   *)
(* press and release a key with no regard to s_typing.                       *)

InjectorFrame == UNCHANGED <<keyboardVars, engineVars, tableVars, s_type_queue, typistVars,
                             webVars, jig_enabled, host_cc, intrusions, overlap>>

InjectPress(t) ==
    /\ ~BootLoad /\ inj[t] = "idle" /\ injections < MaxInject
    /\ t = "jiggler" => jig_enabled
    /\ SendReport(Injected[t])
    /\ inj' = [inj EXCEPT ![t] = "held"] /\ injections' = injections + 1
    /\ InjectorFrame

\* A wrong timer callback: the release is left to the next report.
InjectReleaseSkipped(t) ==
    /\ inj[t] = "held"
    /\ UNCHANGED <<host, losses>>
    /\ inj' = [inj EXCEPT ![t] = "idle"]
    /\ InjectorFrame /\ UNCHANGED injections

InjectRelease(t) ==
    /\ inj[t] = "held"
    /\ SendReport(Released)
    /\ inj' = [inj EXCEPT ![t] = "idle"]
    /\ InjectorFrame /\ UNCHANGED injections

-----------------------------------------------------------------------------
Keyboard == KeyChange \/ MediaKeyChange \/ WindowPasses
Web == StoreSlot \/ StoreJiggler \/ Reload
Next == \/ Keyboard \/ Engine \/ Typist \/ Web
        \/ \E t \in Injectors : InjectPress(t) \/ InjectRelease(t)

\* Every task runs again and again; nobody has to press a key or edit a slot.
Fairness == /\ WF_vars(Engine) /\ WF_vars(Typist) /\ WF_vars(Reload)
            /\ \A t \in Injectors : WF_vars(InjectRelease(t))
Spec == Init /\ [][Next]_vars
FairSpec == Spec /\ Fairness

-----------------------------------------------------------------------------
(* Properties.                                                               *)

Entry == [r : Report, copy : BOOLEAN]

KeyboardTypeOK == /\ phys \in KeyboardState /\ phys_cc \in Codes \cup {NoCode}
                  /\ inbox \in Seq(Entry) /\ events \in Nat
EngineTypeOK == /\ epc \in {"idle", "dispatch", "scan", "fire", "send", "consumer"}
                /\ cur \in Entry /\ slot_i \in Nat
                /\ s_last_report \in Report /\ recent \in BOOLEAN
                /\ s_had_consumer \in BOOLEAN /\ taken \in BOOLEAN
TableTypeOK == /\ s_slots \in [Index -> Slot] /\ s_slot_count \in 0 .. HOTKEY_SLOTS_MAX
               /\ s_jig \in [on : Combo, off : Combo]
QueueTypeOK == s_type_queue \in Seq(Job) /\ Len(s_type_queue) <= TYPE_QUEUE_LEN
TypistTypeOK == /\ tpc \in {"wait", "mark", "clear", "type", "up", "final", "restore", "done"}
                /\ s_typing \in BOOLEAN /\ job \in Job /\ tap \in Nat \ {0}
WebTypeOK == /\ rpc \in {"idle", "begin", "read", "count", "head", "body"}
             /\ load_i \in 0 .. HOTKEY_SLOTS_MAX
             /\ nvs \in [Index -> Slot] /\ nvs_jig \in JigConfig /\ edits \in Nat
InjectorTypeOK == /\ jig_enabled \in BOOLEAN /\ inj \in [Injectors -> {"idle", "held"}]
                  /\ injections \in Nat
HostTypeOK == host \in KeyboardState /\ host_cc \in Codes \cup {NoCode} /\ losses \in Nat
HistoryTypeOK == intrusions \in Nat /\ overlap \in BOOLEAN

\* Every variable holds a value of its C type; an index stays inside its table
\* and the typing queue inside its length, whatever the web UI reloads meanwhile.
TypeOK == /\ KeyboardTypeOK /\ EngineTypeOK /\ TableTypeOK /\ QueueTypeOK /\ TypistTypeOK
          /\ WebTypeOK /\ InjectorTypeOK /\ HostTypeOK /\ HistoryTypeOK

\* Nobody has anything left to send.
Quiet == /\ inbox = <<>> /\ epc = "idle"
         /\ tpc = "wait" /\ s_type_queue = <<>>
         /\ \A t \in Injectors : inj[t] = "idle"

\* Once the keyboard is released and everything that was pressed, typed or
\* injected has been dealt with, the host has no key down: whatever order the
\* four writers took, and although releases are thrown away while a substitution
\* is typed.  Only modifiers that the last substitution put back on purpose may
\* still be down.  Not promised after the USB stack gave up on a report, nor
\* when a report that was already past the s_typing check went out during the
\* typing (see AtMostOneIntrusion).
NoStuckKeys ==
    Quiet /\ phys = Released /\ losses = 0 /\ intrusions = 0 =>
        host.keys = {} /\ host.mod \in {{}, job.restore_mods}

\* A media key that the host believes is down is known to the engine, which
\* will release it with the next keyboard report it forwards.
ConsumerReleaseOwed ==
    losses = 0 /\ host_cc # NoCode => s_had_consumer

\* The engine checks s_typing once, at its entry.  The damage is bounded: at
\* most one report of the engine reaches the host while a text is typed.
AtMostOneIntrusion == s_typing => intrusions <= 1

\* The places of storage with an active slot that report r triggers.
StoredMatching(r) == {n \in Index : nvs[n].active /\ ReportMatches(r, nvs[n])}

\* The engine decides by what is stored unless a reload overlapped it: a report
\* is forwarded raw only if no stored slot matches it, and what is put on the
\* typing queue is the first stored slot that does.
DecidesByStorage ==
    [][ ~overlap =>
        /\ epc = "scan" /\ epc' = "send" => StoredMatching(cur.r) = {}
        /\ epc = "fire" /\ epc' = "idle" =>
              \E n \in StoredMatching(cur.r) :
                 /\ \A o \in StoredMatching(cur.r) : n <= o
                 /\ s_type_queue' \in {s_type_queue, Append(s_type_queue, SlotJob(nvs[n]))}
      ]_vars

\* A keyboard that notifies every press twice still gets one substitution per
\* press: the second copy fires only if the first was thrown away.
MirroredPressFiresOnce == epc = "fire" /\ cur.copy => ~taken

\* The keyboard is muted while a text is typed, and never for good, whatever
\* fails: also when a report cannot be sent in the middle of the text.
TypingEnds == s_typing ~> ~s_typing
=============================================================================
