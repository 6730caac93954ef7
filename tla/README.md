# Bluepass in TLA+

Specifications of the Bluepass firmware (`src/`): an ESP32-S3 that sits between a
wireless or wired keyboard and a computer, forwards what is typed, replaces key
combinations by texts and one-time codes, and is a FIDO2 security key for the same
computer. The modules are written from the C code; source paths below are relative
to `src/`.

## 1. The system

| component | state it keeps | operations | hard behaviour |
|---|---|---|---|
| hotkey engine, `components/hotkey` | slot table and count, last report and its time, media key flag, typing queue, `s_typing` | `hotkey_engine_process`, `fire_substitution`, `typing_task`, `hotkey_engine_reload` | three tasks share the statics without a lock; the table is rebuilt in place; reports are thrown away while a text is typed |
| USB keyboard, `components/usb_hid_device` | host LEDs, endpoint | send a report, `type_string` in four modes, FIDO2 endpoint | reports are given up after three attempts; Num Lock is toggled and toggled back |
| BLE keyboard side, `components/ble_hid_device` | connection handle, advertising | the same operations towards a BLE host | connection comes and goes while a text is typed |
| BLE host, `components/ble_hid_host` | peer, generation of the discovery, report, subscription and poll lists, reconnect timer | scan, connect, discover, subscribe, poll, reconnect | callbacks of a discovery that arrive during the next; requests that the stack refuses; a connect that is cancelled and ends later |
| USB host, `components/usb_hid_host` | one flag | mount, unmount, report | compiled out |
| FIDO2, `components/fido2` | CTAPHID assembly, user presence flag and semaphore, PIN token, diagnostics | CTAPHID packets, makeCredential, getAssertion, clientPIN, reset | a command waits for a person for seconds; four other tasks touch its state and its storage |
| storage, `components/storage` | NVS: slots, jiggler, Wi-Fi, MQTT, webhooks, FIDO2 | getters and setters | each call is atomic, a read and a later write are not |
| web interface, `components/web_ui` | server handle, `s_stopping`, idle timer, log sockets | REST handlers, start, stop, key log | a stop from three tasks and a start from a fourth; a list that two tasks compact |
| firmware update, `components/web_ui`, `main/main.c` | two slots, the entry to boot, `s_ota_state` | upload, fetch, restart, mark valid, roll back | power cuts; two updates at once; a firmware that aborts |
| jiggler, `components/jiggler` | timer, enabled flag | enable, disable, toggle, timer callback | writes to the host in the middle of a text |
| MQTT and webhooks, `components/mqtt_mgr`, `components/webhook` | client, table of slots | incoming key, outgoing combination | same |
| Wi-Fi manager, `components/wifi_manager` | station state, retries, status LED, two timers | connect, access point, lights by priority, blink, flash | six tasks at one LED; a blink callback under way |
| TOTP, web page | | | not modelled: a pure computation, a browser page |
| main, `main/main.c` | mode, button time | start-up, button, report callbacks | what a press means depends on a flag that another task clears |

Tasks: the NimBLE host task (reports), `typing_task`, `fido2_task`, the `btn_task`,
httpd, the `web_stop` and `ota_fetch` tasks, sys_evt, esp_timer (jiggler, reconnect,
poll, idle, blink), the MQTT task, TinyUSB. They share
statics and NVS, and have few locks; almost every property below is about what
survives that.

What makes the parts correct:

- hotkey: nothing stays pressed on the host; the keyboard is muted during a typing
  and not for good; a substitution is decided by the slots that are stored, once
  per press; no index leaves its table.
- FIDO2: one press, one operation; a relying party never sees a counter go back; an
  account has one resident key; the PIN is blocked after eight wrong attempts; a PIN
  token dies with its PIN.
- CTAPHID: what a command gets is what one channel sent, in full and in order.
- typing: the host reads the text that is stored, whatever the mode, and Num Lock is
  as it was.
- BLE host: the flag is the link; a known keyboard that is away is looked for; every
  input report of a keyboard that is called ready is listened to, and a key that was
  heard going down is heard going up.
- web interface: one stop at a time, an open server is watched by its idle timer, radio
  and LED follow the server, the list of log sockets is exact.
- firmware update: one whole image to boot at any time, trust only in what has come up,
  no settings lost to an update that failed.
- LED and jiggler: the LED shows what has the highest priority and goes on blinking; the
  jiggler runs as its flag and the stored configuration say.

## 2. Modules

| module | models | kind |
|---|---|---|
| `HidReport` | the report types and the comparisons of `hotkey.c` | operators |
| `Hotkey` | engine, typist, reload, jiggler, MQTT injection, one keyboard, one host | specification |
| `MCHotkey` | constants | instance for TLC |
| `HotkeyProofs` | three inductive invariants and six theorems | proofs |
| `Fido2` | CTAP2 commands, the wait for the user, passkey handlers, storage | specification |
| `MCFido2` | constants and the symmetry of users and PINs | instance for TLC |
| `Fido2Proofs` | inductive invariant and six theorems | proofs |
| `CtapHid` | clients, packet queue, assembly of messages by `fido2_task` | specification |
| `CtapChannel` | what a channel promises: in order, each message once | abstract specification |
| `MCCtapHid` | constants | instance for TLC |
| `CtapHidProofs` | inductive invariants, three theorems, and that `CtapHid` implements `CtapChannel` | proofs |
| `HidText` | UTF-8 decoder, code page 1252, key maps of `hid_text.c` | operators |
| `TypeString` | `type_string` over USB and BLE in four modes, a Windows host that reads it | specification |
| `MCTypeString` | the texts, encoded | instance for TLC |
| `TypeStringProofs` | inductive invariant and two theorems | proofs |
| `BleLink` | the link of `ble_hid_host.c` to a keyboard, with the NimBLE stack as environment | specification |
| `MCBleLink` | constants | instance for TLC |
| `BleGatt` | discovery, subscription, polling and notifications of `ble_hid_host.c`, with stack and keyboard as environment | specification |
| `MCBleGatt` | the services of five keyboards, the bounds | instance for TLC |
| `BleHostProofs` | inductive invariants of `BleLink` and of `BleGatt`, seven theorems | proofs |
| `WebUi` | start, stop, idle timer and log sockets of `web_ui.c`, with the button and httpd | specification |
| `MCWebUi` | the bounds | instance for TLC |
| `WebUiProofs` | inductive invariant and six theorems | proofs |
| `Ota` | firmware update in `web_ui.c` and `main.c`, with bootloader and power | specification |
| `MCOta` | constants | instance for TLC |
| `OtaProofs` | inductive invariant and five theorems | proofs |
| `StatusLed` | `wifi_manager.c` and `jiggler.c`: station, status LED, jiggler | specification |
| `MCStatusLed` | the bounds | instance for TLC |
| `StatusLedProofs` | three inductive invariants and three theorems | proofs |

`Hotkey` takes the typing of a text as a sequence of taps; `TypeString` is where those
taps come from. `Fido2` takes a command as a whole; `CtapHid` is where it comes from.
`CtapHid` implements `CtapChannel` under the identity on `sent` and `handed`. `BleLink`
says when a link is up, `BleGatt` what happens on it. `StatusLed` models the jiggler
hotkeys and `POST /api/jiggler` statement by statement, where `Hotkey` takes them as one
step and looks at the reports that the jiggler sends.

### Hotkey

One step is a stretch of code between two points at which another task can see or
change what it shares. `epc`, `tpc` and `rpc` are the places of the engine, the
typist and httpd:

- `hotkey_engine_process`: `EnterDrop` and `EnterAccept` are lines 200-212;
  `JigglerHotkey` 223-247; `OutDispatch` 249-256; `ScanSlot`, one slot at a time,
  `ScanEnd` and `Fire` 258-262; `ForwardKeyboard`, `ForwardConsumer` and
  `ReleaseConsumer` 264-281.
- `typing_task`: `TypistReceive`, `TypistMark` (the flag goes up one step after the
  job left the queue), `TypistClear`, the taps of `type_string`,
  `TypistFinalRelease`, `TypistRestore`, `TypistDone`. A payload is the sequence of
  its taps; a report that cannot be sent ends the text as in the code.
- `hotkey_engine_reload`: count to zero, then for each stored slot the test, the
  count, the head and the rest of the structure as separate steps, because the
  engine reads them meanwhile.
- The keyboard is the person: any change of the keys that are down. `Mirrored` is the
  keyboard that notifies each report on two characteristics, the reason for the
  100 ms filter; the window passes at any time, but not between the two copies.
- The host is the keyboard state and media key of the last report it was sent.

Data: keys, modifiers and media keys are model values; a report is a set of
modifiers and a set of keys (six-key roll-over is not reached). Slot labels and the
key log are left out; whether a one-time code can be made is a choice.

### Fido2

`fido2_task` executes one command at a time; `Accept` and the handler up to the first
effect are one step. A request that is refused without a change of state is no step.
The wait for the user presence is `BeginWait`, then `UpTaken` (the semaphore) or
`UpTimeout`, then `UpDone`, which lowers `s_up_pending`; a confirmer reads that flag
twice and gives the semaphore in three steps. Signing, the search for a resident key
slot, the PIN commands and the factory reset follow the calls of storage, each of
which is one step. The passkey handlers of httpd run at the same time. A master key
is its generation, a hash its PIN and how often it was hashed, a credential the key
it is sealed with and a number.

### CtapHid

A client writes the packets of one message after another (`ClientSend`, `HostWrite`);
`fido2_on_hid_rx` drops a packet when the queue is full. `fido2_task` takes a packet
in one step, with everything `ctaphid_process_pkt` does to it: `TooLong`, `InitPacket`,
`StrayPacket`, `WrongSequence`, `Continuation`, one per branch. A complete message is
executed until `DispatchReturns`, while packets go on arriving. Lengths count packets,
and every packet carries the number of its message, which no guard reads.

### TypeString

`NextChar` decodes a character and fills `items`, the reports that it needs, which
`SendItem` sends one by one and `SendFails` gives up; `EndText` and `EndPhase` are the
end of the function. `HidText` translates `hid_utf8_next`, `hid_cp1252_from_codepoint`
and the ASCII key maps. The host is external: its layout, Num Lock and the way it
composes a character while Alt is held are what the comments of `type_alt_numpad` and
`type_alt_hex` presuppose. Its LED report arrives some time after Num Lock changed. The
history variable `silent` marks a report that was lost where the code ignores the
result; `ready` says that the device's idea of Num Lock was right or did not matter.

### BleLink

`s_ctx` is the record of `ble_hid_host.c`. The host task (`OnSync`, `OnConnect`,
`OnConnectFailed`, `OnLinkEstab` and `StorePeer`, `OnLinkEstabFailed`,
`OnDisconnect`) takes the events of the stack in order. The timer callback is a test
(`TimerFires`) and a connect (`TimerConnect`). httpd executes one call at a time:
`Scan`; `ConnectCall`, `ConnectPeer`, `ConnectAttempt` and `ConnectAgain`, three
attempts as in the code; `DisconnectCall`, `DisconnectForget`, `DisconnectClear` and
`DisconnectTerminate`. `Restart` is a power cut; only the stored peer survives it.
The stack is external: one connection (`sdkconfig.defaults:16`), one scan or connect at
a time, events that are handled after they happened, and a cancelled connect that ends
later, with a failure or with a connection that came first.

### BleGatt

The host task runs the callbacks one after another, and one callback is one step:
`OnDiscSvcs`; `OnDiscChr`, once for each attribute, and `OnDiscChrsDone`; `OnDiscDsc`,
likewise, and `OnDiscDscsDone`; `OnReadReportRef`, `OnWriteCccd`, `OnPollRead`; and
`DiscoveryFails`, a search that ends with an error, which every callback ignores. Work
that a callback does before it returns (`OnDsc`, `Choose`, `SubscribeReport`, `AddPoll`,
`HidReady`) is a function from one record of the statics to the next, applied in the
order of the code. `PollTurn` and `PollRead` are the two halves of `poll_timer_cb`, between
which the lists may be cleared. `Connect`, `StartDiscovery` (also a second one on the same
link) and `Disconnect` come from the stack.

A keyboard is the sequence of its attributes. The stack is external: a pool of procedures
that are answered in order, and a refusal when it is full, which the code does not see. A
response holds `PAIRS` descriptors; the callbacks of one response follow each other, and
the next request of the search goes behind those that the callbacks have made (`upto` of a
procedure is the end of the response under way). The searches of services and of
characteristics are one procedure each.

History: `phase` is what became of the discovery, `broken` a request of it that found no
room or a search that failed, `disturbed` an error, a poll or an earlier discovery that met
it, `missed` a key whose release nobody could hear. `Misled` are the inputs without a Report
Reference before an output that has one. Generations do not repeat within the bounds:
a procedure ends with its link, so an old callback that meets its generation again needs
256 encryptions of one link while one request is under way.

### WebUi

`btn` is the place of the button task in `web_ui_start`, `async` that of each caller in
`web_ui_stop_async` (button, idle timer, a logout in httpd), `stop` that of each
`web_stop` task in `web_ui_stop`: a step is a statement, because the test of `s_server`,
the test and the setting of `s_stopping`, and the order in which the stop clears handle,
count, radio, LED and flag are the matter. `PushCheck` and `PushCompact` are the two
halves of an entry in `web_ui_push_key_event`; `SocketOpens` and `SocketCloses` are
`handler_ws` and `on_sock_close`. A short press that FIDO2 takes for a confirmation does
nothing here (`BtnTakes`), and the replies that poll, like the errors, leave the idle timer
alone (`RequestAnswered`). httpd is external: one request at a time, a stop that
waits for the request under way and closes the sockets, a handle that is free afterwards.
History: `overlapped` (two callers between test and mark), `crossed` (a start in the last
statements of a stop), `unstarted`, `unstopped` (what found no memory), `clashed` (the
list changed while it was walked), `dangling` (who used a freed handle).

### Ota

`AskUpload`, `UploadBegins`, and for the fetch `AskFetch`, which an update that is running
refuses, `FetchStarts` (the task sets the state and marks the firmware) and `FetchBegins`
(the connection), then for either `Writes` a block, `WriteFails`, `CutOff` (the connection
ends), `Received`, `Finish` (verify, choose the slot; either may fail), `Erase` (the
settings), `Restart`. A start is `Boot`, then `AppMainEnds` or
`AppMainAborts`; `PowerFails` may come at any step. The OTA library and the bootloader are
external: an image is written over what the slot held, a slot is accepted when it holds
one whole image, an entry that is still pending at the next start is rolled back. An
update is asked for only after `app_main` has ended, and `GET /api/ota/check`, which only
reads, is left out. History: `confirmed`, the slots whose firmware came up, and
`overlapped`, two updates at once.

### StatusLed

`todo` holds what each of six tasks has still to do of its function, so that
`led_apply`, the flash, the blink callback and the jiggler's functions interleave
statement by statement. `Disconnected`, `GotAddress` and `StartAp` are the event handler
and the access point; `LedOn` and `LedOff` the web light and the touch light; `Hotkey`
and `Post` the two sides of the jiggler, with `Read`, `Modify` and `Store`, which may fail,
for the configuration. `Init` is the end of `app_main`, with a station that is connected,
connecting or given up and the jiggler on or off as stored. Colours stand for duty cycles.
History: `crossed`, two tasks were at the LED since it was last set by one alone; `astray`,
the engine and httpd were at the jiggler at once, or a store failed.

All history variables (those named above; `fresh`, `overlap`, `raced` of Fido2, `ledger`,
`wrong`, `chosen`, `token_for` in Fido2 and BleLink; `intrusions`, `overlap`, `taken` in
Hotkey) only record what happened. The mapped code never reads them. Where a property
says "unless", it names such a variable, and section 6 says which fault it stands for.

## 3. Runs

| run | bounds | shows |
|---|---|---|
| `hotkey_typing` | 1 slot (modifiers kept), queue of 1, 4 key changes, 1 injected key, 1 lost report | `NoStuckKeys`, `AtMostOneIntrusion` |
| `hotkey_reload` | 2 slots, mirrored keyboard, 2 key changes, 1 edit of any slot | `TypeOK`, `MirroredPressFiresOnce`, `DecidesByStorage`, `TypingEnds` |
| `fido2_commands` | 2 resident keys, 2 retries, 2 users, 2 PINs, 3 commands, 1 handler, 3 presses | `OneKeyPerAccount`, `ApprovalsArePresses`, `BlockedAfterRetries`, `TokenIsCurrent`, `CountersIncrease` |
| `fido2_confirm` (violation) | same | `EachRequestConfirmed`, README.md:80 |
| `fido2_webpin` (violation) | same | `ChosenPinAccepted`, web_ui.c:1428 |
| `ctaphid_channels` | 2 channels, 2 and 1 messages of 1 to 4 packets, queue of 2, buffer of 3, fair task and host | `OneSender`, `WholeUnlessLost`, `InOrderOnce` (the refinement), `EveryMessageSettles` |
| `typestring_texts` | 10 texts (2 malformed), 2 typed in a row, 1 report that cannot be sent, both transports and layouts, all modes | `TypeOK`, `TypedAsStored`, `LeftClean` |
| `blelink_link` | 2 keyboards, 3 attempts, 3 calls, 2 failures, 1 power cut, fair tasks and stack | `ConnectedTracksLink`, `NeverStranded`, `Reconnects` |
| `gatt_reports` | 5 keyboards, 8 reports and 2 polls at most, pool of 4, 5 descriptors in a response; up to 2 links, 2 encryptions, 2 errors, 4 polls, 1 key, fair host task | `GattTypeOK`, `NoneForgotten`, `UndisturbedListens`, `KeyUpHeard`, `Discovers` |
| `webui_server` | 3 sockets, list of 2, 2 stop tasks; up to 2 short and 1 long press, 1 request, 1 logout, 1 failure, 3 sockets, 1 key event, fair tasks | `Supervised`, `LightsFollow`, `FreedOnce`, `ListExact`, `IdleCloses` |
| `ota_update` | 3 images (1 aborts) of 2 blocks, 2 fetch tasks, 2 updates, 2 faults, fair tasks | `BootsWhole`, `TrustedHasRun`, `EraseOnlyWithUpdate`, `ComesUp` |
| `led_status` | 1 retry; up to 1 each of outage, web light, touch, flash, hotkey, post; station up, coming or down, jiggler on or off at the start; fair tasks | `ShowsPriority`, `StateFollows`, `JigglerAsStored`, `FlashEnds`, `BlinkGoesOn` |

The type invariants of Fido2, CtapHid, BleLink, Ota and WebUi are proved (section 4) and not run again,
as are `ConsumerReleaseOwed` of Hotkey and `ConfirmedStays` of Ota; all seven held under TLC
before they were proved.

Why the bounds are enough. Two key changes press and release a combination; four press
it again while the first text is typed, with the queue full. Two places make a scan pass
one and match the next while a reload has reset the count, and make a table with a hole.
Three commands are a right or wrong PIN up to the block of two, or a registration, a
second one of the same account and an assertion; three presses leave one for a wait that
is over. Messages of 1 to 4 packets are one that fits the first packet, one as long as
the buffer, and one that does not fit; a queue of two is full while a command runs. A
second text starts with the LED report of the first still under way. Three calls are two
connects around a scan or a disconnect; two failures make a link go down and its
reconnection fail. The keyboards of `gatt_reports` are a usual one, one with two input
reports next to each other (the search for descriptors of the first meets those of the
second), one with two that are further apart, one whose media report must be polled, and
one with an input report without Report Reference; five descriptors are what a response
of the default ATT_MTU holds, and four procedures what `sdkconfig:678` sets. The usual
keyboard asks for more than four at once, so that every discovery of it has a refused
request: of it `UndisturbedListens` speaks, of the others `NoneForgotten` too. A list of
two sockets is full with a third one open. Two stop tasks are two callers that passed
the test together. Two blocks are an image that is half written, two updates one after
or inside another, two faults a cut off update and a power cut in the start that
follows. One retry is one attempt that fails and the one that is the last.

`gatt_reports`, `webui_server` and `led_status` bound several kinds of event. Their
instances give a set of budgets, each a scenario (requests that meet presses and failures;
a list that is walked while it changes), and a behaviour begins with one of them: the
states add up instead of multiplying. The keyboard may stop and the bounded counters run
out, so the runs do not check deadlock: the program waits for a person.

Fairness (`FairSpec` of Hotkey): every FreeRTOS task runs again and again, so the
engine, the typist, a reload that began and the release of an injected key are weakly
fair. Nobody has to press a key, edit a slot or inject one. In `CtapHid`, the task and a
client that began a message go on, and a command returns (the wait for the user times
out). In `BleLink`, the
tasks go on, a connect ends with a link or a failure, failures are bounded by `MaxDrops`
(the keyboard comes into range in the end), and a link that was told to end does.
Without these assumptions nothing could be promised of a radio.
In `BleGatt` the host task and the second half of the poll callback go on; nobody has to
press a key. In `WebUi` the tasks go on, the idle timer fires when it is armed, a request
is answered and a server that drains closes its sockets. In `Ota` the tasks go on and a
chip with power boots and runs `app_main` to its end or abort. In `StatusLed` tasks and
blink go on, a connect is answered and an event is handled; the end of a flash is strongly
fair, since other tasks stop and arm its timer again and esp_timer dispatches in the order
of expiry: each new flash is a press, and those are bounded.

## 4. Proofs

`HotkeyProofs` proves for every table size, queue length, set of keys, texts and
bounds, from `HotkeyAssumption` alone:

- `TypeCorrect`: `Spec => []TypeOK`;
- `IntrusionsBounded`: `Spec => []AtMostOneIntrusion`;
- `MediaKeyReleased`: `Spec => []ConsumerReleaseOwed`;
- `HostReleased`: `Spec => []NoStuckKeys`;
- `MirroredOnce`: `Spec => []MirroredPressFiresOnce`;
- `StorageDecided`: `Spec => DecidesByStorage`, an action property.

The first four follow from `Invariance`, the invariance of `HotkeyInv`, which TLC checked as an
invariant first. `TypeOK` is not inductive: that the count stays in the table needs
the reload's index to run ahead of the count, and that a slot that fires is in the
table needs a bound on the loop index that does not mention the count, which a reload
resets. `NoStuckKeys` needs the most: whenever the host has a key down, somebody is
still obliged to release it. The obligation moves from the keyboard (its last report
in the inbox is the release) to the engine (the release is the report in hand), to
the typist (its final release is still to come) or to the injector, and each action
hands it on or fulfils it.

`MirrorInv` carries the duplicate filter from the original to its copy: a copy in the
inbox comes right after its original (`CopiesFollow`), and while it is due the report the
filter remembers is the one it repeats and the window has not passed (`CopyIsDuplicate`).
A scan decides by the table, and `ScanInv` says what the table is: a reload at rest has
left a copy of the active slots in the order of storage, one in progress has copied those
below its index (`TableCopied`, an increasing map from places of the table to places of
storage); no scan without overlap meets a reload under way (`TableAtRest`); and no entry
before the index of the scan matches (`ScannedSoFar`). That the first match of the table
is the first match of storage is the lemma about such maps that the theorem rests on.

`Fido2Proofs` proves all that the run `fido2_commands` checks, for every number of resident
keys, retries, relying parties, users, PINs, confirmers and every bound, from
`Fido2Assumption` alone:

- `TypeCorrect`: `Spec => []TypeOK`;
- `PressesBoundApprovals`: `Spec => []ApprovalsArePresses`;
- `UniqueKeys`: `Spec => []OneKeyPerAccount`;
- `PinBlocked`: `Spec => []BlockedAfterRetries`;
- `TokenFollowsPin`: `Spec => []TokenIsCurrent`;
- `CountersGrow`: `Spec => CountersIncrease`, an action property.

The invariant `IInv` has one part for each, which TLC checked before. `Typed` adds to the
types what each place in the code relies on, for instance that a configuration copy
whose retry counter is to be decremented has not zero in it. `PressesAccounted`: the approvals,
the semaphore and the confirmers on their way are together no more than the presses.
`Keys`: none of the places that the search has passed holds the account. `RetriesInv`: unless
httpd and a PIN command or reset raced, they exclude one another, and wrong attempts plus
remaining ones never exceed the limit. `Token`: the token is that of the stored PIN but
between the change of the PIN and the call that invalidates the token. `Counters`: no ledger entry
of the current master key is above the stored counter, but between the zeroing of the
counter by a reset and the new master key.

`CtapHidProofs` proves for any number of channels, queue, buffer and lengths, from
`CtapHidAssumption` alone:

- `BufferSafe`: `Spec => []TypeOK`, of which the point is that `recv_len` never exceeds
  the buffer;
- `SingleSender`: `Spec => []OneSender`;
- `WholeMessages`: `Spec => []WholeUnlessLost`;
- `PromiseKept`: `Spec => InOrderOnce`, that is `CtapHid` implements `CtapChannel`.

The invariant `IInv` adds that a first packet has no sequence number, and that the
counters of an active assembly agree with its fragments and leave room for one more
while the task waits for a packet: without that `Continuation` could overrun.

For the refinement, `Ordered` has a part for each place on the way of a message (`OutInOrder`, `QueueInOrder`,
`AssemblyInOrder`, `HandedInOrder`): its numbers grow, and every message of the channel still
to begin is later than those before it. `WholeMessages` needs that nothing is missing
between two places: `Joined` says that a packet in the queue is followed by the rest of its
message, in the queue or still with its client (`QueueJoined`), and so is the message that
is assembled (`AssemblyJoined`), unless the channel lost a packet.

`TypeStringProofs` proves for every text (any bytes but zero, UTF-8 or not), layout,
transport and bound, from `TypeStringAssumption` alone:

- `TypeCorrect`: `Spec => []TypeOK`, of which the point is that `hid_utf8_next` never
  moves past the terminator;
- `NoTraceLeft`: `Spec => []LeftClean`.

The lemmas before them say what the conversions return: `NextInside` (a character ends inside
the text, and its code point has at most 21 bits) and `CharItemsType` (no character presses Num
Lock; over BLE the last report of one releases everything). `TypistInv` has a part for what
is left to be sent in each phase (`ListInv`), for the presses of Num Lock still to come,
which with the LED reports under way are at most two for a text (`LedInv`), and for the
host (`HostInv`): Num Lock goes with the phase, and its key is up whenever it is about to be
pressed. A key may well be down at that moment, the one whose release was given up; what
matters is that it is not Num Lock.

`BleHostProofs` proves of `BleLink`, for any number of peers, attempts and bounds `TypeCorrect`,
`FlagIsTheLink` (`Spec => []ConnectedTracksLink`) and `AlwaysWoken`
(`Spec => []NeverStranded`). Both speak of a moment when all events are handled. `LinkInv` says
what holds before: `Formed`, the events are of the kinds the stack makes; `NoScan`, no scan runs during a
connect of the user; `Follows`, the
flag is what the handled events say and the unhandled ones lead from there to the link;
`EndSeen`, a link that ended has its event in the queue; `Woken`, a known keyboard
without link has the timer, a call or callback under way, a connect of the stack, or an
event in the queue whose handler will start one. Each handler takes the first event away
and arms the timer itself, or leaves one that does.

The second half of `BleHostProofs` is about `BleGatt`. From `BleGattAssumption` alone, that is for
every table of attributes that begins with a value, every size of the response, the
pool and the lists, and every budget within 256 discoveries, it proves

- `GattTypesHold`: `Spec => []GattTypeOK`: no list outgrows its array, and no index that an
  answer or the timer brings back leaves its array;
- `NoInputForgotten`: `[]NoneForgotten`;
- `KeyUpIsHeard`: `[]KeyUpHeard`

of `GattSpec`. `NoneForgotten` speaks of the end of a discovery; `GattInv` says what holds on
the way. Of the current discovery there is no procedure (`Silent`), or one that lists the
reports (`Listing`), or a chain of procedures, each about one report (`Chained`). Chains may
run side by side, since every Report Reference that a search meets is read and every answer
goes on with the next report. So the chained mode rests on promises about the order of the
requests. `Behind`: when a procedure for a report is under way, the wanted reports before it
are in a list, or a write that will put them there is ahead of that procedure. `Searched`:
a search that has passed the reference of its own report has asked for it. `Answers`: where
the reference of an output is read for an input, one of an input was asked for before it.
`Skipped`: an input that was skipped as an output is settled all the same. `Ready`: once the
keyboard is called ready, every wanted report is in a list. All of them hold of the procedures from a place on, so
that a callback can be followed from the answer it takes (place 2 on) to the
requests it adds (`SubscribeKeeps`, `ChooseKeeps`, `OnDscKeeps`) to the pool it leaves
(`Shifted`); a request that finds no room sets `broken`, and everything but the sizes is
excused.
`Generations` keeps the procedures of an earlier discovery from being taken for those of
this one. `KeyUpHeard` follows from `NoneForgotten`: a key that goes up after a complete
discovery, and that is not polled, is one of a listed report.

`OtaProofs` proves for any number of images, blocks, fetch tasks, updates and faults
`TypeCorrect`, `AlwaysBootable` (`BootsWhole`), `TrustIsEarned` (`TrustedHasRun`),
`SettingsSurvive` (`EraseOnlyWithUpdate`) and `NoNeedlessRollback` (`ConfirmedStays`).
`OtaInv` adds to the types: `Powered`, without power nobody works; `Alone`, one update at a
time unless they overlapped; `RunsWhole`, the running slot is whole and nobody writes it;
`BootsRunning`, until an update has ended the running firmware is the one to boot;
`Marked`, a writer has marked the running firmware valid, and one that has ended chose a
whole image; `Unconfirmed`, what was written over is not confirmed; `WayBack`, a new
firmware that is not marked yet has another to go back to.

`WebUiProofs` proves for any number of stop tasks, sockets, places in the list and bounds
`TypeCorrect`, `AlwaysSupervised`, `FreedOnceOnly`, `LightsKept` and `ListStaysExact`, that
is every invariant of the run `webui_server`. `WebInv` has a part
for each: `FlagHeld`, whoever set `s_stopping` is still to clear it (a timer that fires
and is refused may rely on the stop under way); `Watched`, an open server has its timer
armed or somebody who will arm it or stop it, which a request under way need not be; `OneStop` and `HandleGood`, without an
overlap there is one stop, which has the handle of the one server; `Lit` and `Dims`,
which lights are owed by a start and by a stop at each of their places; `WalksList`, the
index of the engine is inside the list while nobody else changes it.

`StatusLedProofs` proves for any number of attempts and any bounds, from
`StatusLedAssumption` alone:

- `StateTracksRadio`: `Spec => []StateFollows`;
- `JigglerStored`: `Spec => []JigglerAsStored`;
- `PriorityShown`: `Spec => []ShowsPriority`.

`StationInv` says what holds while events wait:
the queue is one that leads from the state to the radio (`Leads`), and the retry counter
never exceeds `MAX_RETRY` (`Counts`). The steps of the LED and of the jiggler leave both alone.
The other two rest on `TodoType`, the shapes of what a task can have left to do: calls not
begun, after what is left of the one at work (`Shapes`). Unless engine and httpd were at the
jiggler at once or a store failed, it is at rest and as stored, or one of them is at a known
place with known settings in hand: `HotkeyRuns` and `PostRuns` list those places. For the LED, unless two
tasks were at it at once, one task at most is there; `Finds` says what its next step finds,
`Resting` what holds when none is.

Only checked by TLC: the liveness properties (`TypingEnds`, `EveryMessageSettles`,
`Reconnects`, `Discovers`, `IdleCloses`, `ComesUp`, `FlashEnds`, `BlinkGoesOn`), which are out of the prover's reach, as is everything under
ENABLED; `TypedAsStored` of TypeString, which compares the whole output with the
decoded text, an induction over the characters and digits; and `UndisturbedListens`, which
counts the procedures that a layout of the service can have under way at once: it holds for
these keyboards and a pool of four, and not for every layout.

## 5. Plan

Every component that the table of section 1 calls modelled has its safety invariants
proved, with the exceptions above. What could come next: the life of the MQTT client once
its pointer is protected, a stop of `web_ui.c` together with an update under way, and a
`BleGatt` in which the searches of services and characteristics have responses too.

Not modelled, and why:

- the life of the MQTT client: its pointer is tested and used by three tasks and nothing
  protects it, so every property would exempt every interleaving (listed as a hazard);
- `usb_hid_host`: no build file sets the option it is compiled under;
- `totp`, CBOR, the cryptography of `fido2.c` and the USB and GATT descriptors: pure
  computation and data;
- the web page and the handlers that only read or store a setting: one call of storage;
- a reset of the BLE host stack (`on_reset`), the security procedures of BLE, the time
  synchronisation and the HTTP client: what they do is inside NimBLE and ESP-IDF;
- the release that the loss of a keyboard owes the host: nothing makes one up;
  `KeyUpHeard` says when it is missing;
- in `Ota`, requests before `app_main` has ended, and the test for a connected station
  (web_ui.c:1074);
- in `BleLink`, calls of the user before `on_sync` (`Call` needs `synced`): the stack comes
  up while the device starts, and a call needs the web interface and a press. One that came
  before would be refused by the stack, and `on_sync`, which finds a keyboard already named,
  would not arm the timer;
- in `BleGatt`, the code that a poll reads: `ReadCode` takes a polled report for its key,
  where `on_poll_read` decodes a 16-bit consumer code; no property is about polled keys;
- in `Fido2`, the test of `rk_count` at line 735, which is always zero (section 6), and a
  power cut. `PinCfgStore` is the one write of line 1262 with the flag of the token after
  it, which is RAM; the hash is a step of its own;
- in `Hotkey`, the key that confirms a FIDO2 request, which main.c:70 keeps from the engine.

## 6. Findings

`PROJECT.json` lists them with the lines they contradict. Two have a run that shows them: a
confirmation kept for the next request (`fido2_confirm`) and the PIN hash of the web interface
(`fido2_webpin`). The others: a report listed as subscribed that was never enabled and an
input report taken for an output (both because a search for descriptors runs past the next
report), the check of `s_typing` at
the entry, modifiers put back after their release, the PIN token that outlives a PIN set
there, the counter of resident keys that nobody counts, the reports of `type_string`
whose loss nobody notices, the scan that a reconnect makes fail, the disconnect that
does not forget a keyboard that is not connected, and the peer address that changes
before a connection exists.

Those that a property exempts by a history variable: a discovery whose request finds no room and never
ends (`broken` with `disturbed`), a second encryption that drops a release (`missed`); a server that starts dark while
a stop ends (`crossed`), lights without a server (`unstarted`), a server that nobody
closes (`unstopped`), a list of sockets with a negative count (`clashed`), a handle that is
freed twice (`overlapped`); two updates in one slot (`overlapped` of Ota); a light that a
blink callback overrides (`crossed` of StatusLed), a jiggler whose flag and timer part
(`astray`). The notes of the hazards in `PROJECT.json` say for each of them what the
properties beside it do not catch. Found by reading, with no property: a report that is
entered twice into the list of polls, the answer of a poll that is compared with the list
of a later discovery, the settings are erased before the restart and stay so when the
new firmware is rolled back, a lost station is shown as connected for five attempts, and
the USB-BT mode cannot start.
