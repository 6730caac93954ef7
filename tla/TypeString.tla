------------------------------ MODULE TypeString ------------------------------
(***************************************************************************)
(* usb_hid_device_type_string and ble_hid_device_type_string: a stored text   *)
(* becomes key reports, and a Windows host becomes text of them again.        *)
(*                                                                         *)
(* The host is external.  It has a keyboard layout, Num Lock, and composes a  *)
(* character while Alt is held: decimal digits of the numpad, or a plus and   *)
(* hex digits.  It sends the device its Num Lock state after each change,     *)
(* which takes a while to arrive.                                            *)
(***************************************************************************)
EXTENDS HidText

CONSTANTS Texts,      \* stored texts: their bytes and the characters meant
          Layouts,    \* of the host, subset of {"us", "foreign"}
          Transports, \* subset of {"usb", "ble"}
          MaxTexts,   \* bound: texts typed
          MaxLoss     \* bound: reports that cannot be sent

AUTO == 0
ALT == 1
SCAN == 2
ALT_HEX == 3
Modes == {AUTO, ALT, SCAN, ALT_HEX}

\* The bytes of a text may be malformed UTF-8.
ASSUME TypeStringAssumption ==
    /\ Texts \subseteq [bytes : Seq(Bytes), chars : Seq(Nat)]
    /\ Layouts \subseteq {"us", "foreign"} /\ Transports \subseteq {"usb", "ble"}
    /\ MaxTexts \in Nat /\ MaxLoss \in Nat

VARIABLES
    transport, layout,        \* how the device is connected, and to what host
    pc, str, p, mode, items, down, err, toggle_numlock,  \* type_string and its locals
    s_host_leds, s_leds_valid,                     \* statics of usb_hid_device.c
    report, numlock, composed, output, leds,       \* the host; LED reports under way
    texts, losses,                                 \* bounded counters
    text,      \* history: the stored text
    numlock0,  \* history: Num Lock of the host before the text
    ready,     \* history: Num Lock was on or known to be off, or is not needed
    silent     \* history: a report was lost and nobody noticed

typist == <<pc, str, p, mode, items, down, err, toggle_numlock>>
ledVars == <<s_host_leds, s_leds_valid>>
host == <<report, numlock, composed, output>>
vars == <<transport, layout, typist, ledVars, host, leds, texts, losses, text, numlock0, ready,
          silent>>

NoKeyDown == [mod |-> {}, kc |-> 0]
Keypad(d) == 1000 + d
KEYPAD_ADD == 1010
NUM_LOCK == 1011
ENTER == 1012
HexKey(d) == IF d < 10 THEN Keypad(d) ELSE 97 + d - 10

Init ==
    /\ transport \in Transports /\ layout \in Layouts
    /\ pc = "idle" /\ str = <<>> /\ p = 1 /\ mode = AUTO /\ items = <<>> /\ down = FALSE
    /\ err = FALSE /\ toggle_numlock = FALSE
    /\ numlock \in BOOLEAN /\ s_leds_valid \in (IF transport = "usb" THEN BOOLEAN ELSE {FALSE})
    /\ s_host_leds = (s_leds_valid /\ numlock)
    /\ report = NoKeyDown /\ composed = <<>> /\ output = <<>> /\ leds = <<>>
    /\ texts = 0 /\ losses = 0
    /\ text = <<>> /\ numlock0 = numlock /\ ready = FALSE /\ silent = FALSE

-----------------------------------------------------------------------------
(* The host.                                                                 *)

\* The keys of a foreign layout that differ: its letters are not Latin.
IsLetter(ch) == ch \in (65 .. 90) \cup (97 .. 122)
OnLayout(ch) == IF layout = "foreign" /\ IsLetter(ch) THEN ch + 1000 ELSE ch
KeyTypes(kc, shift) == OnLayout(IF shift THEN ShiftOf(kc) ELSE kc)

HexLetter(ch) == IF ch \in 97 .. 102 THEN ch - 87 ELSE -1
PLUS == 16
Composes(kc) ==
    CASE kc \in Keypad(0) .. Keypad(9) /\ numlock -> <<kc - Keypad(0)>>
      [] kc = KEYPAD_ADD -> <<PLUS>>
      [] kc < Keypad(0) /\ composed # <<>> /\ composed[1] = PLUS /\
            HexLetter(KeyTypes(kc, FALSE)) >= 0 -> <<HexLetter(KeyTypes(kc, FALSE))>>
      [] OTHER -> <<>>

\* The character a composition stands for: hex is Unicode, a leading zero CP1252.
Composition(c) ==
    CASE c[1] = PLUS -> NumberOf(Tail(c), 16)
      [] c[1] = 0 /\ \E cp \in 1 .. 255 : cp = NumberOf(c, 10) % 256 ->
            LET b == NumberOf(c, 10) % 256
            IN IF b \in 128 .. 159 THEN Cp1252High[b - 127] ELSE b
      [] OTHER -> -1

\* The host compares a report with the one before: Alt that is gone ends a
\* composition, a key that is new is a key press.
HostGets(r) ==
    LET altUp == "alt" \in report.mod /\ "alt" \notin r.mod
        delivered == IF altUp /\ composed # <<>> THEN Append(output, Composition(composed))
                                                 ELSE output
        pressed == r.kc # 0 /\ r.kc # report.kc
        typed == CASE r.kc = ENTER -> <<10>>
                   [] r.kc < Keypad(0) -> <<KeyTypes(r.kc, "shift" \in r.mod)>>
                   [] OTHER -> <<>>
        alt == "alt" \in r.mod
    IN /\ report' = r
       /\ numlock' = IF pressed /\ r.kc = NUM_LOCK THEN ~numlock ELSE numlock
       /\ leds' = IF pressed /\ r.kc = NUM_LOCK /\ transport = "usb"
                  THEN Append(leds, ~numlock) ELSE leds
       /\ composed' = CASE altUp -> <<>>
                        [] pressed /\ alt -> composed \o Composes(r.kc)
                        [] OTHER -> composed
       /\ output' = IF pressed /\ ~alt THEN delivered \o typed ELSE delivered

\* tud_hid_set_report_cb for the keyboard.
LedReport ==
    /\ leds # <<>>
    /\ leds' = Tail(leds) /\ s_host_leds' = Head(leds) /\ s_leds_valid' = TRUE
    /\ UNCHANGED <<transport, layout, typist, host, texts, losses, text, numlock0, ready, silent>>

-----------------------------------------------------------------------------
(* The reports of a character.  An item is a tap, key down and key up with    *)
(* the modifiers that stay, or the release of everything.                    *)

Tap(mod, kc) == [tap |-> TRUE, mod |-> mod, up |-> mod, kc |-> kc]
Release == [tap |-> FALSE]
\* The BLE code releases the modifiers of a plain key with it.
PlainTap(mod, kc) == IF transport = "usb" THEN Tap(mod, kc) ELSE [Tap(mod, kc) EXCEPT !.up = {}]
AltTaps(kcs) == [i \in DOMAIN kcs |-> Tap({"alt"}, kcs[i])]

\* A wrong numpad entry: leading zeros are left out.
TypeAltNumpadShort(b) ==
    AltTaps([i \in DOMAIN Digits(b, 10) |-> Keypad(Digits(b, 10)[i])]) \o <<Release>>
TypeAltNumpad(b) ==
    AltTaps(<<Keypad(0), Keypad(b \div 100), Keypad((b \div 10) % 10), Keypad(b % 10)>>)
        \o <<Release>>
TypeAltHex(cp) ==
    AltTaps(<<KEYPAD_ADD>> \o [i \in DOMAIN Digits(cp, 16) |-> HexKey(Digits(cp, 16)[i])])
        \o <<Release>>

CharItems(cp) ==
    CASE cp = 10 -> <<PlainTap({}, ENTER)>>
      [] cp < 32 /\ cp # 10 -> <<>>
      [] cp >= 32 /\ mode = ALT_HEX -> TypeAltHex(cp)
      [] cp \in 32 .. 126 /\ mode \in {AUTO, SCAN} ->
            <<PlainTap(s_ascii_map(cp).mod, s_ascii_map(cp).kc)>>
      [] cp > 126 /\ mode = SCAN -> <<>>
      [] OTHER -> IF hid_cp1252_from_codepoint(cp) < 0 THEN <<>>
                  ELSE TypeAltNumpad(hid_cp1252_from_codepoint(cp))

-----------------------------------------------------------------------------
(* type_string.                                                              *)

OnNumpad(cp, m) ==
    cp >= 32 /\ \/ m = ALT_HEX
                \/ (m = ALT \/ cp > 126) /\ hid_cp1252_from_codepoint(cp) >= 0
\* A wrong test: the modes that type ASCII on the numpad are forgotten.
NeedsNumpadNotAscii(s, m) ==
    m # SCAN /\ \E i \in DOMAIN Decoded(s) : Decoded(s)[i] > 126 /\ OnNumpad(Decoded(s)[i], m)
NeedsNumpad(s, m) == m # SCAN /\ \E i \in DOMAIN Decoded(s) : OnNumpad(Decoded(s)[i], m)

TypeString(t, m) ==
    /\ pc = "idle" /\ texts < MaxTexts
    /\ texts' = texts + 1
    /\ str' = t.bytes /\ p' = 1 /\ mode' = m /\ err' = FALSE /\ down' = FALSE
    /\ toggle_numlock' = (NeedsNumpad(t.bytes, m) /\ s_leds_valid /\ ~s_host_leds)
    /\ items' = IF toggle_numlock' THEN <<Tap({}, NUM_LOCK)>> ELSE <<>>
    /\ pc' = IF toggle_numlock' THEN "numlock" ELSE "text"
    /\ output' = <<>>
    /\ text' = t.chars /\ numlock0' = numlock /\ UNCHANGED silent
    /\ ready' = ((IF s_leds_valid THEN s_host_leds = numlock ELSE numlock)
                 \/ \A i \in DOMAIN t.chars : m = SCAN \/ ~OnNumpad(t.chars[i], m))
    /\ UNCHANGED <<transport, layout, ledVars, report, numlock, composed, leds, losses>>

Frame == UNCHANGED <<transport, layout, str, mode, toggle_numlock, ledVars, texts, text, numlock0, ready>>
HostFrame == UNCHANGED <<host, leds, losses, silent>>

\* A wrong walk: past the end for a truncated character.
NextCharTrusting ==
    /\ pc = "text" /\ items = <<>> /\ ~err /\ hid_utf8_next(str, p).cp # 0
    /\ p' = p + 1 + (IF Extra(str[p]) < 0 THEN 0 ELSE Extra(str[p]))
    /\ items' = CharItems(hid_utf8_next(str, p).cp)
    /\ UNCHANGED <<pc, down, err>> /\ Frame /\ HostFrame
NextChar ==
    /\ pc = "text" /\ items = <<>> /\ ~err /\ hid_utf8_next(str, p).cp # 0
    /\ p' = hid_utf8_next(str, p).next
    /\ items' = CharItems(hid_utf8_next(str, p).cp)
    /\ UNCHANGED <<pc, down, err>> /\ Frame /\ HostFrame

\* The end of the text, or of a text that was cut off.  The BLE code has no last
\* release: it sends one after every character.
TextEnded == pc = "text" /\ items = <<>> /\ (err \/ hid_utf8_next(str, p).cp = 0)
\* A wrong end: an early return on a failure.
EndTextEarlyReturn ==
    /\ TextEnded
    /\ CASE toggle_numlock /\ ~err -> pc' = "restore" /\ items' = <<Tap({}, NUM_LOCK)>>
         [] transport = "ble" -> pc' = "idle" /\ items' = <<>>
         [] OTHER -> pc' = "final" /\ items' = <<Release>>
    /\ UNCHANGED <<p, down, err>> /\ Frame /\ HostFrame
EndText ==
    /\ TextEnded
    /\ CASE toggle_numlock -> pc' = "restore" /\ items' = <<Tap({}, NUM_LOCK)>>
         [] transport = "ble" -> pc' = "idle" /\ items' = <<>>
         [] OTHER -> pc' = "final" /\ items' = <<Release>>
    /\ UNCHANGED <<p, down, err>> /\ Frame /\ HostFrame

EndPhase ==
    /\ items = <<>> /\ pc \in {"numlock", "restore", "final"}
    /\ pc' = CASE pc = "numlock" -> "text" [] pc = "restore" -> "final" [] pc = "final" -> "idle"
    /\ items' = IF pc = "restore" THEN <<Release>> ELSE <<>>
    /\ UNCHANGED <<p, down, err>> /\ Frame /\ HostFrame

Item == Head(items)
ReportOf(item) == CASE ~item.tap -> NoKeyDown
                    [] item.tap /\ ~down -> [mod |-> item.mod, kc |-> item.kc]
                    [] item.tap /\ down -> [mod |-> item.up, kc |-> 0]
AfterReport == /\ down' = (Item.tap /\ ~down)
               /\ items' = IF Item.tap /\ ~down THEN items ELSE Tail(items)

SendItem ==
    /\ items # <<>>
    /\ HostGets(ReportOf(Item)) /\ AfterReport
    /\ UNCHANGED <<pc, p, err, losses, silent>> /\ Frame

\* A tap that fails is given up, and with it the text: Alt is released, Num Lock
\* put back.  The result of a release, of the Num Lock taps and of everything on
\* BLE is not looked at.
Checked == transport = "usb" /\ pc = "text" /\ Item.tap
TapsOfAlt == Item.tap /\ "alt" \in Item.mod
SendFails ==
    /\ items # <<>> /\ losses < MaxLoss /\ losses' = losses + 1
    /\ silent' = (silent \/ ~Checked)
    /\ CASE Checked -> /\ err' = TRUE /\ down' = FALSE
                       /\ items' = IF TapsOfAlt THEN <<Release>> ELSE <<>>
         [] ~Checked /\ transport = "usb" ->
               /\ items' = Tail(items) /\ down' = FALSE /\ UNCHANGED err
         [] transport = "ble" -> AfterReport /\ UNCHANGED err
    /\ UNCHANGED <<pc, p, host, leds>> /\ Frame

Typing == NextChar \/ EndText \/ EndPhase \/ SendItem \/ SendFails
Next == \/ \E t \in Texts, m \in Modes : TypeString(t, m)
        \/ Typing \/ LedReport
Spec == Init /\ [][Next]_vars

-----------------------------------------------------------------------------
(* Properties.                                                               *)

\* The bookkeeping stays in range; in particular the pointer into the text
\* never passes its terminator, whatever bytes the text is made of.
TypeOK ==
    /\ transport \in Transports /\ layout \in Layouts
    /\ pc \in {"idle", "numlock", "text", "restore", "final"} /\ mode \in Modes
    /\ {down, err, toggle_numlock, s_host_leds, s_leds_valid, numlock, numlock0, ready,
        silent} \subseteq BOOLEAN
    /\ p \in 1 .. Len(str) + 1
    /\ down => items # <<>> /\ Item.tap
    /\ texts \in 0 .. MaxTexts /\ losses \in 0 .. MaxLoss /\ Len(leds) <= 2 * texts

\* What the host should show for a character of a stored text.
InCP1252(ch) == ch \in 127 .. 255 \ 128 .. 159 \/ ch \in ToSet(Cp1252High) \ {0}
Shows(ch) ==
    CASE ch = 10 -> <<ch>>
      [] ch # 10 /\ ch < 32 -> <<>>
      [] ch >= 32 /\ (mode = ALT_HEX \/ (mode # SCAN /\ InCP1252(ch)) \/ (mode = ALT /\ ch < 127)) ->
            <<ch>>
      [] ch \in 32 .. 126 /\ mode \in {AUTO, SCAN} -> <<OnLayout(ch)>>
      [] OTHER -> <<>>
Expected == FlattenSeq([i \in DOMAIN text |-> Shows(text[i])])
\* The hex entry needs a Latin layout, as its comment says.
HostReady == ready /\ ~silent /\ ~(mode = ALT_HEX /\ layout = "foreign")

\* A text that type_string has finished without an error is on the host as it
\* was stored, in every mode and on every layout, as far as the mode can type
\* it: no character doubled, merged with the next, or turned into another.  A
\* text cut off by a report that could not be sent leaves a beginning of itself
\* and at most one wrong character after it, the one that was being composed.
TypedAsStored ==
    pc = "idle" /\ texts > 0 /\ HostReady =>
        \/ ~err /\ output = Expected
        \/ err /\ \E n \in 0 .. Len(Expected) :
                /\ Len(output) \in {n, n + 1}
                /\ SubSeq(output, 1, n) = SubSeq(Expected, 1, n)

\* A text leaves no trace but its characters: no key or modifier stays down and
\* Num Lock is what it was before, also when the release of a key was the report
\* that could not be sent, the text is cut off, or the LED state the device had
\* was out of date.
LeftClean == pc = "idle" /\ ~silent => report = NoKeyDown /\ numlock = numlock0

=============================================================================
