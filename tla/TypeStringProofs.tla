--------------------------- MODULE TypeStringProofs ---------------------------
(***************************************************************************)
(* Proofs about TypeString, for every text, layout, transport and bound: the  *)
(* walk through the text stays inside it, the counters in range (TypeOK), and *)
(* a text leaves nothing behind but its characters (LeftClean).              *)
(*                                                                         *)
(* The text may be any bytes, so the first part is about hid_utf8_next and    *)
(* the reports it leads to: no character of a text presses Num Lock, and on   *)
(* BLE the last report of a character releases everything.  The second part   *)
(* is the inductive invariant: in which phase what is left to be sent, how    *)
(* many presses of Num Lock are still to come, and which way Num Lock is.     *)
(***************************************************************************)
EXTENDS TypeString, TLAPS

\* What can be waiting to be sent, and what of it can come from a character.
Modifiers == {"alt", "shift"}
Taps == [tap : {TRUE}, mod : SUBSET Modifiers, up : SUBSET Modifiers, kc : Nat]
Items == Taps \cup {Release}
TextItems == {it \in Items : it.tap => it.kc # NUM_LOCK}

-----------------------------------------------------------------------------
(* The inductive invariant.                                                  *)

NumLockTap == Tap({}, NUM_LOCK)
KeyYetToCome == items # <<>> /\ ~down

\* What is left to be sent in each phase of type_string.
ListInv ==
    /\ items \in Seq(Items) /\ down \in BOOLEAN /\ toggle_numlock \in BOOLEAN
    /\ down => items # <<>> /\ Item.tap
    /\ pc \in {"numlock", "restore"} => toggle_numlock /\ (items # <<>> => items = <<NumLockTap>>)
    /\ pc = "text" => items \in Seq(TextItems)
    /\ pc = "final" /\ items # <<>> => items = <<Release>>
    /\ pc = "idle" => items = <<>>

\* Presses of Num Lock still to come: with the LED reports under way they are at
\* most two for each text.  The keyboard of BLE hears nothing of Num Lock.
Pending == CASE pc = "numlock" -> IF KeyYetToCome THEN 2 ELSE 1
             [] pc = "text" /\ toggle_numlock -> 1
             [] pc = "restore" /\ KeyYetToCome -> 1
             [] OTHER -> 0

LedInv ==
    /\ leds \in Seq(BOOLEAN) /\ Len(leds) + Pending <= 2 * texts
    /\ transport = "ble" => ~s_leds_valid /\ ~toggle_numlock /\ leds = <<>>

\* Num Lock is the other way round from the first press to the second.
Toggled == CASE pc = "numlock" -> ~KeyYetToCome
             [] pc = "text" -> toggle_numlock
             [] pc = "restore" -> KeyYetToCome
             [] OTHER -> FALSE

\* The last report of a list releases everything.
EndsClean(its) == its # <<>> => ~its[Len(its)].tap \/ its[Len(its)].up = {}
\* Where nothing may be down on the host.
Quiet == \/ pc = "idle"
         \/ pc = "final" /\ items = <<>>
         \/ pc = "numlock" /\ KeyYetToCome
         \/ transport = "ble" /\ items = <<>>

\* The host, as long as every lost report was noticed: Num Lock goes with the
\* phase, nothing is down where nothing may be, and the Num Lock key itself is
\* free whenever it is about to be pressed.
HostInv == ~silent =>
    /\ numlock = (IF Toggled THEN ~numlock0 ELSE numlock0)
    /\ Quiet => report = NoKeyDown
    /\ transport = "ble" => EndsClean(items)
    /\ ~(pc \in {"numlock", "restore"} /\ down) => report.kc # NUM_LOCK

\* The variables of which nothing but the range matters.
StateInv ==
    /\ transport \in {"usb", "ble"} /\ transport \in Transports /\ layout \in Layouts
    /\ pc \in {"idle", "numlock", "text", "restore", "final"} /\ mode \in Modes
    /\ err \in BOOLEAN /\ s_host_leds \in BOOLEAN /\ s_leds_valid \in BOOLEAN
    /\ numlock \in BOOLEAN /\ numlock0 \in BOOLEAN /\ ready \in BOOLEAN /\ silent \in BOOLEAN
    /\ str \in Seq(Bytes) /\ p \in 1 .. Len(str) + 1
    /\ texts \in 0 .. MaxTexts /\ losses \in 0 .. MaxLoss

TypistInv == StateInv /\ ListInv /\ LedInv /\ HostInv

-----------------------------------------------------------------------------
(* Decoding: hid_utf8_next never reads or moves past the terminator.         *)

LEMMA ByteAtType ==
    \A s \in Seq(Bytes), i \in Nat \ {0} :
        /\ i <= Len(s) => ByteAt(s, i) = s[i] /\ ByteAt(s, i) \in Bytes
        /\ i > Len(s) => ByteAt(s, i) = 0
<1> TAKE s \in Seq(Bytes), i \in Nat \ {0}
<1>1. i <= Len(s) => ByteAt(s, i) = s[i]
  BY DEF ByteAt
<1>2. i > Len(s) => ByteAt(s, i) = 0
  BY DEF ByteAt
<1>3. i <= Len(s) => s[i] \in Bytes
  OBVIOUS
<1> QED
  BY <1>1, <1>2, <1>3

LEMMA ZeroContinues == 0 \notin Continuation
BY DEF Continuation

\* The bits of a continuation byte and of a lead byte, and what they make together.
SixBits == 0 .. 63
SevenBits == 0 .. 127
CodePoints == {v \in Nat : v < 16 ^ 6}

LEMMA ContinuationBits == \A c \in Bytes \cup {0} : c % 64 \in SixBits
BY DEF Bytes, SixBits

LEMMA LeadBitsType ==
    \A c \in Bytes : /\ LeadBits(c) \in SevenBits
                     /\ Extra(c) \in -1 .. 3
                     /\ Extra(c) = 3 => LeadBits(c) < 8
BY DEF Bytes, LeadBits, Extra, SevenBits

LEMMA JoinedBits ==
    \A v \in SevenBits, b1 \in SixBits, b2 \in SixBits, b3 \in SixBits :
        /\ v \in CodePoints
        /\ v * 64 + b1 \in CodePoints
        /\ (v * 64 + b1) * 64 + b2 \in CodePoints
        /\ v < 8 => ((v * 64 + b1) * 64 + b2) * 64 + b3 \in CodePoints
<1>1. 16 ^ 6 = 16777216
  OBVIOUS
<1> QED
  BY <1>1 DEF SevenBits, SixBits, CodePoints

LEMMA CodePointType ==
    ASSUME NEW s \in Seq(Bytes), NEW q \in 1 .. Len(s), NEW extra \in 0 .. 3,
           extra = Extra(ByteAt(s, q))
    PROVE  CodePoint(s, q, extra) \in CodePoints
<1> DEFINE v0 == LeadBits(ByteAt(s, q))
           b(i) == ByteAt(s, q + i) % 64
<1>1. ByteAt(s, q) \in Bytes
  BY ByteAtType
<1>2. v0 \in SevenBits /\ (extra = 3 => v0 < 8)
  BY <1>1, LeadBitsType
<1>3. ASSUME NEW i \in 1 .. 3 PROVE b(i) \in SixBits
  <2>1. ByteAt(s, q + i) \in Bytes \cup {0}
    BY ByteAtType
  <2> QED
    BY <2>1, ContinuationBits
<1>4. b(1) \in SixBits /\ b(2) \in SixBits /\ b(3) \in SixBits
  BY <1>3
<1>5. CodePoint(s, q, extra) = CASE extra = 1 -> v0 * 64 + b(1)
                                 [] extra = 2 -> (v0 * 64 + b(1)) * 64 + b(2)
                                 [] extra = 3 -> ((v0 * 64 + b(1)) * 64 + b(2)) * 64 + b(3)
                                 [] OTHER -> v0
  BY DEF CodePoint
<1> HIDE DEF v0, b
<1> DEFINE cp1 == v0 * 64 + b(1)
           cp2 == (v0 * 64 + b(1)) * 64 + b(2)
           cp3 == ((v0 * 64 + b(1)) * 64 + b(2)) * 64 + b(3)
<1>6. v0 \in CodePoints /\ cp1 \in CodePoints /\ cp2 \in CodePoints
  BY <1>2, <1>4, JoinedBits
<1>7. v0 < 8 => cp3 \in CodePoints
  BY <1>2, <1>4, JoinedBits
<1>8. CodePoint(s, q, extra) = CASE extra = 1 -> cp1 [] extra = 2 -> cp2
                                 [] extra = 3 -> cp3 [] OTHER -> v0
  BY <1>5
<1> HIDE DEF cp1, cp2, cp3
<1> QED
  BY <1>2, <1>6, <1>7, <1>8

\* A character that is not the terminator moves the pointer on, and at most to the
\* terminator: a truncated one is skipped alone.
LEMMA NextInside ==
    ASSUME NEW s \in Seq(Bytes), NEW q \in 1 .. Len(s) + 1, hid_utf8_next(s, q).cp # 0
    PROVE  /\ hid_utf8_next(s, q).next \in q + 1 .. Len(s) + 1
           /\ hid_utf8_next(s, q).cp \in CodePoints \ {0}
<1> DEFINE c == ByteAt(s, q)
           extra == Extra(c)
           wellFormed == extra >= 0 /\ \A i \in 1 .. extra : ByteAt(s, q + i) \in Continuation
<1>1. c # 0
  <2>1. SUFFICES ASSUME c = 0 PROVE hid_utf8_next(s, q) = [cp |-> 0, next |-> q]
    OBVIOUS
  <2>2. Extra(c) = 0
    BY <2>1 DEF Extra
  <2> QED
    BY <2>1, <2>2 DEF hid_utf8_next
<1>2. q \in 1 .. Len(s) /\ c = s[q] /\ c \in Bytes
  BY <1>1, ByteAtType DEF Bytes
<1>3. extra \in -1 .. 3
  BY <1>2, LeadBitsType
<1>4. CASE ~wellFormed
  <2>1. hid_utf8_next(s, q) = [cp |-> ReplacementChar, next |-> q + 1]
    BY <1>1, <1>4 DEF hid_utf8_next
  <2> QED
    BY <2>1, <1>2 DEF ReplacementChar, CodePoints
<1>5. CASE wellFormed
  <2>1. hid_utf8_next(s, q) = [cp |-> CodePoint(s, q, extra), next |-> q + extra + 1]
    BY <1>1, <1>5 DEF hid_utf8_next
  <2>2. extra \in 0 .. 3
    BY <1>3, <1>5
  <2>3. extra = 0 \/ q + extra \in 1 .. Len(s)
    <3>1. CASE extra # 0
      <4>1. ByteAt(s, q + extra) \in Continuation
        BY <3>1, <2>2, <1>5
      <4> DEFINE k == q + extra
      <4>2. k \in Nat \ {0} /\ k >= 1
        BY <1>2, <2>2
      <4>3. ByteAt(s, k) # 0
        BY <4>1, ZeroContinues
      <4> HIDE DEF k, extra
      <4>4. k <= Len(s)
        BY <4>2, <4>3, ByteAtType
      <4> QED
        BY <4>2, <4>4 DEF k
    <3> QED
      BY <3>1
  <2>4. CodePoint(s, q, extra) \in CodePoints
    BY <2>2, <1>2, CodePointType
  <2> HIDE DEF extra
  <2> QED
    BY <2>1, <2>2, <2>3, <2>4, <1>2
<1> QED
  BY <1>4, <1>5

-----------------------------------------------------------------------------
(* Characters: their taps are those of text keys, and end clean.             *)

LEMMA TapType ==
    \A m \in SUBSET Modifiers, kc \in Nat \ {NUM_LOCK} : Tap(m, kc) \in TextItems
BY DEF Tap, TextItems, Items, Taps

LEMMA AltTapsType ==
    ASSUME NEW kcs \in Seq(Nat \ {NUM_LOCK})
    PROVE  /\ AltTaps(kcs) \o <<Release>> \in Seq(TextItems)
           /\ EndsClean(AltTaps(kcs) \o <<Release>>)
<1> DEFINE its == AltTaps(kcs) \o <<Release>>
<1>1. \A i \in 1 .. Len(kcs) : AltTaps(kcs)[i] \in TextItems
  <2> TAKE i \in 1 .. Len(kcs)
  <2>1. AltTaps(kcs)[i] = Tap({"alt"}, kcs[i])
    BY DEF AltTaps
  <2>2. kcs[i] \in Nat \ {NUM_LOCK}
    OBVIOUS
  <2>3. {"alt"} \in SUBSET Modifiers
    BY DEF Modifiers
  <2> QED
    BY <2>1, <2>2, <2>3, TapType
<1>2. AltTaps(kcs) \in Seq(TextItems) /\ Len(AltTaps(kcs)) = Len(kcs)
  <2>1. AltTaps(kcs) = [i \in 1 .. Len(kcs) |-> AltTaps(kcs)[i]]
    BY DEF AltTaps
  <2> QED
    BY <1>1, <2>1
<1>3. Release \in TextItems /\ Release.tap = FALSE
  BY DEF TextItems, Items, Release
<1>4. its \in Seq(TextItems) /\ its[Len(its)] = Release
  <2> HIDE DEF TextItems, AltTaps, Release
  <2> QED
    BY <1>2, <1>3
<1> QED
  BY <1>3, <1>4 DEF EndsClean

HexDigits == 0 .. 15

LEMMA HexKeyType == \A d \in HexDigits : HexKey(d) \in Nat \ {NUM_LOCK}
BY DEF HexDigits, HexKey, Keypad, NUM_LOCK

LEMMA DigitsType ==
    ASSUME NEW v \in CodePoints
    PROVE  Digits(v, 16) \in Seq(HexDigits)
<1> DEFINE IsLength(k) == v < 16 ^ k /\ (k = 1 \/ v >= 16 ^ (k - 1))
           n == CHOOSE k \in 1 .. 8 : IsLength(k)
<1>1. \E k \in 1 .. 8 : IsLength(k)
  BY DEF CodePoints
<1>2. n \in 1 .. 8
  BY <1>1
<1>3. Digits(v, 16) = [i \in 1 .. n |-> (v \div 16 ^ (n - i)) % 16]
  BY DEF Digits
<1> HIDE DEF n
<1>4. \A m \in Int : (v \div m) % 16 \in HexDigits
  BY DEF CodePoints, HexDigits
<1> QED
  BY <1>2, <1>3, <1>4

LEMMA AltHexType ==
    ASSUME NEW cp \in CodePoints \ {0}
    PROVE  TypeAltHex(cp) \in Seq(TextItems) /\ EndsClean(TypeAltHex(cp))
<1> DEFINE ds == Digits(cp, 16)
           hex == [i \in DOMAIN ds |-> HexKey(ds[i])]
<1>1. ds \in Seq(HexDigits)
  BY DigitsType
<1>2. hex \in Seq(Nat \ {NUM_LOCK})
  <2> DEFINE Keys == Nat \ {NUM_LOCK}
  <2> HIDE DEF ds, Keys
  <2>1. \A i \in 1 .. Len(ds) : HexKey(ds[i]) \in Keys
    BY <1>1, HexKeyType DEF Keys
  <2>2. [i \in DOMAIN ds |-> HexKey(ds[i])] \in Seq(Keys)
    BY <2>1, <1>1
  <2> QED
    BY <2>2 DEF Keys
<1>3. <<KEYPAD_ADD>> \in Seq(Nat \ {NUM_LOCK})
  BY DEF KEYPAD_ADD, NUM_LOCK
<1>4. <<KEYPAD_ADD>> \o hex \in Seq(Nat \ {NUM_LOCK})
  <2> HIDE DEF hex
  <2> QED
    BY <1>2, <1>3
<1> QED
  BY <1>4, AltTapsType DEF TypeAltHex

Cp1252Bytes == 0 .. 255

LEMMA CP1252Type == \A cp \in Nat : hid_cp1252_from_codepoint(cp) \in {-1} \cup Cp1252Bytes
<1> TAKE cp \in Nat
<1> DEFINE Is(i) == Cp1252High[i] = cp /\ cp # 0
           i0 == CHOOSE i \in 1 .. 32 : Is(i)
<1>1. CASE cp < 128 \/ cp \in 160 .. 255
  BY <1>1 DEF hid_cp1252_from_codepoint, Cp1252Bytes
<1>2. CASE ~(cp < 128 \/ cp \in 160 .. 255) /\ \E i \in 1 .. 32 : Is(i)
  <2>1. hid_cp1252_from_codepoint(cp) = 127 + (CHOOSE i \in 1 .. 32 : Cp1252High[i] = cp)
    BY <1>2 DEF hid_cp1252_from_codepoint
  <2>2. (CHOOSE i \in 1 .. 32 : Cp1252High[i] = cp) \in 1 .. 32
    BY <1>2
  <2> HIDE DEF hid_cp1252_from_codepoint
  <2> DEFINE j == CHOOSE i \in 1 .. 32 : Cp1252High[i] = cp
  <2>3. j \in 1 .. 32 /\ hid_cp1252_from_codepoint(cp) = 127 + j
    BY <2>1, <2>2
  <2> HIDE DEF j
  <2> QED
    BY <2>3 DEF Cp1252Bytes
<1>3. CASE ~(cp < 128 \/ cp \in 160 .. 255) /\ ~\E i \in 1 .. 32 : Is(i)
  BY <1>3 DEF hid_cp1252_from_codepoint, Cp1252Bytes
<1> QED
  BY <1>1, <1>2, <1>3

LEMMA AltNumpadType ==
    ASSUME NEW b \in Cp1252Bytes
    PROVE  TypeAltNumpad(b) \in Seq(TextItems) /\ EndsClean(TypeAltNumpad(b))
<1> DEFINE kcs == <<Keypad(0), Keypad(b \div 100), Keypad((b \div 10) % 10), Keypad(b % 10)>>
<1>1. kcs \in Seq(Nat \ {NUM_LOCK})
  BY DEF Keypad, NUM_LOCK, Cp1252Bytes
<1> QED
  BY <1>1, AltTapsType DEF TypeAltNumpad

LEMMA AsciiType ==
    \A cp \in 32 .. 126 : /\ s_ascii_map(cp).kc \in Nat \ {NUM_LOCK}
                          /\ s_ascii_map(cp).mod \in SUBSET Modifiers
<1> TAKE cp \in 32 .. 126
<1> DEFINE Is(i) == ShiftedSymbols[i] = cp
           i0 == CHOOSE i \in DOMAIN ShiftedSymbols : Is(i)
<1>1. DOMAIN ShiftedSymbols = 1 .. 21 /\ \A i \in 1 .. 21 : UnderSymbols[i] \in 0 .. 127
  BY DEF ShiftedSymbols, UnderSymbols
<1>2. CASE cp \in 65 .. 90
  <2>1. \A i \in DOMAIN ShiftedSymbols : ShiftedSymbols[i] \notin 65 .. 90
    BY DEF ShiftedSymbols
  <2>2. s_ascii_map(cp) = [kc |-> cp + 32, mod |-> {"shift"}]
    BY <1>2, <2>1 DEF s_ascii_map
  <2> QED
    BY <2>2, <1>2 DEF NUM_LOCK, Modifiers
<1>3. CASE cp \notin 65 .. 90 /\ \E i \in DOMAIN ShiftedSymbols : Is(i)
  <2>1. s_ascii_map(cp) = [kc |-> UnderSymbols[i0], mod |-> {"shift"}]
    BY <1>3 DEF s_ascii_map
  <2>2. i0 \in DOMAIN ShiftedSymbols
    BY <1>3
  <2>3. UnderSymbols[i0] \in 0 .. 127
    BY <1>1, <2>2
  <2> QED
    BY <2>1, <2>3 DEF NUM_LOCK, Modifiers
<1>4. CASE cp \notin 65 .. 90 /\ ~\E i \in DOMAIN ShiftedSymbols : Is(i)
  <2>1. s_ascii_map(cp) = [kc |-> cp, mod |-> {}]
    BY <1>4 DEF s_ascii_map
  <2> QED
    BY <2>1 DEF NUM_LOCK
<1> QED
  BY <1>2, <1>3, <1>4

LEMMA PlainTapType ==
    ASSUME NEW m \in SUBSET Modifiers, NEW kc \in Nat \ {NUM_LOCK}
    PROVE  /\ <<PlainTap(m, kc)>> \in Seq(TextItems)
           /\ transport = "ble" => EndsClean(<<PlainTap(m, kc)>>)
<1>1. PlainTap(m, kc) \in TextItems
  BY DEF PlainTap, Tap, TextItems, Items, Taps
<1>2. transport = "ble" => PlainTap(m, kc).up = {}
  BY DEF PlainTap, Tap
<1> HIDE DEF PlainTap, TextItems
<1> QED
  BY <1>1, <1>2 DEF EndsClean

\* No character presses Num Lock; on BLE each one ends with everything released.
LEMMA CharItemsType ==
    ASSUME NEW cp \in CodePoints \ {0}
    PROVE  /\ CharItems(cp) \in Seq(TextItems)
           /\ transport = "ble" => EndsClean(CharItems(cp))
<1> DEFINE Goal(its) == its \in Seq(TextItems) /\ (transport = "ble" => EndsClean(its))
<1> SUFFICES Goal(CharItems(cp))
  OBVIOUS
<1>1. Goal(<<>>)
  BY DEF EndsClean
<1>2. Goal(<<PlainTap({}, ENTER)>>)
  BY PlainTapType DEF ENTER, NUM_LOCK
<1>3. Goal(TypeAltHex(cp))
  BY AltHexType
<1>4. cp \in 32 .. 126 => Goal(<<PlainTap(s_ascii_map(cp).mod, s_ascii_map(cp).kc)>>)
  BY AsciiType, PlainTapType
<1>5. hid_cp1252_from_codepoint(cp) >= 0 => Goal(TypeAltNumpad(hid_cp1252_from_codepoint(cp)))
  <2>1. cp \in Nat
    BY DEF CodePoints
  <2>2. hid_cp1252_from_codepoint(cp) \in Cp1252Bytes \/ hid_cp1252_from_codepoint(cp) = -1
    BY <2>1, CP1252Type
  <2> QED
    BY <2>2, AltNumpadType
<1>6. cp \in Nat /\ cp > 0
  BY DEF CodePoints
<1> DEFINE plain == <<PlainTap(s_ascii_map(cp).mod, s_ascii_map(cp).kc)>>
           numpad == TypeAltNumpad(hid_cp1252_from_codepoint(cp))
           none == <<>>
<1>7. \/ cp = 10 /\ CharItems(cp) = <<PlainTap({}, ENTER)>>
      \/ CharItems(cp) = none
      \/ CharItems(cp) = TypeAltHex(cp)
      \/ cp \in 32 .. 126 /\ CharItems(cp) = plain
      \/ hid_cp1252_from_codepoint(cp) >= 0 /\ CharItems(cp) = numpad
  <2> HIDE DEF plain, numpad, none
  <2> DEFINE enter == <<PlainTap({}, ENTER)>>
  <2> HIDE DEF enter
  <2>1. CASE cp = 10
    <3>1. CharItems(cp) = enter
      BY <2>1 DEF CharItems, enter
    <3> QED
      BY <3>1, <2>1 DEF enter
  <2>2. CASE cp < 32 /\ cp # 10
    <3>1. ~(cp >= 32) /\ ~(cp \in 32 .. 126) /\ ~(cp > 126)
      BY <2>2, <1>6
    <3>2. CharItems(cp) = none
      BY <3>1, <2>2, Zenon DEF CharItems, none
    <3> QED
      BY <3>2
  <2>3. CASE cp >= 32 /\ mode = ALT_HEX
    <3>1. CharItems(cp) = TypeAltHex(cp)
      BY <2>3, <1>6 DEF CharItems, ALT_HEX, AUTO, SCAN
    <3> QED
      BY <3>1
  <2>4. CASE cp \in 32 .. 126 /\ mode \in {AUTO, SCAN}
    <3>1. ~(cp = 10) /\ ~(cp < 32) /\ ~(cp > 126) /\ ~(mode = ALT_HEX)
      BY <2>4, <1>6 DEF ALT_HEX, AUTO, SCAN
    <3>2. CharItems(cp) = plain
      BY <3>1, <2>4, Zenon DEF CharItems, plain
    <3> QED
      BY <3>2, <2>4
  <2>5. CASE cp > 126 /\ mode = SCAN
    <3>1. CharItems(cp) = none
      BY <2>5, <1>6 DEF CharItems, none, ALT_HEX, AUTO, SCAN
    <3> QED
      BY <3>1
  <2>6. CASE /\ cp >= 32 /\ mode # ALT_HEX
             /\ ~(cp \in 32 .. 126 /\ mode \in {AUTO, SCAN}) /\ ~(cp > 126 /\ mode = SCAN)
    <3>1. CharItems(cp) = IF hid_cp1252_from_codepoint(cp) < 0 THEN none ELSE numpad
      BY <2>6, <1>6 DEF CharItems, numpad, none
    <3>2. hid_cp1252_from_codepoint(cp) \in {-1} \cup Cp1252Bytes
      BY <1>6, CP1252Type
    <3>3. hid_cp1252_from_codepoint(cp) \in Int
      BY <3>2 DEF Cp1252Bytes
    <3> QED
      BY <3>1, <3>3
  <2> QED
    BY <2>1, <2>2, <2>3, <2>4, <2>5, <2>6, <1>6
<1> HIDE DEF Goal
<1> QED
  BY <1>1, <1>2, <1>3, <1>4, <1>5, <1>7

-----------------------------------------------------------------------------
(* The steps.                                                                *)

LEMMA TapOrNot == \A it \in Items : it.tap \in BOOLEAN
<1> TAKE it \in Items
<1>1. CASE it \in Taps
  <2>1. it.tap = TRUE
    BY <1>1 DEF Taps
  <2> QED
    BY <2>1
<1>2. CASE it = Release
  BY <1>2 DEF Release
<1> QED
  BY <1>1, <1>2 DEF Items

LEMMA TextItemsAreItems == TextItems \subseteq Items
BY DEF TextItems

LEMMA ShortLists ==
    /\ <<>> \in Seq(Items) /\ <<>> \in Seq(TextItems)
    /\ <<NumLockTap>> \in Seq(Items)
    /\ <<Release>> \in Seq(Items) /\ <<Release>> \in Seq(TextItems)
<1>1. NumLockTap \in Items /\ Release \in Items /\ Release \in TextItems
  BY DEF NumLockTap, Tap, Items, Taps, TextItems, NUM_LOCK, Release
<1> QED
  BY <1>1

\* The three things the next report can be: a release, a key going down, the same
\* key going up.
LEMMA SendStep ==
    ASSUME ListInv, SendItem
    PROVE  /\ items # <<>>
           /\ UNCHANGED <<pc, p, err, losses, silent>> /\ Frame
           /\ \/ /\ ~Item.tap /\ ~down
                 /\ items' = Tail(items) /\ down' = FALSE /\ report' = NoKeyDown
                 /\ UNCHANGED <<numlock, leds>>
              \/ /\ Item.tap /\ ~down
                 /\ items' = items /\ down' = TRUE /\ report'.kc = Item.kc
                 /\ IF Item.kc = NUM_LOCK /\ report.kc # NUM_LOCK
                    THEN /\ numlock' = ~numlock
                         /\ leds' = IF transport = "usb" THEN Append(leds, ~numlock) ELSE leds
                    ELSE UNCHANGED <<numlock, leds>>
              \/ /\ Item.tap /\ down
                 /\ items' = Tail(items) /\ down' = FALSE
                 /\ report' = [mod |-> Item.up, kc |-> 0]
                 /\ UNCHANGED <<numlock, leds>>
<1>1. items # <<>> /\ HostGets(ReportOf(Item)) /\ AfterReport
      /\ UNCHANGED <<pc, p, err, losses, silent>> /\ Frame
  BY DEF SendItem
<1>2. Item.tap \in BOOLEAN /\ (down => Item.tap) /\ down \in BOOLEAN
  <2>1. Item \in Items
    BY <1>1 DEF ListInv, Item
  <2> QED
    BY <2>1, TapOrNot DEF ListInv
<1>3. ASSUME NEW r, HostGets(r)
      PROVE  /\ report' = r
             /\ numlock' = IF r.kc # 0 /\ r.kc # report.kc /\ r.kc = NUM_LOCK
                           THEN ~numlock ELSE numlock
             /\ leds' = IF /\ r.kc # 0 /\ r.kc # report.kc /\ r.kc = NUM_LOCK
                           /\ transport = "usb"
                        THEN Append(leds, ~numlock) ELSE leds
  BY <1>3 DEF HostGets
<1>4. CASE ~Item.tap
  <2>1. ReportOf(Item) = NoKeyDown /\ ~down
    BY <1>4, <1>2 DEF ReportOf
  <2>2. HostGets(NoKeyDown)
    BY <1>1, <2>1
  <2>3. report' = NoKeyDown /\ UNCHANGED <<numlock, leds>>
    BY <2>2, <1>3 DEF NoKeyDown
  <2>4. items' = Tail(items) /\ down' = FALSE
    BY <1>1, <1>4 DEF AfterReport
  <2> QED
    BY <1>1, <1>4, <2>1, <2>3, <2>4
<1>5. CASE Item.tap /\ ~down
  <2> DEFINE r == [mod |-> Item.mod, kc |-> Item.kc]
  <2>1. ReportOf(Item) = r
    BY <1>5 DEF ReportOf
  <2>2. HostGets(r)
    BY <1>1, <2>1
  <2>3. r.kc = Item.kc /\ NUM_LOCK # 0
    BY DEF NUM_LOCK
  <2> HIDE DEF r
  <2>4. report'.kc = Item.kc
    BY <2>2, <2>3, <1>3
  <2>5. IF Item.kc = NUM_LOCK /\ report.kc # NUM_LOCK
        THEN /\ numlock' = ~numlock
             /\ leds' = IF transport = "usb" THEN Append(leds, ~numlock) ELSE leds
        ELSE UNCHANGED <<numlock, leds>>
    BY <2>2, <2>3, <1>3
  <2>6. items' = items /\ down' = TRUE
    BY <1>1, <1>5 DEF AfterReport
  <2> QED
    BY <1>1, <1>5, <2>4, <2>5, <2>6
<1>6. CASE Item.tap /\ down
  <2> DEFINE r == [mod |-> Item.up, kc |-> 0]
  <2>1. ReportOf(Item) = r
    BY <1>6 DEF ReportOf
  <2>2. HostGets(r)
    BY <1>1, <2>1
  <2>3. r.kc = 0
    OBVIOUS
  <2> HIDE DEF r
  <2>4. report' = r /\ UNCHANGED <<numlock, leds>>
    BY <2>2, <2>3, <1>3
  <2>5. items' = Tail(items) /\ down' = FALSE
    BY <1>1, <1>6 DEF AfterReport
  <2> QED
    BY <1>1, <1>6, <2>4, <2>5 DEF r
<1> QED
  BY <1>2, <1>4, <1>5, <1>6

-----------------------------------------------------------------------------
LEMMA InitTypist == Init => TypistInv
<1> SUFFICES ASSUME Init PROVE TypistInv
  OBVIOUS
<1>1. StateInv
  <2>1. transport \in {"usb", "ble"} /\ transport \in Transports /\ layout \in Layouts
    BY TypeStringAssumption DEF Init
  <2>2. pc \in {"idle", "numlock", "text", "restore", "final"} /\ mode \in Modes
    BY DEF Init, Modes
  <2>3. /\ err \in BOOLEAN /\ s_host_leds \in BOOLEAN /\ s_leds_valid \in BOOLEAN
        /\ numlock \in BOOLEAN /\ numlock0 \in BOOLEAN /\ ready \in BOOLEAN /\ silent \in BOOLEAN
    BY DEF Init
  <2>4. str \in Seq(Bytes) /\ p \in 1 .. Len(str) + 1
    BY DEF Init
  <2>5. texts \in 0 .. MaxTexts /\ losses \in 0 .. MaxLoss
    BY TypeStringAssumption DEF Init
  <2> QED
    BY <2>1, <2>2, <2>3, <2>4, <2>5 DEF StateInv
<1>2. ListInv
  <2>1. pc = "idle" /\ items = <<>> /\ down = FALSE /\ toggle_numlock = FALSE
    BY DEF Init
  <2>2. items \in Seq(Items)
    BY <2>1
  <2> QED
    BY <2>1, <2>2 DEF ListInv
<1>3. LedInv
  <2>1. pc = "idle" /\ leds = <<>> /\ texts = 0 /\ toggle_numlock = FALSE
    BY DEF Init
  <2>2. transport = "ble" => ~s_leds_valid
    BY DEF Init
  <2> QED
    BY <2>1, <2>2 DEF LedInv, Pending
<1>4. HostInv
  BY DEF Init, HostInv, Toggled, EndsClean, NoKeyDown, NUM_LOCK
<1> QED
  BY <1>1, <1>2, <1>3, <1>4 DEF TypistInv

LEMMA TypeStringKeeps ==
    ASSUME TypistInv, NEW t \in Texts, NEW m \in Modes, TypeString(t, m)
    PROVE  TypistInv'
<1> USE DEF TypistInv
<1>1. StateInv'
  <2>1. t.bytes \in Seq(Bytes) /\ 1 \in 1 .. Len(t.bytes) + 1
    BY TypeStringAssumption
  <2>2. str' \in Seq(Bytes) /\ p' \in 1 .. Len(str') + 1
    BY <2>1 DEF TypeString
  <2>3. texts' \in 0 .. MaxTexts /\ losses' \in 0 .. MaxLoss
    BY TypeStringAssumption DEF TypeString, StateInv
  <2>4. ready' \in BOOLEAN
    BY DEF TypeString, StateInv
  <2>5. pc' \in {"idle", "numlock", "text", "restore", "final"} /\ mode' \in Modes
    BY DEF TypeString
  <2>6. /\ err' \in BOOLEAN /\ s_host_leds' \in BOOLEAN /\ s_leds_valid' \in BOOLEAN
        /\ numlock' \in BOOLEAN /\ numlock0' \in BOOLEAN /\ silent' \in BOOLEAN
    BY DEF TypeString, StateInv, ledVars
  <2>7. transport' = transport /\ layout' = layout
    BY DEF TypeString
  <2> QED
    BY <2>2, <2>3, <2>4, <2>5, <2>6, <2>7 DEF StateInv
<1>2. /\ toggle_numlock' \in BOOLEAN /\ (toggle_numlock' => s_leds_valid)
      /\ items' = IF toggle_numlock' THEN <<NumLockTap>> ELSE <<>>
      /\ pc' = IF toggle_numlock' THEN "numlock" ELSE "text"
      /\ down' = FALSE
  BY DEF TypeString, NumLockTap
<1>3. NumLockTap \in Items /\ NumLockTap.tap
  BY DEF NumLockTap, Tap, Items, Taps, NUM_LOCK
<1>4. ListInv'
  <2>1. CASE toggle_numlock'
    <3>1. items' = <<NumLockTap>> /\ pc' = "numlock" /\ down' = FALSE
      BY <2>1, <1>2
    <3>2. items' \in Seq(Items)
      BY <3>1, <1>3
    <3> QED
      BY <3>1, <3>2, <2>1 DEF ListInv
  <2>2. CASE ~toggle_numlock'
    <3>1. items' = <<>> /\ pc' = "text" /\ down' = FALSE
      BY <2>2, <1>2
    <3>2. items' \in Seq(Items) /\ items' \in Seq(TextItems)
      BY <3>1
    <3> QED
      BY <3>1, <3>2, <1>2 DEF ListInv
  <2> QED
    BY <2>1, <2>2
<1>5. LedInv'
  <2>1. Pending' \in 0 .. 2 /\ Pending = 0
    BY <1>2 DEF Pending, TypeString
  <2>2. leds' = leds /\ texts' = texts + 1 /\ s_leds_valid' = s_leds_valid /\ transport' = transport
    BY DEF TypeString, ledVars
  <2>3. Len(leds) \in Nat /\ texts \in Nat /\ Len(leds) <= 2 * texts
    BY <2>1, TypeStringAssumption DEF LedInv, StateInv
  <2>4. Len(leds') + Pending' <= 2 * texts'
    BY <2>1, <2>2, <2>3
  <2> QED
    BY <2>2, <2>4, <1>2 DEF LedInv
<1>6. HostInv'
  <2>1. pc = "idle" /\ UNCHANGED <<transport, numlock, report, silent>> /\ numlock0' = numlock
    BY DEF TypeString
  <2>2. ~Toggled'
    BY <1>2 DEF Toggled, KeyYetToCome
  <2>3. ~silent => report = NoKeyDown /\ report.kc # NUM_LOCK
    BY <2>1 DEF HostInv, Quiet, NoKeyDown, NUM_LOCK
  <2>4. transport = "ble" => items' = <<>>
    BY <1>2 DEF LedInv
  <2> QED
    BY <1>2, <2>1, <2>2, <2>3, <2>4 DEF HostInv, EndsClean
<1> QED
  BY <1>1, <1>4, <1>5, <1>6

\* What the steps that only walk through the text leave alone.
LEMMA WalkKeeps ==
    ASSUME TypistInv, Frame, HostFrame, err' = err, down' = FALSE, p' \in 1 .. Len(str) + 1,
           pc' \in {"idle", "numlock", "text", "restore", "final"}
    PROVE  StateInv' /\ leds' = leds /\ report' = report /\ silent' = silent
<1>1. /\ transport' = transport /\ layout' = layout /\ str' = str /\ mode' = mode
      /\ s_host_leds' = s_host_leds /\ s_leds_valid' = s_leds_valid /\ texts' = texts
      /\ numlock0' = numlock0 /\ ready' = ready
  BY DEF Frame, ledVars
<1>2. /\ numlock' = numlock /\ leds' = leds /\ losses' = losses /\ silent' = silent
      /\ report' = report
  BY DEF HostFrame, host
<1> QED
  BY <1>1, <1>2 DEF TypistInv, StateInv

LEMMA NextCharKeeps == ASSUME TypistInv, NextChar PROVE TypistInv'
<1> USE DEF TypistInv
<1> DEFINE cp == hid_utf8_next(str, p).cp
<1>1. /\ pc = "text" /\ items = <<>> /\ cp # 0
      /\ p' = hid_utf8_next(str, p).next /\ items' = CharItems(cp)
      /\ UNCHANGED <<pc, down, err>> /\ Frame /\ HostFrame
  BY DEF NextChar
<1>2. p' \in 1 .. Len(str) + 1 /\ cp \in CodePoints \ {0}
  <2>1. str \in Seq(Bytes) /\ p \in 1 .. Len(str) + 1 /\ Len(str) \in Nat
    BY DEF StateInv
  <2>2. hid_utf8_next(str, p).next \in p + 1 .. Len(str) + 1 /\ cp \in CodePoints \ {0}
    BY <1>1, <2>1, NextInside
  <2> QED
    BY <1>1, <2>1, <2>2
<1> HIDE DEF cp
<1>3. items' \in Seq(TextItems) /\ items' \in Seq(Items) /\ (transport = "ble" => EndsClean(items'))
  <2>1. items' \in Seq(TextItems) /\ (transport = "ble" => EndsClean(items'))
    BY <1>1, <1>2, CharItemsType
  <2> QED
    BY <2>1, TextItemsAreItems
<1>4. down = FALSE /\ down' = FALSE
  BY <1>1 DEF ListInv
<1>5. StateInv' /\ leds' = leds /\ report' = report /\ silent' = silent
  BY <1>1, <1>2, <1>4, WalkKeeps DEF StateInv
<1>6. /\ pc' = "text" /\ transport' = transport /\ toggle_numlock' = toggle_numlock
      /\ s_leds_valid' = s_leds_valid /\ texts' = texts /\ numlock0' = numlock0 /\ numlock' = numlock
  BY <1>1 DEF Frame, HostFrame, host, ledVars
<1>7. ListInv'
  BY <1>3, <1>4, <1>6 DEF ListInv
<1>8. LedInv'
  BY <1>1, <1>5, <1>6 DEF LedInv, Pending
<1>9. HostInv'
  BY <1>1, <1>3, <1>4, <1>5, <1>6 DEF HostInv, Toggled, Quiet
<1> QED
  BY <1>5, <1>7, <1>8, <1>9

LEMMA EndTextKeeps == ASSUME TypistInv, EndText PROVE TypistInv'
<1> USE DEF TypistInv
<1>1. pc = "text" /\ items = <<>> /\ UNCHANGED <<p, down, err>> /\ Frame /\ HostFrame
  BY DEF EndText, TextEnded
<1>2. \/ toggle_numlock /\ transport = "usb" /\ pc' = "restore" /\ items' = <<NumLockTap>>
      \/ ~toggle_numlock /\ transport = "ble" /\ pc' = "idle" /\ items' = <<>>
      \/ ~toggle_numlock /\ transport = "usb" /\ pc' = "final" /\ items' = <<Release>>
  BY DEF EndText, NumLockTap, StateInv, LedInv
<1>3. down = FALSE /\ down' = FALSE
  BY <1>1 DEF ListInv
<1>4. /\ transport' = transport /\ toggle_numlock' = toggle_numlock /\ s_leds_valid' = s_leds_valid
      /\ texts' = texts /\ numlock0' = numlock0 /\ numlock' = numlock
  BY <1>1 DEF Frame, HostFrame, host, ledVars
<1>5. StateInv' /\ leds' = leds /\ report' = report /\ silent' = silent
  BY <1>1, <1>2, <1>3, WalkKeeps DEF StateInv
<1>6. NumLockTap \in Items /\ Release \in Items /\ ~Release.tap
  BY DEF NumLockTap, Tap, Items, Taps, NUM_LOCK, Release
<1>7. ListInv'
  <2>1. items' \in Seq(Items)
    BY <1>2, ShortLists
  <2> QED
    BY <1>2, <1>3, <1>4, <2>1 DEF ListInv
<1>8. items' # <<>> <=> pc' # "idle"
  BY <1>2
<1>9. LedInv'
  <2>1. Pending' = Pending
    BY <1>1, <1>2, <1>3, <1>4, <1>8 DEF Pending, KeyYetToCome
  <2> QED
    BY <1>4, <1>5, <2>1 DEF LedInv
<1>10. HostInv'
  <2>1. Toggled' = Toggled
    BY <1>1, <1>2, <1>3, <1>4, <1>8 DEF Toggled, KeyYetToCome, ListInv
  <2>2. transport = "ble" => pc' = "idle" /\ items' = <<>>
    BY <1>2
  <2>3. Quiet' => Quiet
    BY <1>1, <1>2, <1>4, <1>8 DEF Quiet
  <2> QED
    BY <1>1, <1>3, <1>4, <1>5, <2>1, <2>2, <2>3 DEF HostInv, EndsClean
<1> QED
  BY <1>5, <1>7, <1>9, <1>10

LEMMA EndPhaseKeeps == ASSUME TypistInv, EndPhase PROVE TypistInv'
<1> USE DEF TypistInv
<1>1. items = <<>> /\ UNCHANGED <<p, down, err>> /\ Frame /\ HostFrame
  BY DEF EndPhase
<1>2. \/ pc = "numlock" /\ pc' = "text" /\ items' = <<>>
      \/ pc = "restore" /\ pc' = "final" /\ items' = <<Release>>
      \/ pc = "final" /\ pc' = "idle" /\ items' = <<>>
  BY DEF EndPhase
<1>3. down = FALSE /\ down' = FALSE
  BY <1>1 DEF ListInv
<1>4. /\ transport' = transport /\ toggle_numlock' = toggle_numlock /\ s_leds_valid' = s_leds_valid
      /\ texts' = texts /\ numlock0' = numlock0 /\ numlock' = numlock
  BY <1>1 DEF Frame, HostFrame, host, ledVars
<1>5. StateInv' /\ leds' = leds /\ report' = report /\ silent' = silent
  BY <1>1, <1>2, <1>3, WalkKeeps DEF StateInv
<1>6. Release \in Items /\ ~Release.tap
  BY DEF Items, Release
<1>7. ListInv'
  <2>1. items' \in Seq(Items) /\ (pc' = "text" => items' \in Seq(TextItems))
    BY <1>2, ShortLists
  <2>2. pc' = "text" => toggle_numlock
    BY <1>2 DEF ListInv
  <2> QED
    BY <1>2, <1>3, <1>4, <2>1 DEF ListInv
<1>8. pc = "numlock" => toggle_numlock
  BY DEF ListInv
<1>9. LedInv'
  <2>1. Pending' = Pending
    BY <1>1, <1>2, <1>3, <1>4, <1>8 DEF Pending, KeyYetToCome
  <2> QED
    BY <1>4, <1>5, <2>1 DEF LedInv
<1>10. HostInv'
  <2>1. Toggled' = Toggled
    BY <1>1, <1>2, <1>3, <1>4, <1>8 DEF Toggled, KeyYetToCome
  <2>2. transport = "ble" => EndsClean(items')
    <3>1. CASE items' = <<>>
      BY <3>1 DEF EndsClean
    <3>2. CASE items' = <<Release>>
      BY <3>2, <1>6 DEF EndsClean
    <3> QED
      BY <1>2, <3>1, <3>2
  <2>3. Quiet' => Quiet
    BY <1>1, <1>2, <1>3, <1>4 DEF Quiet, KeyYetToCome
  <2>4. ~(pc' \in {"numlock", "restore"} /\ down')
    BY <1>2
  <2> QED
    BY <1>1, <1>3, <1>4, <1>5, <2>1, <2>2, <2>3, <2>4 DEF HostInv
<1> QED
  BY <1>5, <1>7, <1>9, <1>10

LEMMA LedReportKeeps == ASSUME TypistInv, LedReport PROVE TypistInv'
<1> USE DEF TypistInv
<1>1. /\ leds # <<>> /\ leds' = Tail(leds) /\ s_host_leds' = Head(leds) /\ s_leds_valid' = TRUE
      /\ UNCHANGED <<transport, layout, pc, str, p, mode, items, down, err, toggle_numlock, report,
                     numlock, texts, losses, numlock0, ready, silent>>
  BY DEF LedReport, typist, host
<1>2. leds \in Seq(BOOLEAN)
  BY DEF LedInv
<1>3. Head(leds) \in BOOLEAN /\ Tail(leds) \in Seq(BOOLEAN) /\ Len(Tail(leds)) = Len(leds) - 1
      /\ Len(leds) \in Nat
  BY <1>1, <1>2
<1>4. StateInv'
  BY <1>1, <1>3 DEF StateInv
<1>5. ListInv'
  BY <1>1 DEF ListInv, Item
<1>6. LedInv'
  <2>1. Pending' = Pending /\ Pending \in 0 .. 2
    BY <1>1 DEF Pending, KeyYetToCome
  <2>2. texts \in Nat
    BY TypeStringAssumption DEF StateInv
  <2>3. transport # "ble"
    BY <1>1 DEF LedInv
  <2>4. Len(leds') + Pending' <= 2 * texts'
    BY <1>1, <1>3, <2>1, <2>2 DEF LedInv
  <2> QED
    BY <1>1, <1>3, <2>3, <2>4 DEF LedInv
<1>7. HostInv'
  BY <1>1 DEF HostInv, Toggled, KeyYetToCome, Quiet, EndsClean
<1> QED
  BY <1>4, <1>5, <1>6, <1>7

LEMMA TailOfItems ==
    ASSUME NEW S, NEW s \in Seq(S), s # <<>>
    PROVE  /\ Tail(s) \in Seq(S) /\ Len(s) \in Nat /\ Len(Tail(s)) = Len(s) - 1
           /\ Head(s) \in S /\ Head(s) = s[1]
           /\ Tail(s) # <<>> => Tail(s)[Len(Tail(s))] = s[Len(s)]
           /\ Tail(s) = <<>> => s[Len(s)] = Head(s)
<1>1. Len(s) \in Nat /\ Len(s) > 0 /\ Tail(s) \in Seq(S) /\ Len(Tail(s)) = Len(s) - 1
  OBVIOUS
<1>2. Head(s) \in S /\ Head(s) = s[1]
  OBVIOUS
<1>3. \A i \in 1 .. Len(Tail(s)) : Tail(s)[i] = s[i + 1]
  OBVIOUS
<1>4. Tail(s) # <<>> => Len(Tail(s)) \in 1 .. Len(Tail(s)) /\ Len(Tail(s)) + 1 = Len(s)
  BY <1>1
<1>5. Tail(s) # <<>> => Tail(s)[Len(Tail(s))] = s[Len(s)]
  BY <1>3, <1>4
<1>6. Tail(s) = <<>> => Len(s) = 1
  <2>1. Len(<<>>) = 0
    OBVIOUS
  <2>2. Tail(s) = <<>> => Len(Tail(s)) = 0
    BY <2>1, Zenon
  <2> QED
    BY <1>1, <2>2
<1> QED
  BY <1>1, <1>2, <1>5, <1>6

\* What is left to do after an item, and in what order Num Lock is pressed.
LEMMA ItemDone ==
    ASSUME TypistInv, items # <<>>, items' = Tail(items), down' = FALSE,
           UNCHANGED <<pc, transport, toggle_numlock>>
    PROVE  /\ ListInv'
           /\ Pending' \in 0 .. 2 /\ Pending \in 0 .. 2 /\ Pending' <= Pending
           /\ pc # "idle"
           /\ pc \in {"numlock", "restore"} => Item = NumLockTap /\ items' = <<>>
<1> USE DEF TypistInv
<1>1. items \in Seq(Items) /\ Tail(items) \in Seq(Items)
  BY TailOfItems DEF ListInv
<1>2. pc = "text" => Tail(items) \in Seq(TextItems)
  BY TailOfItems DEF ListInv
<1>3. pc = "final" => Tail(items) = <<>>
  <2>1. Tail(<<Release>>) = <<>>
    OBVIOUS
  <2> QED
    BY <2>1 DEF ListInv
<1>4. pc \in {"numlock", "restore"} => Item = NumLockTap /\ Tail(items) = <<>>
  <2> HIDE DEF NumLockTap
  <2>1. Tail(<<NumLockTap>>) = <<>> /\ Head(<<NumLockTap>>) = NumLockTap
    OBVIOUS
  <2> QED
    BY <2>1 DEF ListInv, Item
<1>5. pc # "idle"
  BY DEF ListInv
<1>6. ListInv'
  BY <1>1, <1>2, <1>3, <1>4, <1>5 DEF ListInv
<1>7. Pending' \in 0 .. 2 /\ Pending \in 0 .. 2 /\ Pending' <= Pending
  BY <1>4 DEF Pending, KeyYetToCome
<1> QED
  BY <1>4, <1>5, <1>6, <1>7

LEMMA SendItemKeeps == ASSUME TypistInv, SendItem PROVE TypistInv'
<1> USE DEF TypistInv
<1>1. /\ items # <<>>
      /\ UNCHANGED <<pc, p, err, losses, silent, transport, layout, str, mode, toggle_numlock,
                     s_host_leds, s_leds_valid, texts, numlock0, ready>>
  BY SendStep DEF Frame, ledVars
<1>2. texts \in Nat /\ leds \in Seq(BOOLEAN) /\ Len(leds) \in Nat
  BY TypeStringAssumption DEF StateInv, LedInv
<1>3. CASE \/ ~Item.tap /\ ~down /\ report' = NoKeyDown
           \/ Item.tap /\ down /\ report' = [mod |-> Item.up, kc |-> 0]
  <2>1. /\ items' = Tail(items) /\ down' = FALSE /\ UNCHANGED <<numlock, leds>>
        /\ report'.kc = 0
    <3>1. items' = Tail(items) /\ down' = FALSE /\ UNCHANGED <<numlock, leds>>
      BY <1>3, SendStep
    <3>2. report' = NoKeyDown \/ report' = [mod |-> Item.up, kc |-> 0]
      BY <1>3
    <3>3. report'.kc = 0
      BY <3>2 DEF NoKeyDown
    <3> QED
      BY <3>1, <3>3
  <2>2. /\ ListInv' /\ Pending' \in 0 .. 2 /\ Pending \in 0 .. 2 /\ Pending' <= Pending
        /\ pc # "idle"
        /\ pc \in {"numlock", "restore"} => Item = NumLockTap /\ items' = <<>>
    BY <1>1, <2>1, ItemDone
  <2>3. StateInv'
    BY <1>1, <2>1 DEF StateInv
  <2>4. LedInv'
    BY <1>1, <1>2, <2>1, <2>2 DEF LedInv
  <2>5. ASSUME ~silent PROVE HostInv'
    <3>1. pc \in {"numlock", "restore"} => down
      BY <1>3, <2>2 DEF NumLockTap, Tap
    <3>2. Toggled' = Toggled
      BY <1>1, <2>1, <2>2, <3>1 DEF Toggled, KeyYetToCome
    <3>3. Tail(items) = <<>> => items[Len(items)] = Item
      BY <1>1, TailOfItems DEF ListInv, Item
    <3>4. Tail(items) # <<>> => Tail(items)[Len(Tail(items))] = items[Len(items)]
      BY <1>1, TailOfItems DEF ListInv
    <3>5. transport = "ble" => EndsClean(items) /\ EndsClean(items')
      BY <1>1, <2>1, <2>5, <3>4 DEF HostInv, EndsClean
    <3>6. transport = "ble" /\ items' = <<>> => report' = NoKeyDown
      <4>1. SUFFICES ASSUME transport = "ble", items' = <<>>, Item.tap PROVE Item.up = {}
        BY <1>3 DEF NoKeyDown
      <4> QED
        BY <1>1, <2>1, <3>3, <3>5, <4>1 DEF EndsClean
    <3>7. pc = "final" /\ items' = <<>> => report' = NoKeyDown
      <4>1. pc = "final" => ~Item.tap
        <5>1. Head(<<Release>>) = Release /\ ~Release.tap
          BY DEF Release
        <5> QED
          BY <1>1, <5>1 DEF ListInv, Item
      <4> QED
        BY <4>1, <1>3
    <3>8. Quiet' => report' = NoKeyDown
      BY <1>1, <2>1, <2>2, <3>6, <3>7 DEF Quiet, KeyYetToCome
    <3> QED
      BY <1>1, <2>1, <2>5, <3>2, <3>5, <3>8 DEF HostInv, NUM_LOCK
  <2> QED
    BY <1>1, <2>2, <2>3, <2>4, <2>5 DEF HostInv
<1>4. CASE Item.tap /\ ~down
  <2>1. items' = items /\ down' = TRUE /\ report'.kc = Item.kc
    BY <1>4, SendStep
  <2>2. IF Item.kc = NUM_LOCK /\ report.kc # NUM_LOCK
        THEN /\ numlock' = ~numlock
             /\ leds' = IF transport = "usb" THEN Append(leds, ~numlock) ELSE leds
        ELSE UNCHANGED <<numlock, leds>>
    BY <1>4, SendStep
  <2>3. numlock' \in BOOLEAN
    BY <2>2 DEF StateInv
  <2>4. StateInv'
    BY <1>1, <2>3 DEF StateInv
  <2>5. ListInv'
    BY <1>1, <1>4, <2>1 DEF ListInv, Item
  <2>6. pc \in {"text", "numlock", "restore"}
    <3>1. Head(<<Release>>) = Release /\ ~Release.tap
      BY DEF Release
    <3> QED
      BY <1>1, <1>4, <3>1 DEF ListInv, Item, StateInv
  <2>7. pc = "text" => Item.kc # NUM_LOCK
    <3>1. pc = "text" => Item \in TextItems
      BY <1>1, TailOfItems DEF ListInv, Item
    <3> QED
      BY <1>4, <3>1 DEF TextItems
  <2>8. pc \in {"numlock", "restore"} => Item.kc = NUM_LOCK
    <3>1. Head(<<NumLockTap>>) = NumLockTap /\ NumLockTap.kc = NUM_LOCK
      BY DEF NumLockTap, Tap
    <3> QED
      BY <1>1, <3>1 DEF ListInv, Item
  <2>9. CASE pc = "text"
    <3>1. UNCHANGED <<numlock, leds>>
      BY <2>2, <2>7, <2>9
    <3>2. LedInv'
      BY <1>1, <2>9, <3>1 DEF LedInv, Pending
    <3>3. HostInv'
      BY <1>1, <2>1, <2>7, <2>9, <3>1 DEF HostInv, Toggled, Quiet, EndsClean
    <3> QED
      BY <2>4, <2>5, <3>2, <3>3
  <2>10. CASE pc \in {"numlock", "restore"}
    <3>1. transport # "ble"
      BY <2>10 DEF ListInv, LedInv
    <3>2. leds' = leds \/ leds' = Append(leds, ~numlock)
      BY <2>2
    <3>3. leds' \in Seq(BOOLEAN) /\ Len(leds') <= Len(leds) + 1 /\ Len(leds') \in Nat
      <4> DEFINE b == ~numlock
      <4>1. b \in BOOLEAN
        OBVIOUS
      <4>2. leds' = leds \/ leds' = Append(leds, b)
        BY <3>2
      <4> HIDE DEF b
      <4> QED
        BY <1>2, <4>1, <4>2
    <3>4. Pending \in 0 .. 2 /\ Pending' = Pending - 1
      BY <1>1, <1>4, <2>1, <2>10 DEF Pending, KeyYetToCome
    <3>5. LedInv'
      BY <1>1, <1>2, <3>1, <3>3, <3>4 DEF LedInv
    <3>6. HostInv'
      <4>1. SUFFICES ASSUME ~silent PROVE HostInv'
        BY <1>1 DEF HostInv
      <4>2. report.kc # NUM_LOCK
        BY <1>4, <4>1 DEF HostInv
      <4>3. numlock' = ~numlock
        BY <2>2, <2>8, <2>10, <4>2
      <4>4. Toggled' = ~Toggled /\ Toggled \in BOOLEAN
        BY <1>1, <1>4, <2>1, <2>10 DEF Toggled, KeyYetToCome
      <4>5. numlock' = (IF Toggled' THEN ~numlock0' ELSE numlock0')
        BY <1>1, <4>1, <4>3, <4>4 DEF HostInv, StateInv
      <4>6. ~Quiet'
        BY <1>1, <2>1, <2>10, <3>1 DEF Quiet, KeyYetToCome
      <4> QED
        BY <1>1, <2>1, <2>10, <3>1, <4>5, <4>6 DEF HostInv
    <3> QED
      BY <2>4, <2>5, <3>5, <3>6
  <2> QED
    BY <2>6, <2>9, <2>10
<1> QED
  BY <1>3, <1>4, SendStep

LEMMA SendFailsKeeps == ASSUME TypistInv, SendFails PROVE TypistInv'
<1> USE DEF TypistInv
<1>1. /\ items # <<>> /\ losses < MaxLoss /\ losses' = losses + 1
      /\ silent' = (silent \/ ~Checked)
      /\ UNCHANGED <<pc, p, transport, layout, str, mode, toggle_numlock, s_host_leds, s_leds_valid,
                     texts, numlock0, ready, numlock, report, leds>>
  BY DEF SendFails, Frame, ledVars, host
<1>2. err' \in BOOLEAN /\ silent' \in BOOLEAN
  <2>1. err' = TRUE \/ err' = err
    BY DEF SendFails, StateInv
  <2> QED
    BY <1>1, <2>1 DEF StateInv
<1>3. StateInv'
  BY <1>1, <1>2, TypeStringAssumption DEF StateInv
<1>4. texts \in Nat /\ leds \in Seq(BOOLEAN) /\ Len(leds) \in Nat
  BY TypeStringAssumption DEF StateInv, LedInv
<1>5. CASE Checked
  <2>1. transport = "usb" /\ pc = "text" /\ silent' = silent
    <3>1. silent' = silent
      <4>1. silent \in BOOLEAN
        BY DEF StateInv
      <4> QED
        BY <1>1, <1>5, <4>1
    <3> QED
      BY <1>5, <3>1 DEF Checked
  <2>2. down' = FALSE /\ (items' = <<>> \/ items' = <<Release>>)
    BY <1>5 DEF SendFails, Checked
  <2>3. items' \in Seq(Items) /\ items' \in Seq(TextItems)
    BY <2>2, ShortLists
  <2>4. ListInv'
    BY <1>1, <2>1, <2>2, <2>3 DEF ListInv
  <2>5. LedInv'
    BY <1>1, <2>1 DEF LedInv, Pending
  <2>6. HostInv'
    BY <1>1, <2>1, <2>2 DEF HostInv, Toggled, Quiet
  <2> QED
    BY <1>3, <2>4, <2>5, <2>6
<1>6. CASE ~Checked /\ ~(Item.tap /\ ~down /\ transport = "ble")
  <2>1. items' = Tail(items) /\ down' = FALSE
    <3>1. CASE transport = "usb"
      BY <1>6, <3>1 DEF SendFails
    <3>2. CASE transport = "ble"
      <4>1. AfterReport
        BY <1>6, <3>2 DEF SendFails
      <4> QED
        BY <1>6, <3>2, <4>1 DEF AfterReport, ListInv
    <3> QED
      BY <3>1, <3>2 DEF StateInv
  <2>2. ListInv' /\ Pending' \in 0 .. 2 /\ Pending \in 0 .. 2 /\ Pending' <= Pending
    BY <1>1, <2>1, ItemDone
  <2>3. LedInv'
    BY <1>1, <1>4, <2>2 DEF LedInv
  <2>4. HostInv'
    BY <1>1, <1>6 DEF HostInv
  <2> QED
    BY <1>3, <2>2, <2>3, <2>4
<1>7. CASE ~Checked /\ Item.tap /\ ~down /\ transport = "ble"
  <2>1. AfterReport
    BY <1>7 DEF SendFails
  <2>2. items' = items /\ down' = TRUE
    BY <1>7, <2>1 DEF AfterReport
  <2>3. ListInv'
    BY <1>1, <1>7, <2>2 DEF ListInv, Item
  <2>4. ~toggle_numlock /\ leds = <<>> /\ ~s_leds_valid /\ pc # "numlock" /\ pc # "restore"
    BY <1>7 DEF LedInv, ListInv
  <2>5. Pending' = 0 /\ Pending = 0
    BY <1>1, <2>4 DEF Pending
  <2>6. LedInv'
    BY <1>1, <2>4, <2>5 DEF LedInv
  <2>7. HostInv'
    BY <1>1, <1>7 DEF HostInv
  <2> QED
    BY <1>3, <2>3, <2>6, <2>7
<1> QED
  BY <1>5, <1>6, <1>7

LEMMA StepKeeps == TypistInv /\ [Next]_vars => TypistInv'
<1> SUFFICES ASSUME TypistInv, [Next]_vars PROVE TypistInv'
  OBVIOUS
<1>1. ASSUME NEW t \in Texts, NEW m \in Modes, TypeString(t, m) PROVE TypistInv'
  BY <1>1, TypeStringKeeps
<1>2. CASE NextChar
  BY <1>2, NextCharKeeps
<1>3. CASE EndText
  BY <1>3, EndTextKeeps
<1>4. CASE EndPhase
  BY <1>4, EndPhaseKeeps
<1>5. CASE SendItem
  BY <1>5, SendItemKeeps
<1>6. CASE SendFails
  BY <1>6, SendFailsKeeps
<1>7. CASE LedReport
  BY <1>7, LedReportKeeps
<1>8. CASE UNCHANGED vars
  <2>1. UNCHANGED <<transport, layout, pc, str, p, mode, items, down, err, toggle_numlock,
                    s_host_leds, s_leds_valid, report, numlock, leds, texts, losses, numlock0,
                    ready, silent>>
    BY <1>8 DEF vars, typist, ledVars, host
  <2>2. StateInv' /\ ListInv'
    BY <2>1 DEF TypistInv, StateInv, ListInv, Item
  <2>3. LedInv' /\ HostInv'
    BY <2>1 DEF TypistInv, LedInv, Pending, KeyYetToCome, HostInv, Toggled, Quiet, EndsClean
  <2> QED
    BY <2>2, <2>3 DEF TypistInv
<1> QED
  BY <1>1, <1>2, <1>3, <1>4, <1>5, <1>6, <1>7, <1>8 DEF Next, Typing

LEMMA TypistAlways == Spec => []TypistInv
BY InitTypist, StepKeeps, PTL DEF Spec

\* Whatever bytes a text is made of, type_string never moves past its terminator,
\* goes through its phases with a key down only while its tap is not finished, and
\* makes the host report Num Lock at most twice for a text.
THEOREM TypeCorrect == Spec => []TypeOK
<1>1. TypistInv => TypeOK
  <2> SUFFICES ASSUME TypistInv PROVE TypeOK
    OBVIOUS
  <2> USE DEF TypistInv
  <2>1. {down, err, toggle_numlock, s_host_leds, s_leds_valid, numlock, numlock0, ready,
         silent} \subseteq BOOLEAN
    BY DEF StateInv, ListInv
  <2>2. Len(leds) <= 2 * texts
    <3>1. Pending \in 0 .. 2 /\ texts \in Nat /\ Len(leds) \in Nat
      BY TypeStringAssumption DEF Pending, StateInv, LedInv
    <3> QED
      BY <3>1 DEF LedInv
  <2> QED
    BY <2>1, <2>2 DEF TypeOK, StateInv, ListInv
<1> QED
  BY <1>1, TypistAlways, PTL

\* When type_string has returned, also early after a tap that could not be sent, no
\* key or modifier is down and Num Lock is as it was, unless a report was lost
\* whose result the code does not look at.
THEOREM NoTraceLeft == Spec => []LeftClean
<1>1. TypistInv => LeftClean
  BY DEF TypistInv, HostInv, Quiet, Toggled, LeftClean
<1> QED
  BY <1>1, TypistAlways, PTL
=============================================================================
