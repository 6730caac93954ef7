------------------------------- MODULE HidText -------------------------------
(***************************************************************************)
(* The conversions of hid_text.c and the key tables of the typing code.       *)
(* Bytes and code points are numbers.                                        *)
(***************************************************************************)
EXTENDS Integers, SequencesExt

ReplacementChar == 65533

\* A C string has no zero but its terminator, the byte after the last one.
Bytes == 1 .. 255
ByteAt(s, i) == IF i <= Len(s) THEN s[i] ELSE 0

Continuation == 128 .. 191
\* Number of continuation bytes a lead byte announces; -1 for a stray byte.
Extra(c) == CASE c < 128 -> 0
              [] c \in 192 .. 223 -> 1
              [] c \in 224 .. 239 -> 2
              [] c \in 240 .. 247 -> 3
              [] OTHER -> -1
LeadBits(c) == CASE c < 128 -> c
                 [] c \in 192 .. 223 -> c % 32
                 [] c \in 224 .. 239 -> c % 16
                 [] OTHER -> c % 8

\* The bits of the lead byte, then six of each continuation byte.
CodePoint(s, p, extra) ==
    LET Joined(v, i) == v * 64 + (ByteAt(s, p + i) % 64)
        v0 == LeadBits(ByteAt(s, p))
    IN CASE extra = 1 -> Joined(v0, 1)
         [] extra = 2 -> Joined(Joined(v0, 1), 2)
         [] extra = 3 -> Joined(Joined(Joined(v0, 1), 2), 3)
         [] OTHER -> v0

\* The code point at p and the place after it.  A malformed byte is skipped alone.
hid_utf8_next(s, p) ==
    LET extra == Extra(ByteAt(s, p))
        wellFormed == extra >= 0 /\ \A i \in 1 .. extra : ByteAt(s, p + i) \in Continuation
    IN CASE ByteAt(s, p) = 0 -> [cp |-> 0, next |-> p]
         [] ~wellFormed -> [cp |-> ReplacementChar, next |-> p + 1]
         [] OTHER -> [cp |-> CodePoint(s, p, extra), next |-> p + extra + 1]

\* What repeated calls make of a string.
Decoded(s) ==
    LET from[q \in 1 .. Len(s) + 1] ==
            LET r == hid_utf8_next(s, q)
            IN IF r.cp = 0 THEN <<>> ELSE <<r.cp>> \o from[r.next]
    IN from[1]

\* CP1252 from 0x80 on, where it differs from Latin-1; 0 for an unassigned byte.
Cp1252High ==
    << 8364, 0, 8218, 402, 8222, 8230, 8224, 8225, 710, 8240, 352, 8249, 338, 0, 381, 0,
       0, 8216, 8217, 8220, 8221, 8226, 8211, 8212, 732, 8482, 353, 8250, 339, 0, 382, 376 >>

hid_cp1252_from_codepoint(cp) ==
    CASE cp < 128 \/ cp \in 160 .. 255 -> cp
      [] \E i \in 1 .. 32 : Cp1252High[i] = cp /\ cp # 0 ->
            127 + CHOOSE i \in 1 .. 32 : Cp1252High[i] = cp
      [] OTHER -> -1

\* s_ascii_map: the key of a US keyboard is named by what it types without Shift.
ShiftedSymbols == <<33, 34, 35, 36, 37, 38, 40, 41, 42, 43, 58, 60, 62, 63, 64, 94, 95,
                    123, 124, 125, 126>>
UnderSymbols   == <<49, 39, 51, 52, 53, 55, 57, 48, 56, 61, 59, 44, 46, 47, 50, 54, 45,
                    91, 92, 93, 96>>
s_ascii_map(cp) ==
    CASE cp \in 65 .. 90 -> [kc |-> cp + 32, mod |-> {"shift"}]
      [] \E i \in DOMAIN ShiftedSymbols : ShiftedSymbols[i] = cp ->
            [kc |-> UnderSymbols[CHOOSE i \in DOMAIN ShiftedSymbols : ShiftedSymbols[i] = cp],
             mod |-> {"shift"}]
      [] OTHER -> [kc |-> cp, mod |-> {}]

\* What the key types with Shift on a US keyboard.
ShiftOf(kc) ==
    CASE kc \in 97 .. 122 -> kc - 32
      [] \E i \in DOMAIN UnderSymbols : UnderSymbols[i] = kc ->
            ShiftedSymbols[CHOOSE i \in DOMAIN UnderSymbols : UnderSymbols[i] = kc]
      [] OTHER -> kc

\* The digits of a number, and the number of digits.
Digits(v, base) ==
    LET n == CHOOSE k \in 1 .. 8 : v < base ^ k /\ (k = 1 \/ v >= base ^ (k - 1))
    IN [i \in 1 .. n |-> (v \div base ^ (n - i)) % base]
\* The host keeps the last 24 bits of a number that is too long.
NumberOf(digits, base) == FoldLeft(LAMBDA v, d : (v * base + d) % 16777216, 0, digits)
=============================================================================
