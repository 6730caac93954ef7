------------------------------ MODULE HidReport ------------------------------
(***************************************************************************)
(* The report every part of the firmware exchanges (hid_defs.h) and the    *)
(* pure predicates the hotkey engine decides with (hotkey.c:109-141).      *)
(*                                                                         *)
(* A modifier byte is the set of modifier keys whose bits are set.  The    *)
(* six keycode bytes are the set of keys that are down; a zero byte is a   *)
(* free place, so "some byte is zero" means fewer than six keys are down.  *)
(***************************************************************************)
EXTENDS FiniteSets, Integers

CONSTANTS Keys,      \* non-zero keycodes
          ModKeys,   \* modifier keys (bits of the modifier byte)
          Codes,     \* non-zero Consumer Control usage IDs
          NoKey,     \* keycode 0
          NoCode     \* consumer code 0

ASSUME HidReportAssumption == NoKey \notin Keys /\ NoCode \notin Codes

\* What the keyboard part of a report carries (hid_keyboard_report_t).
KeyboardState == [mod : SUBSET ModKeys, keys : SUBSET Keys]
Report == [mod : SUBSET ModKeys, keys : SUBSET Keys, cc : Codes \cup {NoCode}]

Released == [mod |-> {}, keys |-> {}]
KeyboardReport(k) == [mod |-> k.mod, keys |-> k.keys, cc |-> NoCode]
\* A Consumer Control event leaves the keyboard fields zero; its release
\* (code 0) is therefore the all-zero report.
ConsumerReport(c) == [mod |-> {}, keys |-> {}, cc |-> c]
KeyboardPart(r) == [mod |-> r.mod, keys |-> r.keys]

IsAllZero(r) == r.cc = NoCode /\ r.mod = {} /\ r.keys = {}

\* A combination is a modifier byte and a keycode; keycode 0 is "not set".
Combo == [mod : SUBSET ModKeys, key : Keys \cup {NoKey}]
KbComboMatches(r, combo) ==
    /\ combo.key # NoKey
    /\ r.cc = NoCode
    /\ r.mod = combo.mod
    /\ combo.key \in r.keys

\* The trigger of a slot.  The comparison is per byte, so keycode 0 is found
\* in every report that has a free place.
ReportMatches(r, s) ==
    IF s.consumer_code # NoCode
    THEN r.cc = s.consumer_code
    ELSE /\ s.match_mode = 0 => r.mod = s.modifiers
         /\ IF s.keycode = NoKey THEN Cardinality(r.keys) < 6
                                 ELSE s.keycode \in r.keys
==============================================================================
