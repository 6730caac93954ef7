------------------------------ MODULE MCHotkey ------------------------------
(***************************************************************************)
(* Constants of Hotkey for TLC: a trigger key k, a plain key x, a modifier  *)
(* m and a media key v; two payloads of at most one tap.                    *)
(***************************************************************************)
EXTENDS Hotkey, TLC

CONSTANTS k, x, m, v, password, code, empty

MCTaps == password :> <<[mod |-> {m}, keys |-> {x}]>> @@ code :> <<>> @@ empty :> <<>>

SlotWith(mods, key, cc, type, payload, match, replace) ==
    [active |-> TRUE, consumer_code |-> cc, modifiers |-> mods, keycode |-> key,
     type |-> type, payload |-> payload, match_mode |-> match, replace_mode |-> replace]

\* m+k, modifiers kept; k with any modifiers; the media key.
KeepSlot == SlotWith({m}, k, NoCode, "text", password, 0, 1)
AnySlot == SlotWith({}, k, NoCode, "totp", code, 1, 0)
MediaSlot == SlotWith({}, NoKey, v, "text", password, 0, 0)

JigOff == [on |-> NoCombo, off |-> NoCombo, enabled |-> FALSE]
JigToggle == [on |-> [mod |-> {m}, key |-> x], off |-> NoCombo, enabled |-> TRUE]

MCSlotValues == {KeepSlot, AnySlot, MediaSlot}
MCJigConfigs == {JigOff, JigToggle}
KeepOrAny == {KeepSlot, AnySlot}
KeepOnly == [n \in Index |-> IF n = 0 THEN KeepSlot ELSE ZeroSlot]
KeepThenAny == [n \in Index |-> IF n = 0 THEN KeepSlot ELSE AnySlot]
PressX == "jiggler" :> [mod |-> {}, keys |-> {x}] @@ "mqtt" :> [mod |-> {m}, keys |-> {x}]
PlainX == {[mod |-> {}, key |-> x]}
=============================================================================
