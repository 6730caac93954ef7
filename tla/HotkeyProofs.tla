---------------------------- MODULE HotkeyProofs ----------------------------
(***************************************************************************)
(* Proofs about Hotkey, for every set of keys, modifiers, slots and         *)
(* injectors and every value of the bounds.                                 *)
(***************************************************************************)
EXTENDS Hotkey, SequenceTheorems, TLAPS

KbDown(r) == r.cc = NoCode /\ ~IsAllZero(r)

\* Every keyboard report with something down has a release behind it.
Settled(q) ==
    \A n \in 1 .. Len(q) : KbDown(q[n].r) => \E p \in n + 1 .. Len(q) : IsAllZero(q[p].r)
ReleasePending(q) == \E n \in 1 .. Len(q) : IsAllZero(q[n].r)

HostClean == host.keys = {} /\ host.mod \in {{}, job.restore_mods}
InjectorHolds == \E t \in Injectors : inj[t] = "held"
Undisturbed == losses = 0 /\ intrusions = 0

\* The reload never overtakes its source: the table has a place for the slot
\* that is being copied.
ReloadProgress ==
    /\ rpc \in {"read", "count"} => s_slot_count <= load_i
    /\ rpc \in {"head", "body"} => s_slot_count \in 1 .. load_i + 1
    /\ rpc \in {"count", "head", "body"} => load_i < HOTKEY_SLOTS_MAX

\* A key that is to be released was pressed.
TapBound == tpc = "up" => tap <= Len(Text)

TypingFlag == s_typing <=> tpc \notin {"wait", "mark"}

\* The slot that fires is a place of the table, even after the count was reset.
FireBound == epc = "fire" => slot_i < HOTKEY_SLOTS_MAX

\* One report at most can be past the check when the flag goes up.
IntrusionBound ==
    s_typing => /\ intrusions <= 1
                /\ intrusions = 1 => epc \in {"idle", "consumer"}

CurrentReport ==
    /\ epc # "idle" => cur.r = s_last_report
    /\ epc \in {"dispatch", "scan", "fire"} => ~IsAllZero(cur.r)

\* When the keyboard is released its release is the last thing it said ...
ReleaseReported == phys = Released => Settled(inbox)
\* ... and is still to come while the engine holds an earlier report.
ReleaseFollows ==
    phys = Released /\ epc \in {"dispatch", "scan", "fire", "send"} /\ KbDown(cur.r) =>
        ReleasePending(inbox)

\* After the final release of the typist the host is clean.
CleanAfterTyping ==
    Undisturbed /\ tpc \in {"restore", "done"} => HostClean \/ InjectorHolds
\* Outside a typing a key that is down on the host is held, or is about to be
\* released by a report, a typing or an injector.
CleanOrReleased ==
    Undisturbed /\ tpc = "wait" /\ phys = Released =>
        \/ HostClean \/ InjectorHolds \/ s_type_queue # <<>>
        \/ ReleasePending(inbox)
        \/ epc = "send" /\ IsAllZero(cur.r)
\* A release that the duplicate filter will drop has nothing to release.
CleanAfterRelease ==
    Undisturbed /\ tpc = "wait" /\ epc \in {"idle", "consumer"} /\ IsAllZero(s_last_report) =>
        HostClean \/ InjectorHolds \/ s_type_queue # <<>>

HotkeyInv ==
    /\ TypeOK /\ ReloadProgress /\ TapBound /\ FireBound /\ TypingFlag /\ IntrusionBound /\ ConsumerReleaseOwed
    /\ CurrentReport /\ ReleaseReported /\ ReleaseFollows
    /\ CleanAfterTyping /\ CleanOrReleased /\ CleanAfterRelease

-----------------------------------------------------------------------------
\* What a notification adds to the inbox: the same report, once or twice.
LEMMA NotifyAppends ==
    ASSUME NEW r \in Report, inbox \in Seq(Entry), Notify(r)
    PROVE  /\ inbox' \in Seq(Entry)
           /\ Len(inbox') > Len(inbox)
           /\ \A n \in 1 .. Len(inbox) : inbox'[n] = inbox[n]
           /\ \A n \in Len(inbox) + 1 .. Len(inbox') : inbox'[n].r = r
  <1>1. CASE Mirrored
    <2> DEFINE copies == <<[r |-> r, copy |-> FALSE], [r |-> r, copy |-> TRUE]>>
    <2>1. copies \in Seq(Entry) /\ Len(copies) = 2
      BY DEF Entry
    <2>2. inbox' = inbox \o copies
      BY <1>1 DEF Notify
    <2> QED  BY <2>1, <2>2, ConcatProperties
  <1>2. CASE ~Mirrored
    <2> DEFINE copies == <<[r |-> r, copy |-> FALSE]>>
    <2>1. copies \in Seq(Entry) /\ Len(copies) = 1
      BY DEF Entry
    <2>2. inbox' = inbox \o copies
      BY <1>2 DEF Notify
    <2> QED  BY <2>1, <2>2, ConcatProperties
  <1> QED  BY <1>1, <1>2

\* What the engine takes from the inbox, and what it leaves.
LEMMA InboxHead ==
    ASSUME inbox \in Seq(Entry), inbox # <<>>
    PROVE  /\ Len(inbox) \in Nat \ {0}
           /\ Head(inbox) \in Entry /\ Head(inbox) = inbox[1]
           /\ Tail(inbox) \in Seq(Entry) /\ Len(Tail(inbox)) = Len(inbox) - 1
           /\ \A n \in 1 .. Len(inbox) - 1 : Tail(inbox)[n] = inbox[n + 1]
  BY HeadTailProperties, EmptySeq

-----------------------------------------------------------------------------
\* The frames of the actions.
USE DEF keyboardVars, engineVars, tableVars, typistVars, webVars, injVars, hostVars,
        TypistFrame, WebFrame, InjectorFrame

LEMMA InitInv == Init => HotkeyInv
  <1> SUFFICES ASSUME Init PROVE HotkeyInv
    OBVIOUS
  <1> USE HotkeyAssumption, HidReportAssumption DEF Init
  <1>1. NoReport \in Report /\ Released \in KeyboardState
    BY DEF NoReport, ConsumerReport, Report, Released, KeyboardState
  <1>2. TypeOK
    <2>1. ZeroSlot \in Slot /\ NoJob \in Job /\ NoCombo \in Combo
      BY DEF ZeroSlot, Slot, NoJob, Job, NoCombo, Combo
    <2>2. InitSlots \in [Index -> Slot] /\ InitJig \in JigConfig
      BY <2>1
    <2>3. KeyboardTypeOK
      BY <1>1 DEF KeyboardTypeOK
    <2>4. EngineTypeOK
      BY <1>1 DEF EngineTypeOK, Entry
    <2>5. TableTypeOK /\ QueueTypeOK
      BY <2>1 DEF TableTypeOK, QueueTypeOK
    <2>6. TypistTypeOK
      <3>1. s_typing \in BOOLEAN
        BY Zenon
      <3> QED  BY <2>1, <3>1 DEF TypistTypeOK
    <2>7. WebTypeOK
      BY <2>2 DEF WebTypeOK
    <2>8. InjectorTypeOK
      BY <2>2 DEF InjectorTypeOK, JigConfig
    <2>9. HostTypeOK /\ HistoryTypeOK
      BY <1>1 DEF HostTypeOK, HistoryTypeOK
    <2> QED  BY <2>3, <2>4, <2>5, <2>6, <2>7, <2>8, <2>9 DEF TypeOK
  <1>3. ReloadProgress /\ TapBound /\ FireBound /\ TypingFlag /\ IntrusionBound /\ ConsumerReleaseOwed /\ CurrentReport
    BY DEF ReloadProgress, TapBound, FireBound, TypingFlag, IntrusionBound, ConsumerReleaseOwed,
           CurrentReport
  <1>4. ReleaseReported /\ ReleaseFollows
    BY DEF ReleaseReported, ReleaseFollows, Settled
  <1>5. HostClean
    BY DEF HostClean, Released
  <1>6. CleanAfterTyping /\ CleanOrReleased /\ CleanAfterRelease
    BY <1>5 DEF CleanAfterTyping, CleanOrReleased, CleanAfterRelease
  <1> QED  BY <1>2, <1>3, <1>4, <1>6 DEF HotkeyInv

-----------------------------------------------------------------------------
\* Which actions write which part of the state.
LEMMA Writers ==
    [Next]_vars =>
      /\ UNCHANGED keyboardVars \/ KeyChange \/ MediaKeyChange \/ EnterDrop \/ EnterAccept
      /\ UNCHANGED engineVars \/ WindowPasses \/ Engine
      /\ UNCHANGED tableVars \/ Reload
      /\ UNCHANGED s_type_queue \/ Fire \/ TypistReceive
      /\ UNCHANGED typistVars \/ Typist
      /\ UNCHANGED webVars \/ JigglerHotkey \/ StoreSlot \/ StoreJiggler \/ Reload
      /\ UNCHANGED jig_enabled \/ JigglerHotkey \/ StoreJiggler
      /\ UNCHANGED injVars \/ \E t \in Injectors : InjectPress(t) \/ InjectRelease(t)
      /\ \/ UNCHANGED hostVars \/ ForwardKeyboard \/ ForwardConsumer \/ ReleaseConsumer
         \/ Typist \/ \E t \in Injectors : InjectPress(t) \/ InjectRelease(t)
      /\ UNCHANGED intrusions \/ ForwardKeyboard \/ Typist
      /\ UNCHANGED overlap \/ EnterAccept \/ StoreSlot \/ StoreJiggler
  <1>1. Keyboard => UNCHANGED <<tableVars, s_type_queue, typistVars, webVars, jig_enabled,
                                injVars, hostVars, intrusions, overlap>>
    BY DEF Keyboard, KeyChange, MediaKeyChange, WindowPasses
  <1>2. KeyChange \/ MediaKeyChange => UNCHANGED engineVars
    BY DEF KeyChange, MediaKeyChange
  <1>3. WindowPasses => UNCHANGED keyboardVars
    BY DEF WindowPasses
  <1>4. Engine => UNCHANGED <<tableVars, typistVars, injVars>>
    BY DEF Engine, EnterDrop, EnterAccept, JigglerHotkey, OutDispatch, StartScan, ScanSlot,
           ScanEnd, Fire, ForwardKeyboard, ForwardConsumer, ReleaseConsumer
  <1>5. \/ JigglerHotkey \/ OutDispatch \/ StartScan \/ ScanSlot \/ ScanEnd \/ Fire
        \/ ForwardKeyboard \/ ForwardConsumer \/ ReleaseConsumer
        => UNCHANGED <<keyboardVars, overlap>>
    BY DEF JigglerHotkey, OutDispatch, StartScan, ScanSlot, ScanEnd, Fire, ForwardKeyboard,
           ForwardConsumer, ReleaseConsumer
  <1>6. \/ EnterDrop \/ EnterAccept \/ OutDispatch \/ StartScan \/ ScanSlot \/ ScanEnd \/ Fire
        \/ ForwardKeyboard \/ ForwardConsumer \/ ReleaseConsumer
        => UNCHANGED <<webVars, jig_enabled>>
    BY DEF EnterDrop, EnterAccept, OutDispatch, StartScan, ScanSlot, ScanEnd, Fire,
           ForwardKeyboard, ForwardConsumer, ReleaseConsumer
  <1>7. \/ EnterDrop \/ EnterAccept \/ JigglerHotkey \/ OutDispatch \/ StartScan \/ ScanSlot
        \/ ScanEnd \/ ForwardKeyboard \/ ForwardConsumer \/ ReleaseConsumer
        => UNCHANGED s_type_queue
    BY DEF EnterDrop, EnterAccept, JigglerHotkey, OutDispatch, StartScan, ScanSlot, ScanEnd,
           ForwardKeyboard, ForwardConsumer, ReleaseConsumer
  <1>8. \/ EnterDrop \/ EnterAccept \/ JigglerHotkey \/ OutDispatch \/ StartScan \/ ScanSlot
        \/ ScanEnd \/ Fire
        => UNCHANGED <<hostVars, intrusions>>
    BY DEF EnterDrop, EnterAccept, JigglerHotkey, OutDispatch, StartScan, ScanSlot, ScanEnd, Fire
  <1>9. EnterDrop => UNCHANGED overlap
    BY DEF EnterDrop
  <1>10. ForwardConsumer \/ ReleaseConsumer => UNCHANGED intrusions
    BY DEF ForwardConsumer, ReleaseConsumer
  <1>11. Typist => UNCHANGED <<keyboardVars, engineVars, tableVars, webVars, jig_enabled,
                               injVars, overlap>>
    BY DEF Typist, TypistReceive, TypistMark, TypistClear, TypistKeyDown, TypistKeyUp,
           TypistFinalRelease, TypistRestore, TypistDone
  <1>12. Typist => TypistReceive \/ UNCHANGED s_type_queue
    BY DEF Typist, TypistMark, TypistClear, TypistKeyDown, TypistKeyUp,
           TypistFinalRelease, TypistRestore, TypistDone
  <1>13. Web => UNCHANGED <<keyboardVars, engineVars, s_type_queue, typistVars, injVars,
                            hostVars, intrusions>>
    BY DEF Web, StoreSlot, StoreJiggler, Reload, ReloadBegin, ReloadRead, ReloadCount,
           ReloadHead, ReloadBody, ReloadJiggler
  <1>14. StoreSlot \/ StoreJiggler => UNCHANGED tableVars
    BY DEF StoreSlot, StoreJiggler
  <1>15. StoreSlot \/ Reload => UNCHANGED jig_enabled
    BY DEF StoreSlot, Reload, ReloadBegin, ReloadRead, ReloadCount,
           ReloadHead, ReloadBody, ReloadJiggler
  <1>16. Reload => UNCHANGED overlap
    BY DEF Reload, ReloadBegin, ReloadRead, ReloadCount, ReloadHead, ReloadBody, ReloadJiggler
  <1>17. (\E t \in Injectors : InjectPress(t) \/ InjectRelease(t)) =>
             UNCHANGED <<keyboardVars, engineVars, tableVars, s_type_queue, typistVars, webVars,
                         jig_enabled, intrusions, overlap>>
    BY DEF InjectPress, InjectRelease
  <1> HIDE DEF keyboardVars, engineVars, tableVars, typistVars, webVars, injVars, hostVars
  <1>18. UNCHANGED vars => UNCHANGED <<keyboardVars, engineVars, tableVars, s_type_queue,
                 typistVars, webVars, jig_enabled, injVars, hostVars, intrusions, overlap>>
    BY DEF vars
  <1> QED
    BY <1>1, <1>2, <1>3, <1>4, <1>5, <1>6, <1>7, <1>8, <1>9, <1>10, <1>11, <1>12, <1>13,
       <1>14, <1>15, <1>16, <1>17, <1>18
    DEF Next, Keyboard, Engine, Web

-----------------------------------------------------------------------------
(* Type correctness.                                                         *)

LEMMA KeyboardTypeStep == TypeOK /\ [Next]_vars => KeyboardTypeOK'
  <1> SUFFICES ASSUME TypeOK, [Next]_vars PROVE KeyboardTypeOK'
    OBVIOUS
  <1> USE DEF TypeOK, KeyboardTypeOK
  <1>1. CASE KeyChange
    <2>1. PICK kb \in KeyboardState : phys' = kb /\ Notify(KeyboardReport(kb))
      BY <1>1 DEF KeyChange
    <2>2. KeyboardReport(kb) \in Report
      BY DEF KeyboardReport, KeyboardState, Report
    <2>3. inbox' \in Seq(Entry)
      BY <2>1, <2>2, NotifyAppends
    <2> QED  BY <1>1, <2>1, <2>3 DEF KeyChange
  <1>2. CASE MediaKeyChange
    <2>1. PICK c \in Codes \cup {NoCode} : phys_cc' = c /\ Notify(ConsumerReport(c))
      BY <1>2 DEF MediaKeyChange
    <2>2. ConsumerReport(c) \in Report
      BY DEF ConsumerReport, Report
    <2>3. inbox' \in Seq(Entry)
      BY <2>1, <2>2, NotifyAppends
    <2> QED  BY <1>2, <2>1, <2>3 DEF MediaKeyChange
  <1>3. CASE EnterDrop \/ EnterAccept
    <2>1. inbox # <<>> /\ inbox' = Tail(inbox) /\ UNCHANGED <<phys, phys_cc, events>>
      BY <1>3 DEF EnterDrop, EnterAccept
    <2> QED  BY <2>1, InboxHead
  <1>4. CASE UNCHANGED keyboardVars
    BY <1>4
  <1> QED  BY <1>1, <1>2, <1>3, <1>4, Writers

LEMMA EngineTypeStep == TypeOK /\ [Next]_vars => EngineTypeOK'
  <1> SUFFICES ASSUME TypeOK, [Next]_vars PROVE EngineTypeOK'
    OBVIOUS
  <1> USE DEF EngineTypeOK
  <1>0. EngineTypeOK /\ inbox \in Seq(Entry)
    BY DEF TypeOK, KeyboardTypeOK
  <1>1. CASE WindowPasses
    <2>1. recent' \in BOOLEAN
      BY <1>1, Zenon DEF WindowPasses
    <2> QED  BY <1>0, <1>1, <2>1 DEF WindowPasses
  <1>2. CASE EnterDrop
    <2>1. taken' \in BOOLEAN
      BY <1>0, <1>2, Zenon DEF EnterDrop
    <2>2. UNCHANGED <<epc, cur, slot_i, s_last_report, recent, s_had_consumer>>
      BY <1>2 DEF EnterDrop
    <2> QED  BY <1>0, <2>1, <2>2
  <1>3. CASE EnterAccept
    <2>1. taken' \in BOOLEAN /\ recent' \in BOOLEAN
      BY <1>0, <1>3, Zenon DEF EnterAccept
    <2>2. cur' \in Entry /\ s_last_report' \in Report
      BY <1>0, <1>3, InboxHead DEF EnterAccept, Entry
    <2>3. UNCHANGED <<slot_i, s_had_consumer>> /\ epc' \in {"send", "dispatch"}
      BY <1>3 DEF EnterAccept
    <2> QED  BY <1>0, <2>1, <2>2, <2>3
  <1>4. CASE JigglerHotkey \/ OutDispatch \/ StartScan \/ ScanSlot \/ ScanEnd \/ Fire
             \/ ForwardKeyboard
    <2>1. /\ epc' \in {"idle", "scan", "fire", "send", "consumer"}
          /\ slot_i' \in {0, slot_i, slot_i + 1}
          /\ UNCHANGED <<cur, s_last_report, recent, s_had_consumer, taken>>
      BY <1>0, <1>4 DEF JigglerHotkey, OutDispatch, StartScan, ScanSlot, ScanEnd, Fire,
                        ForwardKeyboard
    <2> QED  BY <1>0, <2>1
  <1>5. CASE ForwardConsumer \/ ReleaseConsumer
    <2>1. s_had_consumer' \in BOOLEAN
      BY <1>5, Zenon DEF ForwardConsumer, ReleaseConsumer
    <2>2. epc' = "idle" /\ UNCHANGED <<cur, slot_i, s_last_report, recent, taken>>
      BY <1>5 DEF ForwardConsumer, ReleaseConsumer
    <2> QED  BY <1>0, <2>1, <2>2
  <1>6. CASE UNCHANGED engineVars
    BY <1>0, <1>6
  <1> QED  BY <1>1, <1>2, <1>3, <1>4, <1>5, <1>6, Writers DEF Engine

LEMMA TableTypeStep == TypeOK /\ ReloadProgress /\ [Next]_vars => TableTypeOK' /\ WebTypeOK'
  <1> SUFFICES ASSUME TypeOK, ReloadProgress, [Next]_vars PROVE TableTypeOK' /\ WebTypeOK'
    OBVIOUS
  <1> USE DEF TableTypeOK, WebTypeOK
  <1>0. TableTypeOK /\ WebTypeOK /\ HOTKEY_SLOTS_MAX \in Nat
    BY HotkeyAssumption DEF TypeOK
  <1>1. CASE ReloadBegin
    BY <1>0, <1>1 DEF ReloadBegin
  <1>2. CASE ReloadRead
    BY <1>0, <1>2 DEF ReloadRead
  <1>3. CASE ReloadCount
    BY <1>0, <1>3 DEF ReloadCount, ReloadProgress
  <1>4. CASE ReloadHead
    <2>1. s_slot_count - 1 \in Index /\ load_i \in Index
      BY <1>0, <1>4 DEF ReloadHead, ReloadProgress, Index
    <2> DEFINE old == s_slots[s_slot_count - 1]
    <2>2. old \in Slot /\ nvs[load_i] \in Slot
      BY <1>0, <2>1
    <2>3. [nvs[load_i] EXCEPT !.active = @, !.type = old.type, !.payload = old.payload,
             !.match_mode = old.match_mode, !.replace_mode = old.replace_mode] \in Slot
      BY <2>2 DEF Slot
    <2> QED  BY <1>0, <1>4, <2>1, <2>3 DEF ReloadHead
  <1>5. CASE ReloadBody
    <2>1. s_slot_count - 1 \in Index /\ load_i \in Index
      BY <1>0, <1>5 DEF ReloadBody, ReloadProgress, Index
    <2>2. nvs[load_i] \in Slot /\ load_i + 1 \in 0 .. HOTKEY_SLOTS_MAX
      BY <1>0, <2>1 DEF Index
    <2> QED  BY <1>0, <1>5, <2>1, <2>2 DEF ReloadBody
  <1>6. CASE ReloadJiggler
    BY <1>0, <1>6 DEF ReloadJiggler, JigConfig
  <1>7. CASE StoreSlot
    <2>1. SlotValues \cup {ZeroSlot} \subseteq Slot
      <3>1. ZeroSlot \in Slot
        BY HotkeyAssumption DEF ZeroSlot, Slot
      <3> QED  BY <3>1, HotkeyAssumption
    <2>2. nvs' \in [Index -> Slot]
      BY <1>0, <1>7, <2>1 DEF StoreSlot
    <2> QED  BY <1>0, <1>7, <2>2 DEF StoreSlot
  <1>8. CASE StoreJiggler
    <2>1. JigConfigs \subseteq JigConfig
      BY HotkeyAssumption
    <2> QED  BY <1>0, <1>8, <2>1 DEF StoreJiggler
  <1>9. CASE JigglerHotkey
    <2>1. jig_enabled' \in BOOLEAN
      BY <1>9, Zenon DEF JigglerHotkey
    <2>2. nvs_jig' \in JigConfig
      BY <1>0, <1>9, <2>1 DEF JigglerHotkey, JigConfig
    <2> QED  BY <1>0, <1>9, <2>2 DEF JigglerHotkey
  <1>10. UNCHANGED tableVars => TableTypeOK'
    BY <1>0
  <1>11. UNCHANGED webVars => WebTypeOK'
    BY <1>0
  <1>12. StoreSlot \/ StoreJiggler \/ JigglerHotkey => TableTypeOK'
    BY <1>7, <1>8, <1>9
  <1> QED  BY <1>1, <1>2, <1>3, <1>4, <1>5, <1>6, <1>7, <1>8, <1>9, <1>10, <1>11, <1>12,
              Writers DEF Reload

LEMMA QueueTypeStep == TypeOK /\ FireBound /\ [Next]_vars => QueueTypeOK'
  <1> SUFFICES ASSUME TypeOK, FireBound, [Next]_vars PROVE QueueTypeOK'
    OBVIOUS
  <1> USE DEF QueueTypeOK
  <1>0. QueueTypeOK /\ TYPE_QUEUE_LEN \in Nat
    BY HotkeyAssumption DEF TypeOK
  <1>1. CASE Fire
    <2> DEFINE new == SlotJob(s_slots[slot_i])
    <2>1. slot_i \in Index
      BY <1>1, HotkeyAssumption DEF Fire, FireBound, Index, TypeOK, EngineTypeOK
    <2>2. s_slots[slot_i].payload \in Payloads
      BY <2>1 DEF TypeOK, TableTypeOK, Slot
    <2>3. cur.r.mod \in SUBSET ModKeys
      BY DEF TypeOK, EngineTypeOK, Entry, Report
    <2>4. new \in Job
      BY <2>2, <2>3 DEF SlotJob, RestoreMods, Job
    <2>5. \/ s_type_queue' = s_type_queue
          \/ Len(s_type_queue) < TYPE_QUEUE_LEN /\ s_type_queue' = Append(s_type_queue, new)
      BY <1>1 DEF Fire
    <2> HIDE DEF new
    <2>6. /\ Len(s_type_queue) \in Nat
          /\ Append(s_type_queue, new) \in Seq(Job)
          /\ Len(Append(s_type_queue, new)) = Len(s_type_queue) + 1
      BY <1>0, <2>4, AppendProperties, LenProperties
    <2> QED  BY <1>0, <2>5, <2>6
  <1>2. CASE TypistReceive
    BY <1>0, <1>2, HeadTailProperties, LenProperties DEF TypistReceive
  <1>3. CASE UNCHANGED s_type_queue
    BY <1>0, <1>3
  <1> QED  BY <1>1, <1>2, <1>3, Writers

LEMMA TypistTypeStep == TypeOK /\ [Next]_vars => TypistTypeOK'
  <1> SUFFICES ASSUME TypeOK, [Next]_vars PROVE TypistTypeOK'
    OBVIOUS
  <1> USE DEF TypistTypeOK
  <1>0. TypistTypeOK /\ s_type_queue \in Seq(Job)
    BY DEF TypeOK, QueueTypeOK
  <1>1. CASE TypistReceive
    BY <1>0, <1>1, HeadTailProperties DEF TypistReceive
  <1>2. CASE TypistMark
    BY <1>0, <1>2 DEF TypistMark
  <1>3. CASE TypistDone
    <2>1. s_typing' \in BOOLEAN
      BY <1>3, Zenon DEF TypistDone
    <2> QED  BY <1>0, <1>3, <2>1 DEF TypistDone
  <1>4. CASE TypistClear \/ TypistKeyDown \/ TypistKeyUp \/ TypistFinalRelease \/ TypistRestore
    <2>1. /\ tpc' \in {"type", "up", "final", "restore", "done"}
          /\ tap' \in {1, tap, tap + 1}
          /\ UNCHANGED <<s_typing, job>>
      BY <1>4 DEF TypistClear, TypistKeyDown, TypistKeyUp, TypistFinalRelease, TypistRestore
    <2> QED  BY <1>0, <2>1
  <1>5. CASE UNCHANGED typistVars
    BY <1>0, <1>5
  <1> QED  BY <1>1, <1>2, <1>3, <1>4, <1>5, Writers DEF Typist

LEMMA InjectorTypeStep == TypeOK /\ [Next]_vars => InjectorTypeOK'
  <1> SUFFICES ASSUME TypeOK, [Next]_vars PROVE InjectorTypeOK'
    OBVIOUS
  <1> USE DEF InjectorTypeOK
  <1>0. InjectorTypeOK
    BY DEF TypeOK
  <1>1. jig_enabled' \in BOOLEAN
    <2>1. JigglerHotkey => jig_enabled' \in BOOLEAN
      BY Zenon DEF JigglerHotkey
    <2>2. StoreJiggler => jig_enabled' \in BOOLEAN
      BY HotkeyAssumption DEF StoreJiggler, JigConfig
    <2>3. UNCHANGED jig_enabled => jig_enabled' \in BOOLEAN
      BY <1>0
    <2> QED  BY <2>1, <2>2, <2>3, Writers
  <1>2. inj' \in [Injectors -> {"idle", "held"}] /\ injections' \in Nat
    <2>1. ASSUME NEW t \in Injectors, InjectPress(t) PROVE <1>2!1 /\ <1>2!2
      BY <1>0, <2>1 DEF InjectPress
    <2>2. ASSUME NEW t \in Injectors, InjectRelease(t) PROVE <1>2!1 /\ <1>2!2
      BY <1>0, <2>2 DEF InjectRelease
    <2>3. CASE UNCHANGED injVars
      BY <1>0, <2>3
    <2> QED  BY <2>1, <2>2, <2>3, Writers
  <1> QED  BY <1>1, <1>2

LEMMA SendKeepsType ==
    ASSUME HostTypeOK, NEW kb \in KeyboardState, SendReport(kb)
    PROVE  host' \in KeyboardState /\ losses' \in Nat
  BY DEF HostTypeOK, SendReport

LEMMA HostTypeStep == TypeOK /\ TapBound /\ [Next]_vars => HostTypeOK'
  <1> SUFFICES ASSUME TypeOK, TapBound, [Next]_vars PROVE HostTypeOK'
    OBVIOUS
  <1> USE DEF HostTypeOK
  <1>0. HostTypeOK
    BY DEF TypeOK
  <1>r. Released \in KeyboardState
    BY DEF Released, KeyboardState
  <1>1. CASE ForwardKeyboard
    <2>1. KeyboardPart(cur.r) \in KeyboardState
      BY DEF TypeOK, EngineTypeOK, Entry, Report, KeyboardPart, KeyboardState
    <2> QED  BY <1>0, <1>1, <2>1 DEF ForwardKeyboard, SendReport
  <1>2. CASE ForwardConsumer
    <2>1. cur.r.cc \in Codes \cup {NoCode}
      BY DEF TypeOK, EngineTypeOK, Entry, Report
    <2> QED  BY <1>0, <1>2, <2>1 DEF ForwardConsumer, SendConsumer
  <1>3. CASE ReleaseConsumer
    BY <1>0, <1>3 DEF ReleaseConsumer, SendConsumer
  <1>4. CASE Typist
    <2>0. /\ Text \in Seq(KeyboardState) /\ job.restore_mods \in SUBSET ModKeys
          /\ tap \in Nat \ {0}
      BY HotkeyAssumption DEF TypeOK, TypistTypeOK, Job, Text
    <2>t. tap <= Len(Text) => /\ Text[tap] \in KeyboardState
                              /\ [Text[tap] EXCEPT !.keys = {}] \in KeyboardState
      <3>1. tap <= Len(Text) => Text[tap] \in KeyboardState
        BY <2>0, LenProperties, ElementOfSeq
      <3> QED  BY <3>1 DEF KeyboardState
    <2>1. CASE TypistReceive \/ TypistMark \/ TypistDone
      BY <1>0, <2>1 DEF TypistReceive, TypistMark, TypistDone
    <2>2. CASE TypistClear \/ TypistFinalRelease
      BY <1>0, <1>r, <2>2 DEF TypistClear, TypistFinalRelease, SendReport
    <2>3. CASE TypistKeyDown
      BY <1>0, <2>t, <2>3 DEF TypistKeyDown, SendReport
    <2>4. CASE TypistKeyUp
      <3>1. [Text[tap] EXCEPT !.keys = {}] \in KeyboardState
        BY <2>t, <2>4 DEF TypistKeyUp, TapBound
      <3>2. SendReport([Text[tap] EXCEPT !.keys = {}]) /\ UNCHANGED host_cc
        BY <2>4 DEF TypistKeyUp
      <3> QED  BY <1>0, <3>1, <3>2, SendKeepsType
    <2>5. CASE TypistRestore
      <3>1. [mod |-> job.restore_mods, keys |-> {}] \in KeyboardState
        BY <2>0 DEF KeyboardState
      <3>2. SendReport([mod |-> job.restore_mods, keys |-> {}]) /\ UNCHANGED host_cc
        BY <2>5 DEF TypistRestore
      <3> QED  BY <1>0, <3>1, <3>2, SendKeepsType
    <2> QED  BY <1>4, <2>1, <2>2, <2>3, <2>4, <2>5 DEF Typist
  <1>5. ASSUME NEW t \in Injectors, InjectPress(t) \/ InjectRelease(t) PROVE HostTypeOK'
    <2>1. Injected[t] \in KeyboardState
      BY HotkeyAssumption
    <2> QED  BY <1>0, <1>r, <1>5, <2>1 DEF InjectPress, InjectRelease, SendReport
  <1>6. CASE UNCHANGED hostVars
    BY <1>0, <1>6
  <1> QED  BY <1>1, <1>2, <1>3, <1>4, <1>5, <1>6, Writers

LEMMA HistoryTypeStep == TypeOK /\ [Next]_vars => HistoryTypeOK'
  <1> SUFFICES ASSUME TypeOK, [Next]_vars PROVE HistoryTypeOK'
    OBVIOUS
  <1>0. HistoryTypeOK
    BY DEF TypeOK
  <1>1. intrusions' \in Nat
    <2>1. ForwardKeyboard => intrusions' \in Nat
      BY <1>0 DEF ForwardKeyboard, HistoryTypeOK
    <2>2. Typist => intrusions' \in Nat
      BY <1>0 DEF Typist, TypistReceive, TypistMark, TypistClear, TypistKeyDown, TypistKeyUp,
                  TypistFinalRelease, TypistRestore, TypistDone, HistoryTypeOK
    <2>3. UNCHANGED intrusions => intrusions' \in Nat
      BY <1>0 DEF HistoryTypeOK
    <2> QED  BY <2>1, <2>2, <2>3, Writers
  <1>2. overlap' \in BOOLEAN
    <2>1. EnterAccept \/ StoreSlot \/ StoreJiggler => overlap' \in BOOLEAN
      BY Zenon DEF EnterAccept, StoreSlot, StoreJiggler
    <2>2. UNCHANGED overlap => overlap' \in BOOLEAN
      BY <1>0 DEF HistoryTypeOK
    <2> QED  BY <2>1, <2>2, Writers
  <1> QED  BY <1>1, <1>2 DEF HistoryTypeOK

LEMMA TypeStep ==
    TypeOK /\ ReloadProgress /\ TapBound /\ FireBound /\ [Next]_vars => TypeOK'
  BY KeyboardTypeStep, EngineTypeStep, TableTypeStep, QueueTypeStep, TypistTypeStep,
     InjectorTypeStep, HostTypeStep, HistoryTypeStep DEF TypeOK

-----------------------------------------------------------------------------
(* Control: where each task is.                                              *)

LEMMA ReloadProgressStep == TypeOK /\ ReloadProgress /\ [Next]_vars => ReloadProgress'
  <1> SUFFICES ASSUME TypeOK, ReloadProgress, [Next]_vars PROVE ReloadProgress'
    OBVIOUS
  <1>0. /\ s_slot_count \in 0 .. HOTKEY_SLOTS_MAX /\ load_i \in 0 .. HOTKEY_SLOTS_MAX
        /\ HOTKEY_SLOTS_MAX \in Nat
    BY HotkeyAssumption DEF TypeOK, TableTypeOK, WebTypeOK
  <1>1. CASE Reload
    BY <1>0, <1>1 DEF Reload, ReloadBegin, ReloadRead, ReloadCount, ReloadHead, ReloadBody,
                      ReloadJiggler, ReloadProgress
  <1>2. CASE StoreSlot \/ StoreJiggler
    BY <1>2 DEF StoreSlot, StoreJiggler, ReloadProgress
  <1>3. CASE JigglerHotkey
    BY <1>3 DEF JigglerHotkey, ReloadProgress
  <1>4. CASE UNCHANGED webVars /\ UNCHANGED tableVars
    BY <1>4 DEF ReloadProgress
  <1>5. UNCHANGED webVars => UNCHANGED tableVars \/ Reload
    BY Writers
  <1> QED  BY <1>1, <1>2, <1>3, <1>4, <1>5, Writers

LEMMA TapBoundStep == TapBound /\ [Next]_vars => TapBound'
  <1> SUFFICES ASSUME TapBound, [Next]_vars PROVE TapBound'
    OBVIOUS
  <1> USE DEF TapBound, Text
  <1>1. CASE TypistKeyDown
    BY <1>1 DEF TypistKeyDown
  <1>2. CASE Typist /\ ~TypistKeyDown
    BY <1>2 DEF Typist, TypistReceive, TypistMark, TypistClear, TypistKeyUp,
                TypistFinalRelease, TypistRestore, TypistDone
  <1>3. CASE UNCHANGED typistVars
    BY <1>3
  <1> QED  BY <1>1, <1>2, <1>3, Writers

LEMMA FireBoundStep == TypeOK /\ FireBound /\ [Next]_vars => FireBound'
  <1> SUFFICES ASSUME TypeOK, FireBound, [Next]_vars PROVE FireBound'
    OBVIOUS
  <1> USE DEF FireBound
  <1>0. slot_i \in Nat /\ s_slot_count \in 0 .. HOTKEY_SLOTS_MAX /\ HOTKEY_SLOTS_MAX \in Nat
    BY HotkeyAssumption DEF TypeOK, EngineTypeOK, TableTypeOK
  <1>1. CASE ScanSlot
    BY <1>0, <1>1 DEF ScanSlot
  <1>2. CASE Engine /\ ~ScanSlot
    BY <1>2 DEF Engine, EnterDrop, EnterAccept, JigglerHotkey, OutDispatch, StartScan,
                ScanEnd, Fire, ForwardKeyboard, ForwardConsumer, ReleaseConsumer
  <1>3. CASE WindowPasses \/ UNCHANGED engineVars
    BY <1>3 DEF WindowPasses
  <1> QED  BY <1>1, <1>2, <1>3, Writers

LEMMA TypingFlagStep == TypingFlag /\ [Next]_vars => TypingFlag'
  <1> SUFFICES ASSUME TypingFlag, [Next]_vars PROVE TypingFlag'
    OBVIOUS
  <1> USE DEF TypingFlag
  <1>1. CASE Typist
    BY <1>1 DEF Typist, TypistReceive, TypistMark, TypistClear, TypistKeyDown, TypistKeyUp,
                TypistFinalRelease, TypistRestore, TypistDone
  <1>2. CASE UNCHANGED typistVars
    BY <1>2
  <1> QED  BY <1>1, <1>2, Writers

LEMMA CurrentReportStep == CurrentReport /\ [Next]_vars => CurrentReport'
  <1> SUFFICES ASSUME CurrentReport, [Next]_vars PROVE CurrentReport'
    OBVIOUS
  <1> USE DEF CurrentReport
  <1>1. CASE EnterAccept
    BY <1>1 DEF EnterAccept
  <1>2. CASE EnterDrop
    BY <1>2 DEF EnterDrop
  <1>3. CASE \/ JigglerHotkey \/ OutDispatch \/ StartScan \/ ScanSlot \/ ScanEnd \/ Fire
             \/ ForwardKeyboard \/ ForwardConsumer \/ ReleaseConsumer
    BY <1>3 DEF JigglerHotkey, OutDispatch, StartScan, ScanSlot, ScanEnd, Fire,
                ForwardKeyboard, ForwardConsumer, ReleaseConsumer
  <1>4. CASE WindowPasses \/ UNCHANGED engineVars
    BY <1>4 DEF WindowPasses
  <1> QED  BY <1>1, <1>2, <1>3, <1>4, Writers DEF Engine

LEMMA IntrusionBoundStep ==
    TypeOK /\ TypingFlag /\ IntrusionBound /\ [Next]_vars => IntrusionBound'
  <1> SUFFICES ASSUME TypeOK, TypingFlag, IntrusionBound, [Next]_vars PROVE IntrusionBound'
    OBVIOUS
  <1> USE DEF IntrusionBound
  <1>0. intrusions \in Nat
    BY DEF TypeOK, HistoryTypeOK
  \* The engine lets nothing new in while the flag is up ...
  <1>1. CASE EnterAccept
    BY <1>1 DEF EnterAccept, Dropped
  \* ... and what it had let in before goes out once.
  <1>2. CASE ForwardKeyboard
    BY <1>0, <1>2 DEF ForwardKeyboard
  <1>3. CASE \/ EnterDrop \/ JigglerHotkey \/ OutDispatch \/ StartScan \/ ScanSlot \/ ScanEnd
             \/ Fire \/ ForwardConsumer \/ ReleaseConsumer
    BY <1>3 DEF EnterDrop, JigglerHotkey, OutDispatch, StartScan, ScanSlot, ScanEnd, Fire,
                ForwardConsumer, ReleaseConsumer
  <1>4. CASE Typist
    <2>1. CASE TypistMark
      BY <2>1 DEF TypistMark
    <2>2. CASE TypistDone
      <3>1. ~s_typing'
        BY <2>2, Zenon DEF TypistDone
      <3> QED  BY <3>1
    <2>3. CASE \/ TypistReceive \/ TypistClear \/ TypistKeyDown \/ TypistKeyUp
               \/ TypistFinalRelease \/ TypistRestore
      <3>1. UNCHANGED <<s_typing, intrusions, epc>>
        BY <2>3 DEF TypistReceive, TypistClear, TypistKeyDown, TypistKeyUp,
                    TypistFinalRelease, TypistRestore
      <3> QED  BY <3>1
    <2> QED  BY <1>4, <2>1, <2>2, <2>3 DEF Typist
  <1>5. CASE WindowPasses
    BY <1>5 DEF WindowPasses
  <1>6. CASE UNCHANGED engineVars /\ UNCHANGED typistVars /\ UNCHANGED intrusions
    BY <1>6
  <1>7. UNCHANGED engineVars /\ UNCHANGED typistVars => UNCHANGED intrusions \/ ForwardKeyboard \/ Typist
    BY Writers
  <1> QED  BY <1>1, <1>2, <1>3, <1>4, <1>5, <1>6, <1>7, Writers DEF Engine

LEMMA ConsumerReleaseOwedStep ==
    TypeOK /\ ConsumerReleaseOwed /\ [Next]_vars => ConsumerReleaseOwed'
  <1> SUFFICES ASSUME TypeOK, ConsumerReleaseOwed, [Next]_vars PROVE ConsumerReleaseOwed'
    OBVIOUS
  <1> USE DEF ConsumerReleaseOwed
  <1>0. losses \in Nat
    BY DEF TypeOK, HostTypeOK
  <1>1. CASE ForwardConsumer \/ ReleaseConsumer
    BY <1>0, <1>1 DEF ForwardConsumer, ReleaseConsumer, SendConsumer
  <1>2. CASE \/ EnterDrop \/ EnterAccept \/ JigglerHotkey \/ OutDispatch \/ StartScan
             \/ ScanSlot \/ ScanEnd \/ Fire \/ WindowPasses
    BY <1>2 DEF EnterDrop, EnterAccept, JigglerHotkey, OutDispatch, StartScan, ScanSlot,
                ScanEnd, Fire, WindowPasses
  <1>3. CASE ForwardKeyboard
    BY <1>0, <1>3 DEF ForwardKeyboard, SendReport
  <1>4. CASE Typist
    BY <1>0, <1>4 DEF Typist, TypistReceive, TypistMark, TypistClear, TypistKeyDown,
                TypistKeyUp, TypistFinalRelease, TypistRestore, TypistDone, SendReport
  <1>5. ASSUME NEW t \in Injectors, InjectPress(t) \/ InjectRelease(t)
        PROVE  ConsumerReleaseOwed'
    BY <1>0, <1>5 DEF InjectPress, InjectRelease, SendReport
  <1>6. CASE UNCHANGED hostVars /\ UNCHANGED engineVars
    BY <1>6
  <1> QED  BY <1>1, <1>2, <1>3, <1>4, <1>5, <1>6, Writers DEF Engine

-----------------------------------------------------------------------------
(* The releases on their way to the engine.                                  *)

LEMMA NotifyKeepsRelease ==
    ASSUME NEW r \in Report, inbox \in Seq(Entry), Notify(r),
           ReleasePending(inbox) \/ IsAllZero(r)
    PROVE  ReleasePending(inbox')
  <1>1. /\ inbox' \in Seq(Entry) /\ Len(inbox') > Len(inbox)
        /\ Len(inbox) \in Nat /\ Len(inbox') \in Nat
        /\ \A n \in 1 .. Len(inbox) : inbox'[n] = inbox[n]
        /\ \A n \in Len(inbox) + 1 .. Len(inbox') : inbox'[n].r = r
    BY NotifyAppends, LenProperties
  <1>2. CASE IsAllZero(r)
    <2>1. Len(inbox') \in 1 .. Len(inbox') /\ inbox'[Len(inbox')].r = r
      BY <1>1
    <2> QED  BY <1>2, <2>1 DEF ReleasePending
  <1>3. CASE ReleasePending(inbox)
    <2>1. PICK n \in 1 .. Len(inbox) : IsAllZero(inbox[n].r)
      BY <1>3 DEF ReleasePending
    <2>2. n \in 1 .. Len(inbox') /\ inbox'[n] = inbox[n]
      BY <1>1
    <2> QED  BY <2>1, <2>2 DEF ReleasePending
  <1> QED  BY <1>2, <1>3

LEMMA NotifyKeepsSettled ==
    ASSUME NEW r \in Report, inbox \in Seq(Entry), Notify(r), ~KbDown(r),
           Settled(inbox) \/ IsAllZero(r)
    PROVE  Settled(inbox')
  <1>1. /\ inbox' \in Seq(Entry) /\ Len(inbox') > Len(inbox)
        /\ Len(inbox) \in Nat /\ Len(inbox') \in Nat
        /\ \A n \in 1 .. Len(inbox) : inbox'[n] = inbox[n]
        /\ \A n \in Len(inbox) + 1 .. Len(inbox') : inbox'[n].r = r
    BY NotifyAppends, LenProperties
  <1> SUFFICES ASSUME NEW n \in 1 .. Len(inbox'), KbDown(inbox'[n].r)
               PROVE  \E p \in n + 1 .. Len(inbox') : IsAllZero(inbox'[p].r)
    BY DEF Settled
  <1>2. n \in 1 .. Len(inbox) /\ inbox'[n] = inbox[n]
    BY <1>1
  <1>3. CASE IsAllZero(r)
    <2>1. Len(inbox') \in n + 1 .. Len(inbox') /\ inbox'[Len(inbox')].r = r
      BY <1>1, <1>2
    <2> QED  BY <1>3, <2>1
  <1>4. CASE Settled(inbox)
    <2>1. PICK p \in n + 1 .. Len(inbox) : IsAllZero(inbox[p].r)
      BY <1>2, <1>4 DEF Settled
    <2>2. p \in n + 1 .. Len(inbox') /\ inbox'[p] = inbox[p]
      BY <1>1, <1>2
    <2> QED  BY <2>1, <2>2
  <1> QED  BY <1>3, <1>4

LEMMA TakeKeepsRelease ==
    ASSUME inbox \in Seq(Entry), inbox # <<>>
    PROVE  /\ Settled(inbox) => Settled(Tail(inbox))
           /\ Settled(inbox) /\ KbDown(Head(inbox).r) => ReleasePending(Tail(inbox))
           /\ ReleasePending(inbox) => IsAllZero(Head(inbox).r) \/ ReleasePending(Tail(inbox))
  <1>1. /\ Len(inbox) \in Nat \ {0} /\ Head(inbox) = inbox[1]
        /\ Len(Tail(inbox)) = Len(inbox) - 1
        /\ \A n \in 1 .. Len(inbox) - 1 : Tail(inbox)[n] = inbox[n + 1]
    BY InboxHead
  <1>p. ASSUME NEW n \in 2 .. Len(inbox)
        PROVE  n - 1 \in 1 .. Len(Tail(inbox)) /\ Tail(inbox)[n - 1] = inbox[n]
    BY <1>1
  <1>2. ASSUME Settled(inbox) PROVE Settled(Tail(inbox))
    <2> SUFFICES ASSUME NEW n \in 1 .. Len(Tail(inbox)), KbDown(Tail(inbox)[n].r)
                 PROVE  \E p \in n + 1 .. Len(Tail(inbox)) : IsAllZero(Tail(inbox)[p].r)
      BY DEF Settled
    <2>1. n + 1 \in 1 .. Len(inbox) /\ Tail(inbox)[n] = inbox[n + 1]
      BY <1>1
    <2>2. PICK p \in n + 1 + 1 .. Len(inbox) : IsAllZero(inbox[p].r)
      BY <1>2, <2>1 DEF Settled
    <2>3. p \in 2 .. Len(inbox) /\ p - 1 \in n + 1 .. Len(Tail(inbox))
      BY <1>1
    <2> QED  BY <1>p, <2>2, <2>3
  <1>3. ASSUME Settled(inbox), KbDown(Head(inbox).r) PROVE ReleasePending(Tail(inbox))
    <2>1. 1 \in 1 .. Len(inbox) /\ KbDown(inbox[1].r)
      BY <1>1, <1>3
    <2>2. PICK p \in 1 + 1 .. Len(inbox) : IsAllZero(inbox[p].r)
      BY <1>3, <2>1 DEF Settled
    <2>3. p \in 2 .. Len(inbox)
      BY <1>1
    <2> QED  BY <1>p, <2>2, <2>3 DEF ReleasePending
  <1>4. ASSUME ReleasePending(inbox), ~IsAllZero(Head(inbox).r)
        PROVE  ReleasePending(Tail(inbox))
    <2>1. PICK n \in 1 .. Len(inbox) : IsAllZero(inbox[n].r)
      BY <1>4 DEF ReleasePending
    <2>2. n \in 2 .. Len(inbox)
      BY <1>1, <1>4, <2>1
    <2> QED  BY <1>p, <2>1, <2>2 DEF ReleasePending
  <1> QED  BY <1>2, <1>3, <1>4

\* The reports that the keyboard sends.
LEMMA SentReports ==
    /\ \A k \in KeyboardState : KeyboardReport(k) \in Report
    /\ IsAllZero(KeyboardReport(Released))
    /\ \A c \in Codes \cup {NoCode} : ConsumerReport(c) \in Report /\ ~KbDown(ConsumerReport(c))
  BY DEF KeyboardReport, KeyboardState, Report, Released, ConsumerReport, KbDown, IsAllZero

LEMMA ReleaseReportedStep ==
    TypeOK /\ ReleaseReported /\ [Next]_vars => ReleaseReported'
  <1> SUFFICES ASSUME TypeOK, ReleaseReported, [Next]_vars, phys' = Released
               PROVE  Settled(inbox')
    BY DEF ReleaseReported
  <1>0. inbox \in Seq(Entry)
    BY DEF TypeOK, KeyboardTypeOK
  <1>1. CASE KeyChange
    <2>1. PICK k \in KeyboardState : phys' = k /\ Notify(KeyboardReport(k))
      BY <1>1 DEF KeyChange
    <2>2. IsAllZero(KeyboardReport(k)) /\ ~KbDown(KeyboardReport(k))
      BY <2>1, SentReports DEF KbDown
    <2> QED  BY <1>0, <2>1, <2>2, SentReports, NotifyKeepsSettled
  <1>2. CASE MediaKeyChange
    <2>1. PICK c \in Codes \cup {NoCode} : Notify(ConsumerReport(c))
      BY <1>2 DEF MediaKeyChange
    <2>2. Settled(inbox)
      BY <1>2 DEF MediaKeyChange, ReleaseReported
    <2> QED  BY <1>0, <2>1, <2>2, SentReports, NotifyKeepsSettled
  <1>3. CASE EnterDrop \/ EnterAccept
    <2>1. inbox # <<>> /\ inbox' = Tail(inbox) /\ phys = Released
      BY <1>3 DEF EnterDrop, EnterAccept
    <2> QED  BY <1>0, <2>1, TakeKeepsRelease DEF ReleaseReported
  <1>4. CASE UNCHANGED keyboardVars
    BY <1>4 DEF ReleaseReported
  <1> QED  BY <1>1, <1>2, <1>3, <1>4, Writers

LEMMA ReleaseFollowsStep ==
    TypeOK /\ ReleaseReported /\ ReleaseFollows /\ [Next]_vars => ReleaseFollows'
  <1> SUFFICES ASSUME TypeOK, ReleaseReported, ReleaseFollows, [Next]_vars,
                      phys' = Released, epc' \in {"dispatch", "scan", "fire", "send"},
                      KbDown(cur'.r)
               PROVE  ReleasePending(inbox')
    BY DEF ReleaseFollows
  <1>0. inbox \in Seq(Entry)
    BY DEF TypeOK, KeyboardTypeOK
  <1>1. CASE KeyChange
    <2>1. PICK k \in KeyboardState : phys' = k /\ Notify(KeyboardReport(k))
      BY <1>1 DEF KeyChange
    <2> QED  BY <1>0, <2>1, SentReports, NotifyKeepsRelease
  <1>2. CASE MediaKeyChange
    <2>1. PICK c \in Codes \cup {NoCode} : Notify(ConsumerReport(c))
      BY <1>2 DEF MediaKeyChange
    <2>2. ReleasePending(inbox)
      BY <1>2 DEF MediaKeyChange, ReleaseFollows
    <2> QED  BY <1>0, <2>1, <2>2, SentReports, NotifyKeepsRelease
  <1>3. CASE EnterDrop
    BY <1>3 DEF EnterDrop
  <1>4. CASE EnterAccept
    <2>1. inbox # <<>> /\ inbox' = Tail(inbox) /\ phys = Released /\ cur' = Head(inbox)
      BY <1>4 DEF EnterAccept
    <2> QED  BY <1>0, <2>1, TakeKeepsRelease DEF ReleaseReported
  <1>5. CASE \/ JigglerHotkey \/ OutDispatch \/ StartScan \/ ScanSlot \/ ScanEnd \/ Fire
             \/ ForwardKeyboard \/ ForwardConsumer \/ ReleaseConsumer
    BY <1>5 DEF ReleaseFollows, JigglerHotkey, OutDispatch, StartScan, ScanSlot, ScanEnd, Fire,
                ForwardKeyboard, ForwardConsumer, ReleaseConsumer
  <1>6. CASE UNCHANGED keyboardVars /\ (WindowPasses \/ UNCHANGED engineVars)
    BY <1>6 DEF ReleaseFollows, WindowPasses
  <1> QED  BY <1>1, <1>2, <1>3, <1>4, <1>5, <1>6, Writers DEF Engine

-----------------------------------------------------------------------------
(* The host.                                                                 *)

\* What the steps do to the host when nothing is lost: the last report stays.
LEMMA CleanSends ==
    ASSUME losses \in Nat, losses' = 0
    PROVE  /\ losses = 0 \/ ~UNCHANGED losses
           /\ \A k : SendReport(k) => losses = 0 /\ host' = k
           /\ \A c : SendConsumer(c) => losses = 0
  BY DEF SendReport, SendConsumer

\* No step but the beginning of a typing makes an undisturbed state of a
\* disturbed one.
LEMMA UndisturbedBefore ==
    TypeOK /\ [Next]_vars /\ Undisturbed' => Undisturbed \/ TypistMark
  <1> SUFFICES ASSUME TypeOK, [Next]_vars, Undisturbed' PROVE Undisturbed \/ TypistMark
    OBVIOUS
  <1>0. losses \in Nat /\ intrusions \in Nat /\ losses' = 0 /\ intrusions' = 0
    BY DEF TypeOK, HostTypeOK, HistoryTypeOK, Undisturbed
  <1>1. losses = 0
    <2>1. CASE ForwardKeyboard \/ ForwardConsumer \/ ReleaseConsumer
      BY <1>0, <2>1 DEF ForwardKeyboard, ForwardConsumer, ReleaseConsumer, SendReport,
                        SendConsumer
    <2>2. CASE Typist
      BY <1>0, <2>2 DEF Typist, TypistReceive, TypistMark, TypistClear, TypistKeyDown,
                        TypistKeyUp, TypistFinalRelease, TypistRestore, TypistDone, SendReport
    <2>3. CASE \E t \in Injectors : InjectPress(t) \/ InjectRelease(t)
      BY <1>0, <2>3 DEF InjectPress, InjectRelease, SendReport
    <2>4. CASE UNCHANGED hostVars
      BY <1>0, <2>4
    <2> QED  BY <2>1, <2>2, <2>3, <2>4, Writers
  <1>2. intrusions = 0 \/ TypistMark
    <2>1. CASE ForwardKeyboard
      BY <1>0, <2>1 DEF ForwardKeyboard
    <2>2. CASE Typist
      BY <1>0, <2>2 DEF Typist, TypistReceive, TypistClear, TypistKeyDown, TypistKeyUp,
                        TypistFinalRelease, TypistRestore, TypistDone
    <2>3. CASE UNCHANGED intrusions
      BY <1>0, <2>3
    <2> QED  BY <2>1, <2>2, <2>3, Writers
  <1> QED  BY <1>1, <1>2 DEF Undisturbed

\* An injector that presses holds the host; one that releases cleans it.
LEMMA InjectorCleans ==
    ASSUME TypeOK, Undisturbed', NEW t \in Injectors, InjectPress(t) \/ InjectRelease(t)
    PROVE  HostClean' \/ InjectorHolds'
  <1>0. losses \in Nat /\ losses' = 0 /\ inj \in [Injectors -> {"idle", "held"}]
    BY DEF TypeOK, HostTypeOK, InjectorTypeOK, Undisturbed
  <1>1. CASE InjectPress(t)
    <2>1. inj'[t] = "held"
      BY <1>0, <1>1 DEF InjectPress
    <2> QED  BY <2>1 DEF InjectorHolds
  <1>2. CASE InjectRelease(t)
    <2>1. host' = Released
      BY <1>0, <1>2, CleanSends DEF InjectRelease
    <2> QED  BY <2>1 DEF HostClean, Released
  <1> QED  BY <1>1, <1>2

\* What is clean or held stays so in a step that sends nothing and does not
\* change the job.
LEMMA CleanStays ==
    ASSUME UNCHANGED <<host, job, inj>>
    PROVE  HostClean' = HostClean /\ InjectorHolds' = InjectorHolds
  BY DEF HostClean, InjectorHolds

LEMMA CleanAfterTypingStep ==
    TypeOK /\ TypingFlag /\ CleanAfterTyping /\ [Next]_vars => CleanAfterTyping'
  <1> SUFFICES ASSUME TypeOK, TypingFlag, CleanAfterTyping, [Next]_vars, Undisturbed',
                      tpc' \in {"restore", "done"}
               PROVE  HostClean' \/ InjectorHolds'
    BY DEF CleanAfterTyping
  <1>0. losses \in Nat /\ losses' = 0 /\ intrusions \in Nat /\ intrusions' = 0
    BY DEF TypeOK, HostTypeOK, HistoryTypeOK, Undisturbed
  <1>1. CASE TypistFinalRelease
    <2>1. host' = Released
      BY <1>0, <1>1, CleanSends DEF TypistFinalRelease
    <2> QED  BY <2>1 DEF HostClean, Released
  <1>2. CASE TypistRestore
    <2>1. host' = [mod |-> job.restore_mods, keys |-> {}] /\ job' = job
      BY <1>0, <1>2, CleanSends DEF TypistRestore
    <2> QED  BY <2>1 DEF HostClean
  <1>3. CASE Typist /\ ~TypistFinalRelease /\ ~TypistRestore
    BY <1>3 DEF Typist, TypistReceive, TypistMark, TypistClear, TypistKeyDown, TypistKeyUp,
                TypistDone
  <1>4. ASSUME NEW t \in Injectors, InjectPress(t) \/ InjectRelease(t)
        PROVE  HostClean' \/ InjectorHolds'
    BY <1>4, InjectorCleans
  <1>5. CASE ~Typist /\ ~(\E t \in Injectors : InjectPress(t) \/ InjectRelease(t))
    <2>0. UNCHANGED typistVars /\ UNCHANGED injVars
      BY <1>5, Writers
    <2>1. tpc \in {"restore", "done"} /\ s_typing
      BY <2>0 DEF TypingFlag
    <2>2. ~ForwardKeyboard
      <3>1. ForwardKeyboard => intrusions' = intrusions + 1
        BY <2>1, Zenon DEF ForwardKeyboard
      <3> QED  BY <1>0, <3>1
    <2>3. HostClean \/ InjectorHolds
      <3>1. ~TypistMark
        BY <2>1 DEF TypistMark
      <3> QED  BY <2>1, <3>1, UndisturbedBefore DEF CleanAfterTyping
    <2>4. host' = host
      <3>1. ForwardConsumer \/ ReleaseConsumer => host' = host
        BY DEF ForwardConsumer, ReleaseConsumer
      <3> QED  BY <1>5, <2>2, <3>1, Writers
    <2> QED  BY <2>0, <2>3, <2>4, CleanStays
  <1> QED  BY <1>1, <1>2, <1>3, <1>4, <1>5

\* A step that leaves the typist waiting: the typist has just finished, an
\* injector moved, the engine forwarded a keyboard report, or the host, the job
\* and the injectors are as before.
Bystander == /\ UNCHANGED <<host, job, inj, tpc, s_typing>> /\ tpc = "wait" /\ ~s_typing
             /\ Undisturbed
             /\ s_type_queue # <<>> => s_type_queue' # <<>>
ForwardWhileIdle == ForwardKeyboard /\ UNCHANGED s_type_queue /\ Undisturbed /\ tpc = "wait"

LEMMA WaitingSteps ==
    ASSUME TypeOK, TypingFlag, [Next]_vars, Undisturbed', tpc' = "wait"
    PROVE  \/ TypistDone
           \/ \E t \in Injectors : InjectPress(t) \/ InjectRelease(t)
           \/ ForwardWhileIdle
           \/ Bystander /\ ~ForwardKeyboard
  <1>1. CASE Typist
    BY <1>1 DEF Typist, TypistReceive, TypistMark, TypistClear, TypistKeyDown, TypistKeyUp,
                TypistFinalRelease, TypistRestore
  <1>2. CASE ~Typist /\ ~(\E t \in Injectors : InjectPress(t) \/ InjectRelease(t))
    <2>1. UNCHANGED typistVars /\ UNCHANGED injVars
      BY <1>2, Writers
    <2>2. tpc = "wait" /\ ~s_typing
      BY <2>1 DEF TypingFlag
    <2>3. Undisturbed
      <3>1. ~TypistMark
        BY <2>2 DEF TypistMark
      <3> QED  BY <3>1, UndisturbedBefore
    <2>4. s_type_queue # <<>> => s_type_queue' # <<>>
      <3>1. s_type_queue \in Seq(Job)
        BY DEF TypeOK, QueueTypeOK
      <3>2. Fire /\ s_type_queue # <<>> => s_type_queue' # <<>>
        <4> SUFFICES ASSUME Fire, s_type_queue # <<>>, s_type_queue' # s_type_queue
                     PROVE  s_type_queue' # <<>>
          OBVIOUS
        <4>1. PICK j : s_type_queue' = Append(s_type_queue, j)
          BY DEF Fire
        <4> QED  BY <3>1, <4>1
      <3>3. ~TypistReceive
        BY <1>2 DEF Typist
      <3> QED  BY <3>2, <3>3, Writers
    <2>5. CASE ForwardKeyboard
      <3>1. UNCHANGED s_type_queue
        BY <2>5 DEF ForwardKeyboard
      <3> QED  BY <2>2, <2>3, <2>5, <3>1 DEF ForwardWhileIdle
    <2>6. CASE ~ForwardKeyboard
      <3>1. ForwardConsumer \/ ReleaseConsumer => host' = host
        BY DEF ForwardConsumer, ReleaseConsumer
      <3>2. host' = host
        BY <1>2, <2>6, <3>1, Writers
      <3> QED  BY <2>1, <2>2, <2>3, <2>4, <2>6, <3>2 DEF Bystander
    <2> QED  BY <2>5, <2>6
  <1> QED  BY <1>1, <1>2

\* The typist that has just finished leaves a clean host behind.
LEMMA DoneCleans ==
    ASSUME TypeOK, [Next]_vars, CleanAfterTyping, Undisturbed', TypistDone
    PROVE  HostClean' \/ InjectorHolds'
  <1>1. tpc = "done" /\ UNCHANGED <<host, job, inj>>
    BY DEF TypistDone
  <1>2. Undisturbed
    <2>1. ~TypistMark
      BY <1>1 DEF TypistMark
    <2> QED  BY <2>1, UndisturbedBefore
  <1> QED  BY <1>1, <1>2, CleanStays DEF CleanAfterTyping

\* A release that is forwarded cleans the host.
LEMMA ForwardCleans ==
    ASSUME TypeOK, Undisturbed', ForwardKeyboard, IsAllZero(cur.r)
    PROVE  HostClean'
  <1>1. losses \in Nat /\ losses' = 0
    BY DEF TypeOK, HostTypeOK, Undisturbed
  <1>2. host' = KeyboardPart(cur.r)
    BY <1>1, CleanSends DEF ForwardKeyboard
  <1> QED  BY <1>2 DEF HostClean, KeyboardPart, IsAllZero

LEMMA CleanOrReleasedStep ==
    TypeOK /\ TypingFlag /\ CurrentReport /\ ReleaseFollows /\ CleanAfterTyping
      /\ CleanOrReleased /\ CleanAfterRelease /\ [Next]_vars => CleanOrReleased'
  <1> SUFFICES ASSUME TypeOK, TypingFlag, CurrentReport, ReleaseFollows, CleanAfterTyping,
                      CleanOrReleased, CleanAfterRelease, [Next]_vars,
                      Undisturbed', tpc' = "wait", phys' = Released
               PROVE  \/ HostClean' \/ InjectorHolds' \/ s_type_queue' # <<>>
                      \/ ReleasePending(inbox')
                      \/ epc' = "send" /\ IsAllZero(cur'.r)
    BY DEF CleanOrReleased
  <1>0. inbox \in Seq(Entry)
    BY DEF TypeOK, KeyboardTypeOK
  <1>1. CASE TypistDone
    BY <1>1, DoneCleans
  <1>2. CASE \E t \in Injectors : InjectPress(t) \/ InjectRelease(t)
    BY <1>2, InjectorCleans
  <1>3. CASE ForwardWhileIdle
    <2>1. CASE IsAllZero(cur.r)
      BY <1>3, <2>1, ForwardCleans DEF ForwardWhileIdle
    <2>2. CASE ~IsAllZero(cur.r)
      <3>1. epc = "send" /\ KbDown(cur.r) /\ UNCHANGED keyboardVars
        BY <1>3, <2>2 DEF ForwardWhileIdle, ForwardKeyboard, KbDown
      <3> QED  BY <3>1 DEF ReleaseFollows
    <2> QED  BY <2>1, <2>2
  <1>4. CASE Bystander /\ ~ForwardKeyboard
    <2>0. /\ HostClean' = HostClean /\ InjectorHolds' = InjectorHolds
          /\ s_type_queue # <<>> => s_type_queue' # <<>>
          /\ Undisturbed /\ tpc = "wait" /\ ~s_typing
      BY <1>4, CleanStays DEF Bystander
    <2> DEFINE Before == \/ HostClean \/ InjectorHolds \/ s_type_queue # <<>>
                         \/ ReleasePending(inbox)
                         \/ epc = "send" /\ IsAllZero(cur.r)
    <2>1. phys = Released => Before
      BY <2>0 DEF CleanOrReleased
    <2>2. CASE KeyChange
      <3>1. PICK k \in KeyboardState : phys' = k /\ Notify(KeyboardReport(k))
        BY <2>2 DEF KeyChange
      <3> QED  BY <1>0, <3>1, SentReports, NotifyKeepsRelease
    <2>3. CASE MediaKeyChange
      <3>1. PICK c \in Codes \cup {NoCode} : Notify(ConsumerReport(c))
        BY <2>3 DEF MediaKeyChange
      <3>2. ReleasePending(inbox) => ReleasePending(inbox')
        BY <1>0, <3>1, SentReports, NotifyKeepsRelease
      <3>3. UNCHANGED <<phys, epc, cur>>
        BY <2>3 DEF MediaKeyChange
      <3> QED  BY <2>0, <2>1, <3>2, <3>3
    <2>4. CASE EnterDrop
      <3>1. inbox # <<>> /\ inbox' = Tail(inbox) /\ UNCHANGED <<phys, epc, cur>>
        BY <2>4 DEF EnterDrop
      <3>2. Head(inbox).r = s_last_report /\ epc = "idle"
        BY <2>0, <2>4 DEF EnterDrop, Dropped
      <3>3. IsAllZero(Head(inbox).r) => HostClean \/ InjectorHolds \/ s_type_queue # <<>>
        BY <2>0, <3>2 DEF CleanAfterRelease
      <3>4. ReleasePending(inbox) => IsAllZero(Head(inbox).r) \/ ReleasePending(inbox')
        BY <1>0, <3>1, TakeKeepsRelease
      <3> QED  BY <2>0, <2>1, <3>1, <3>2, <3>3, <3>4
    <2>5. CASE EnterAccept
      <3>1. /\ inbox # <<>> /\ inbox' = Tail(inbox) /\ UNCHANGED phys /\ epc = "idle"
            /\ cur' = Head(inbox)
            /\ IsAllZero(Head(inbox).r) => epc' = "send"
        BY <2>5 DEF EnterAccept
      <3>2. ReleasePending(inbox) => IsAllZero(Head(inbox).r) \/ ReleasePending(inbox')
        BY <1>0, <3>1, TakeKeepsRelease
      <3> QED  BY <2>0, <2>1, <3>1, <3>2
    <2>6. CASE \/ JigglerHotkey \/ OutDispatch \/ StartScan \/ ScanSlot \/ ScanEnd \/ Fire
               \/ ForwardConsumer \/ ReleaseConsumer
      <3>1. /\ UNCHANGED <<phys, inbox, cur>>
            /\ epc \in {"dispatch", "scan", "fire", "consumer"} \/ cur.r.cc # NoCode
        BY <2>6 DEF JigglerHotkey, OutDispatch, StartScan, ScanSlot, ScanEnd, Fire,
                    ForwardConsumer, ReleaseConsumer
      <3>2. ~(epc = "send" /\ IsAllZero(cur.r))
        BY <3>1 DEF IsAllZero
      <3> QED  BY <2>0, <2>1, <3>1, <3>2
    <2>7. CASE UNCHANGED keyboardVars /\ (WindowPasses \/ UNCHANGED engineVars)
      <3>1. UNCHANGED <<phys, inbox, epc, cur>>
        BY <2>7 DEF WindowPasses
      <3> QED  BY <2>0, <2>1, <3>1
    <2> QED  BY <1>4, <2>2, <2>3, <2>4, <2>5, <2>6, <2>7, Writers DEF Engine
  <1> QED  BY <1>1, <1>2, <1>3, <1>4, WaitingSteps

LEMMA CleanAfterReleaseStep ==
    TypeOK /\ TypingFlag /\ CurrentReport /\ CleanAfterTyping /\ CleanAfterRelease
      /\ [Next]_vars => CleanAfterRelease'
  <1> SUFFICES ASSUME TypeOK, TypingFlag, CurrentReport, CleanAfterTyping,
                      CleanAfterRelease, [Next]_vars, Undisturbed', tpc' = "wait",
                      epc' \in {"idle", "consumer"}, IsAllZero(s_last_report')
               PROVE  HostClean' \/ InjectorHolds' \/ s_type_queue' # <<>>
    BY DEF CleanAfterRelease
  <1>1. CASE TypistDone
    BY <1>1, DoneCleans
  <1>2. CASE \E t \in Injectors : InjectPress(t) \/ InjectRelease(t)
    BY <1>2, InjectorCleans
  <1>3. CASE ForwardWhileIdle
    <2>1. ForwardKeyboard /\ IsAllZero(cur.r)
      BY <1>3 DEF ForwardWhileIdle, ForwardKeyboard, CurrentReport
    <2> QED  BY <2>1, ForwardCleans
  <1>4. CASE Bystander /\ ~ForwardKeyboard
    <2>0. /\ HostClean' = HostClean /\ InjectorHolds' = InjectorHolds
          /\ s_type_queue # <<>> => s_type_queue' # <<>>
          /\ Undisturbed /\ tpc = "wait"
      BY <1>4, CleanStays DEF Bystander
    \* What was dispatched is no release, and neither is a media key.
    <2>1. epc \in {"idle", "consumer"} /\ UNCHANGED s_last_report
      <3>1. CASE \/ EnterAccept \/ JigglerHotkey \/ OutDispatch \/ StartScan \/ ScanSlot
                 \/ ScanEnd \/ Fire
        BY <3>1 DEF EnterAccept, JigglerHotkey, OutDispatch, StartScan, ScanSlot, ScanEnd,
                    Fire, CurrentReport
      <3>2. CASE ForwardConsumer
        BY <3>2 DEF ForwardConsumer, CurrentReport, IsAllZero
      <3>3. CASE EnterDrop \/ ReleaseConsumer \/ WindowPasses \/ UNCHANGED engineVars
        BY <3>3 DEF EnterDrop, ReleaseConsumer, WindowPasses
      <3> QED  BY <1>4, <3>1, <3>2, <3>3, Writers DEF Engine
    <2> QED  BY <2>0, <2>1 DEF CleanAfterRelease
  <1> QED  BY <1>1, <1>2, <1>3, <1>4, WaitingSteps

-----------------------------------------------------------------------------
(* Two notifications of one press.                                           *)

\* A copy comes right behind its original.
CopiesFollow ==
    \A n \in 2 .. Len(inbox) :
        inbox[n].copy => ~inbox[n - 1].copy /\ inbox[n - 1].r = inbox[n].r
\* The copy of a press that was accepted will be taken for a duplicate ...
CopyIsDuplicate == CopyDue /\ taken => recent /\ Head(inbox).r = s_last_report
\* ... so that the engine has a copy in hand only if the original was thrown away.
CopyAfterDrop == epc # "idle" /\ cur.copy => ~taken

MirrorInv == CopiesFollow /\ CopyIsDuplicate /\ CopyAfterDrop

\* A notification keeps copies behind their originals and puts no copy first.
LEMMA NotifyCopies ==
    ASSUME NEW r \in Report, inbox \in Seq(Entry), Notify(r), CopiesFollow
    PROVE  CopiesFollow' /\ (CopyDue' => CopyDue /\ Head(inbox') = Head(inbox))
  <1> DEFINE original == [r |-> r, copy |-> FALSE]
             second == [r |-> r, copy |-> TRUE]
             copies == IF Mirrored THEN <<original, second>> ELSE <<original>>
  <1>1. /\ original \in Entry /\ second \in Entry
        /\ ~original.copy /\ original.r = r /\ second.r = r
    BY DEF Entry
  <1>2. /\ copies \in Seq(Entry) /\ Len(copies) \in 1 .. 2
        /\ copies[1] = original
        /\ Len(copies) = 2 => copies[2] = second
    <2> HIDE DEF original, second
    <2> QED  BY <1>1
  <1>3. inbox' = inbox \o copies
    BY DEF Notify
  <1> HIDE DEF original, second, copies
  <1>4. /\ inbox' \in Seq(Entry) /\ Len(inbox) \in Nat /\ Len(inbox') = Len(inbox) + Len(copies)
        /\ \A n \in 1 .. Len(inbox) : inbox'[n] = inbox[n]
        /\ inbox'[Len(inbox) + 1] = original
        /\ Len(copies) = 2 => inbox'[Len(inbox) + 2] = second
    <2>1. /\ inbox' \in Seq(Entry) /\ Len(inbox) \in Nat /\ Len(inbox') = Len(inbox) + Len(copies)
          /\ \A n \in 1 .. Len(inbox) + Len(copies) :
                 inbox'[n] = IF n <= Len(inbox) THEN inbox[n] ELSE copies[n - Len(inbox)]
      BY <1>2, <1>3, ConcatProperties, LenProperties
    <2>2. Len(inbox) + 1 \in 1 .. Len(inbox) + Len(copies) /\ (Len(inbox) + 1) - Len(inbox) = 1
      BY <1>2, <2>1
    <2>3. Len(copies) = 2 => /\ Len(inbox) + 2 \in 1 .. Len(inbox) + Len(copies)
                             /\ (Len(inbox) + 2) - Len(inbox) = 2
      BY <2>1
    <2>4. inbox'[Len(inbox) + 1] = original
      BY <1>2, <2>1, <2>2
    <2>5. Len(copies) = 2 => inbox'[Len(inbox) + 2] = second
      BY <1>2, <2>1, <2>3
    <2>6. ASSUME NEW n \in 1 .. Len(inbox) PROVE inbox'[n] = inbox[n]
      <3>1. n \in 1 .. Len(inbox) + Len(copies) /\ n <= Len(inbox)
        BY <1>2, <2>1
      <3> QED  BY <2>1, <3>1
    <2> QED  BY <2>1, <2>4, <2>5, <2>6
  <1>5. CopiesFollow'
    <2> SUFFICES ASSUME NEW n \in 2 .. Len(inbox'), inbox'[n].copy
                 PROVE  ~inbox'[n - 1].copy /\ inbox'[n - 1].r = inbox'[n].r
      BY DEF CopiesFollow
    <2>1. CASE n <= Len(inbox)
      <3>1. n \in 2 .. Len(inbox) /\ inbox'[n] = inbox[n] /\ inbox'[n - 1] = inbox[n - 1]
        BY <1>4, <2>1
      <3> QED  BY <3>1 DEF CopiesFollow
    <2>2. CASE n > Len(inbox)
      <3>0. n # Len(inbox) + 1
        BY <1>1, <1>4
      <3>1. n = Len(inbox) + 2 /\ n - 1 = Len(inbox) + 1 /\ Len(copies) = 2
        <4>1. Len(inbox) \in Nat /\ Len(copies) \in 1 .. 2 /\ Len(inbox') = Len(inbox) + Len(copies)
          BY <1>2, <1>4
        <4>2. \A a \in Nat : \A b \in 1 .. 2 : \A o \in 2 .. a + b :
                  o > a /\ o # a + 1 => o = a + 2 /\ o - 1 = a + 1 /\ b = 2
          OBVIOUS
        <4>3. n \in 2 .. Len(inbox) + Len(copies)
          BY <4>1
        <4> QED  BY <2>2, <3>0, <4>1, <4>2, <4>3, Zenon
      <3>2. inbox'[n] = second /\ inbox'[n - 1] = original
        BY <1>4, <3>1
      <3> QED  BY <1>1, <3>2
    <2> QED  BY <1>4, <2>1, <2>2
  <1>6. ASSUME CopyDue' PROVE CopyDue /\ Head(inbox') = Head(inbox)
    <2>1. inbox' # <<>> /\ Head(inbox').copy /\ Head(inbox') = inbox'[1]
      BY <1>4, <1>6, HeadTailProperties, EmptySeq DEF CopyDue
    <2>2. CASE inbox = <<>>
      <3>1. inbox'[1] = original
        BY <1>4, <2>2
      <3> QED  BY <1>1, <2>1, <3>1
    <2>3. CASE inbox # <<>>
      <3>1. 1 \in 1 .. Len(inbox) /\ Head(inbox) = inbox[1]
        BY <2>3, InboxHead
      <3> QED  BY <1>4, <2>1, <2>3, <3>1 DEF CopyDue
    <2> QED  BY <2>2, <2>3
  <1> QED  BY <1>5, <1>6

\* What the engine takes has its copy, if it has one, right behind it.
LEMMA TakeCopies ==
    ASSUME inbox \in Seq(Entry), inbox # <<>>, inbox' = Tail(inbox), CopiesFollow
    PROVE  /\ CopiesFollow'
           /\ CopyDue' => ~Head(inbox).copy /\ Head(inbox').r = Head(inbox).r
  <1>1. /\ Len(inbox) \in Nat \ {0} /\ Head(inbox) = inbox[1]
        /\ inbox' \in Seq(Entry) /\ Len(inbox') = Len(inbox) - 1
        /\ \A n \in 1 .. Len(inbox) - 1 : inbox'[n] = inbox[n + 1]
    BY InboxHead
  <1>2. CopiesFollow'
    <2> SUFFICES ASSUME NEW n \in 2 .. Len(inbox'), inbox'[n].copy
                 PROVE  ~inbox'[n - 1].copy /\ inbox'[n - 1].r = inbox'[n].r
      BY DEF CopiesFollow
    <2>1. n + 1 \in 2 .. Len(inbox) /\ inbox'[n] = inbox[n + 1] /\ inbox'[n - 1] = inbox[n]
      BY <1>1
    <2>2. (n + 1) - 1 = n
      OBVIOUS
    <2> QED  BY <2>1, <2>2 DEF CopiesFollow
  <1>3. ASSUME CopyDue' PROVE ~Head(inbox).copy /\ Head(inbox').r = Head(inbox).r
    <2>1. inbox' # <<>> /\ Head(inbox').copy
      BY <1>3 DEF CopyDue
    <2>2. Len(inbox') \in Nat \ {0} /\ Head(inbox') = inbox'[1]
      BY <1>1, <2>1, HeadTailProperties, EmptySeq
    <2>3. 2 \in 2 .. Len(inbox) /\ Head(inbox') = inbox[2]
      BY <1>1, <2>2
    <2>4. ~inbox[2 - 1].copy /\ inbox[2 - 1].r = inbox[2].r
      BY <2>1, <2>3 DEF CopiesFollow
    <2> QED  BY <1>1, <2>3, <2>4
  <1> QED  BY <1>2, <1>3

LEMMA InitMirror == Init => MirrorInv
  BY DEF Init, MirrorInv, CopiesFollow, CopyIsDuplicate, CopyAfterDrop, CopyDue

LEMMA MirrorStep == TypeOK /\ MirrorInv /\ [Next]_vars => MirrorInv'
  <1> SUFFICES ASSUME TypeOK, MirrorInv, [Next]_vars PROVE MirrorInv'
    OBVIOUS
  <1>0. inbox \in Seq(Entry) /\ CopiesFollow /\ CopyIsDuplicate /\ CopyAfterDrop
    BY DEF TypeOK, KeyboardTypeOK, MirrorInv
  <1>1. CASE KeyChange \/ MediaKeyChange
    <2>1. \E r \in Report : Notify(r)
      BY <1>1, SentReports DEF KeyChange, MediaKeyChange
    <2>2. UNCHANGED engineVars
      BY <1>1 DEF KeyChange, MediaKeyChange
    <2>3. CopiesFollow' /\ (CopyDue' => CopyDue /\ Head(inbox') = Head(inbox))
      BY <1>0, <2>1, NotifyCopies
    <2>4. CopyIsDuplicate'
      BY <1>0, <2>2, <2>3 DEF CopyIsDuplicate
    <2> QED  BY <1>0, <2>2, <2>3, <2>4 DEF MirrorInv, CopyAfterDrop
  <1>2. CASE EnterDrop
    <2>1. /\ inbox # <<>> /\ inbox' = Tail(inbox) /\ epc' = "idle"
          /\ ~Head(inbox).copy => ~taken'
      BY <1>2, Zenon DEF EnterDrop
    <2>2. CopiesFollow' /\ (CopyDue' => ~Head(inbox).copy)
      BY <1>0, <2>1, TakeCopies
    <2> QED  BY <2>1, <2>2 DEF MirrorInv, CopyIsDuplicate, CopyAfterDrop
  <1>3. CASE EnterAccept
    <2>1. /\ inbox # <<>> /\ inbox' = Tail(inbox) /\ cur' = Head(inbox)
          /\ s_last_report' = Head(inbox).r /\ recent'
          /\ ~(recent /\ Head(inbox).r = s_last_report)
      BY <1>3 DEF EnterAccept, Dropped
    <2>2. Head(inbox).copy => ~taken /\ taken' = taken
      <3>1. Head(inbox).copy => taken' = taken
        BY <1>3, Zenon DEF EnterAccept
      <3> QED  BY <1>0, <2>1, <3>1 DEF CopyIsDuplicate, CopyDue
    <2>3. CopiesFollow' /\ (CopyDue' => Head(inbox').r = Head(inbox).r)
      BY <1>0, <2>1, TakeCopies
    <2>4. CopyIsDuplicate'
      BY <2>1, <2>3 DEF CopyIsDuplicate
    <2>5. CopyAfterDrop'
      <3>1. Head(inbox).copy => ~taken'
        BY <2>2, Zenon
      <3> QED  BY <2>1, <3>1 DEF CopyAfterDrop
    <2> QED  BY <2>3, <2>4, <2>5 DEF MirrorInv
  <1>4. CASE WindowPasses
    <2>1. ~CopyDue /\ UNCHANGED <<keyboardVars, epc, cur, taken>>
      BY <1>4 DEF WindowPasses
    <2>2. CopiesFollow' /\ ~CopyDue'
      BY <1>0, <2>1 DEF CopiesFollow, CopyDue
    <2> QED  BY <1>0, <2>1, <2>2 DEF MirrorInv, CopyIsDuplicate, CopyAfterDrop
  <1>5. CASE UNCHANGED keyboardVars /\ Engine /\ ~EnterDrop /\ ~EnterAccept
    <2>1. UNCHANGED <<inbox, cur, taken, recent, s_last_report>> /\ epc # "idle"
      BY <1>5 DEF Engine, JigglerHotkey, OutDispatch, StartScan, ScanSlot, ScanEnd, Fire,
                  ForwardKeyboard, ForwardConsumer, ReleaseConsumer
    <2> QED  BY <1>0, <2>1 DEF MirrorInv, CopiesFollow, CopyIsDuplicate, CopyAfterDrop, CopyDue
  <1>6. CASE UNCHANGED keyboardVars /\ UNCHANGED engineVars
    BY <1>0, <1>6 DEF MirrorInv, CopiesFollow, CopyIsDuplicate, CopyAfterDrop, CopyDue
  <1> QED  BY <1>1, <1>2, <1>3, <1>4, <1>5, <1>6, Writers

-----------------------------------------------------------------------------
(* The table that the engine scans, and the storage it was copied from.       *)

\* The first count entries of the table are the active slots of storage below place
\* upto, in their order; f says which.
Copied(count, upto, f) ==
    /\ f \in [0 .. count - 1 -> {n \in Index : n < upto /\ nvs[n].active}]
    /\ \A i, j \in 0 .. count - 1 : i < j => f[i] < f[j]
    /\ \A n \in Index : n < upto /\ nvs[n].active => \E i \in 0 .. count - 1 : f[i] = n
    /\ \A i \in 0 .. count - 1 : s_slots[i] = nvs[f[i]]

\* What a reload has copied so far; the entry it is writing does not count.
Completed == IF rpc \in {"head", "body"} THEN s_slot_count - 1 ELSE s_slot_count
TableCopied ==
    /\ rpc # "begin" => \E f : Copied(Completed, load_i, f)
    /\ rpc = "idle" => load_i = HOTKEY_SLOTS_MAX
    /\ rpc \in {"count", "head", "body"} => nvs[load_i].active

\* A report that no reload overlapped finds the table at rest ...
TableAtRest == ~overlap /\ epc # "idle" => rpc = "idle"
\* ... and no entry that the scan has passed matches it.
ScannedSoFar ==
    ~overlap /\ epc \in {"scan", "fire"} =>
        /\ slot_i \in 0 .. s_slot_count
        /\ \A i \in 0 .. slot_i - 1 : ~ReportMatches(cur.r, s_slots[i])
        /\ epc = "fire" => slot_i < s_slot_count /\ ReportMatches(cur.r, s_slots[slot_i])

ScanInv == TableCopied /\ TableAtRest /\ ScannedSoFar

LEMMA InitScan == Init => ScanInv
  BY DEF Init, ScanInv, TableCopied, TableAtRest, ScannedSoFar

\* The next entry of the table is a copy of the slot that the reload has read.
LEMMA CopyOneMore ==
    ASSUME TypeOK, NEW count \in Nat, NEW upto \in Index, NEW f, Copied(count, upto, f),
           nvs[upto].active, UNCHANGED nvs, s_slots'[count] = nvs[upto],
           \A i \in 0 .. count - 1 : s_slots'[i] = s_slots[i]
    PROVE  \E g : Copied(count + 1, upto + 1, g)'
  <1> DEFINE g == [i \in 0 .. count |-> IF i = count THEN upto ELSE f[i]]
  <1>0. upto \in Nat /\ Index \subseteq Nat
    BY HotkeyAssumption DEF Index
  <1>1. \A i \in 0 .. count - 1 : f[i] \in Index /\ f[i] < upto /\ nvs[f[i]].active
    BY DEF Copied
  <1>2. /\ g[count] = upto /\ \A i \in 0 .. count - 1 : g[i] = f[i]
        /\ \A i \in 0 .. count : i = count \/ i \in 0 .. count - 1
    OBVIOUS
  <1>3. g \in [0 .. count -> {n \in Index : n < upto + 1 /\ nvs[n].active}]
    <2> SUFFICES ASSUME NEW i \in 0 .. count
                 PROVE  g[i] \in Index /\ g[i] < upto + 1 /\ nvs[g[i]].active
      OBVIOUS
    <2> HIDE DEF g
    <2>1. CASE i = count
      BY <1>0, <1>2, <2>1
    <2>2. CASE i \in 0 .. count - 1
      <3>1. f[i] \in Index /\ f[i] < upto /\ nvs[f[i]].active /\ g[i] = f[i]
        BY <1>1, <1>2, <2>2
      <3>2. f[i] < upto + 1
        <4>1. f[i] \in Nat /\ f[i] < upto
          BY <1>0, <3>1
        <4> QED  BY <1>0, <4>1
      <3> QED  BY <3>1, <3>2
    <2> QED  BY <1>2, <2>1, <2>2
  <1> HIDE DEF g
  <1>4. ASSUME NEW i \in 0 .. count, NEW j \in 0 .. count, i < j PROVE g[i] < g[j]
    <2>1. i \in 0 .. count - 1
      BY <1>4
    <2>2. CASE j = count
      BY <1>1, <1>2, <2>1, <2>2
    <2>3. CASE j \in 0 .. count - 1
      BY <1>2, <1>4, <2>1, <2>3 DEF Copied
    <2> QED  BY <1>2, <2>2, <2>3
  <1>5. ASSUME NEW n \in Index, n < upto + 1, nvs[n].active
        PROVE  \E i \in 0 .. count : g[i] = n
    <2>1. CASE n = upto
      BY <1>2, <2>1
    <2>2. CASE n < upto
      <3>1. PICK i \in 0 .. count - 1 : f[i] = n
        BY <1>5, <2>2 DEF Copied
      <3> QED  BY <1>2, <3>1
    <2> QED  BY <1>0, <1>5, <2>1, <2>2
  <1>6. ASSUME NEW i \in 0 .. count PROVE s_slots'[i] = nvs[g[i]]
    <2>1. CASE i = count
      BY <1>2, <2>1
    <2>2. CASE i \in 0 .. count - 1
      BY <1>2, <2>2 DEF Copied
    <2> QED  BY <1>2, <2>1, <2>2
  <1>7. (count + 1) - 1 = count
    OBVIOUS
  <1>8. Copied(count + 1, upto + 1, g)'
    BY <1>3, <1>4, <1>5, <1>6, <1>7 DEF Copied
  <1> QED  BY <1>8

LEMMA TableCopiedStep == TypeOK /\ ReloadProgress /\ TableCopied /\ [Next]_vars => TableCopied'
  <1> SUFFICES ASSUME TypeOK, ReloadProgress, TableCopied, [Next]_vars PROVE TableCopied'
    OBVIOUS
  <1>0. /\ HOTKEY_SLOTS_MAX \in Nat /\ load_i \in 0 .. HOTKEY_SLOTS_MAX
        /\ s_slot_count \in 0 .. HOTKEY_SLOTS_MAX /\ s_slots \in [Index -> Slot]
        /\ nvs \in [Index -> Slot]
    BY HotkeyAssumption DEF TypeOK, WebTypeOK, TableTypeOK
  <1>1. CASE ReloadBegin
    <2>1. Copied(0, 0, [i \in {} |-> 0])'
      BY DEF Copied, Index
    <2>2. s_slot_count' = 0 /\ load_i' = 0 /\ rpc' = "read"
      BY <1>1 DEF ReloadBegin
    <2>3. Completed' = 0
      BY <2>2 DEF Completed
    <2> QED  BY <2>1, <2>2, <2>3 DEF TableCopied
  <1>2. CASE ReloadRead
    <2>1. rpc = "read" /\ load_i < HOTKEY_SLOTS_MAX /\ UNCHANGED <<nvs, s_slots, s_slot_count>>
      BY <1>2 DEF ReloadRead
    <2>2. PICK f : Copied(s_slot_count, load_i, f)
      BY <2>1 DEF TableCopied, Completed
    <2>3. CASE nvs[load_i].active
      <3>1. rpc' = "count" /\ load_i' = load_i
        BY <1>2, <2>3 DEF ReloadRead
      <3>2. Copied(s_slot_count, load_i, f)'
        BY <2>1, <2>2, <3>1 DEF Copied
      <3> QED  BY <2>1, <2>3, <3>1, <3>2 DEF TableCopied, Completed
    <2>4. CASE ~nvs[load_i].active
      <3>1. rpc' = "read" /\ load_i' = load_i + 1
        BY <1>2, <2>4 DEF ReloadRead
      <3>2. \A n \in Index : n < load_i + 1 /\ nvs[n].active <=> n < load_i /\ nvs[n].active
        <4>1. \A n \in Index : n < load_i + 1 <=> n < load_i \/ n = load_i
          BY <1>0 DEF Index
        <4> QED  BY <1>0, <2>4, <4>1 DEF Index
      <3>3. {n \in Index : n < load_i + 1 /\ nvs[n].active} = {n \in Index : n < load_i /\ nvs[n].active}
        BY <3>2
      <3>4. Copied(s_slot_count, load_i, f)'
        BY <2>1, <2>2, <3>1, <3>2, <3>3 DEF Copied
      <3> QED  BY <2>1, <3>1, <3>4 DEF TableCopied, Completed
    <2> QED  BY <2>3, <2>4
  <1>3. CASE ReloadCount
    <2>1. /\ rpc = "count" /\ rpc' = "head" /\ s_slot_count' = s_slot_count + 1
          /\ UNCHANGED <<nvs, s_slots, load_i>>
      BY <1>3 DEF ReloadCount
    <2>2. PICK f : Copied(s_slot_count, load_i, f)
      BY <2>1 DEF TableCopied, Completed
    <2>3. Completed' = s_slot_count
      BY <1>0, <2>1 DEF Completed
    <2>4. Copied(Completed, load_i, f)'
      BY <2>1, <2>2, <2>3 DEF Copied
    <2> QED  BY <2>1, <2>4 DEF TableCopied
  <1>4. CASE ReloadHead
    <2>1. /\ rpc = "head" /\ rpc' = "body" /\ UNCHANGED <<nvs, s_slot_count, load_i>>
      BY <1>4 DEF ReloadHead
    <2>2. s_slot_count \in Nat \ {0} /\ s_slot_count - 1 \in Nat
      BY <1>0, <2>1 DEF ReloadProgress
    <2>3. \A i \in 0 .. (s_slot_count - 1) - 1 : s_slots'[i] = s_slots[i]
      <3>1. PICK slot : s_slots' = [s_slots EXCEPT ![s_slot_count - 1] = slot]
        BY <1>4 DEF ReloadHead
      <3>2. \A i \in 0 .. (s_slot_count - 1) - 1 : i \in Index /\ i # s_slot_count - 1
        BY <1>0, <2>2 DEF Index
      <3> QED  BY <1>0, <3>1, <3>2
    <2>4. PICK f : Copied(s_slot_count - 1, load_i, f)
      BY <2>1 DEF TableCopied, Completed
    <2>5. Completed' = s_slot_count - 1
      BY <2>1 DEF Completed
    <2>6. Copied(Completed, load_i, f)'
      BY <2>1, <2>3, <2>4, <2>5 DEF Copied
    <2> QED  BY <2>1, <2>6 DEF TableCopied
  <1>5. CASE ReloadBody
    <2>1. /\ rpc = "body" /\ rpc' = "read" /\ load_i' = load_i + 1
          /\ s_slots' = [s_slots EXCEPT ![s_slot_count - 1] = nvs[load_i]]
          /\ UNCHANGED <<nvs, s_slot_count>>
      BY <1>5 DEF ReloadBody
    <2>2. s_slot_count - 1 \in Index /\ load_i < HOTKEY_SLOTS_MAX /\ s_slot_count - 1 \in Nat
      BY <1>0, <2>1 DEF ReloadProgress, Index
    <2>3. PICK f : Copied(s_slot_count - 1, load_i, f)
      BY <2>1 DEF TableCopied, Completed
    <2>4. \A i \in 0 .. (s_slot_count - 1) - 1 : s_slots'[i] = s_slots[i]
      <3>1. \A i \in 0 .. (s_slot_count - 1) - 1 : i \in Index /\ i # s_slot_count - 1
        BY <1>0, <2>2 DEF Index
      <3> QED  BY <1>0, <2>1, <3>1
    <2>5. s_slots'[s_slot_count - 1] = nvs[load_i] /\ nvs[load_i].active
      BY <1>0, <2>1, <2>2 DEF TableCopied
    <2>6. \A count \in Nat, upto \in Index :
              count = s_slot_count - 1 /\ upto = load_i => \E g : Copied(count + 1, upto + 1, g)'
      BY <2>1, <2>2, <2>3, <2>4, <2>5, CopyOneMore
    <2>7. load_i \in Index /\ Completed' = (s_slot_count - 1) + 1
      BY <1>0, <2>1, <2>2 DEF Completed, Index
    <2>8. \E g : Copied(Completed, load_i, g)'
      BY <2>1, <2>2, <2>6, <2>7
    <2> QED  BY <2>1, <2>8 DEF TableCopied
  <1>6. CASE ReloadJiggler
    <2>1. /\ rpc = "read" /\ rpc' = "idle" /\ load_i = HOTKEY_SLOTS_MAX
          /\ UNCHANGED <<nvs, s_slots, s_slot_count, load_i>>
      BY <1>6 DEF ReloadJiggler
    <2> QED  BY <2>1 DEF TableCopied, Completed, Copied
  <1>7. CASE StoreSlot \/ StoreJiggler
    BY <1>7 DEF StoreSlot, StoreJiggler, TableCopied
  <1>8. CASE UNCHANGED tableVars /\ (UNCHANGED webVars \/ JigglerHotkey)
    <2>1. UNCHANGED <<rpc, load_i, nvs, s_slots, s_slot_count>>
      BY <1>8 DEF JigglerHotkey
    <2> QED  BY <2>1 DEF TableCopied, Completed, Copied
  <1> QED  BY <1>1, <1>2, <1>3, <1>4, <1>5, <1>6, <1>7, <1>8, Writers DEF Reload

LEMMA ScanStep == TypeOK /\ ReloadProgress /\ ScanInv /\ [Next]_vars => ScanInv'
  <1> SUFFICES ASSUME TypeOK, ReloadProgress, ScanInv, [Next]_vars PROVE ScanInv'
    OBVIOUS
  <1>0. s_slot_count \in Nat /\ slot_i \in Nat /\ TableAtRest /\ ScannedSoFar
    BY HotkeyAssumption DEF TypeOK, TableTypeOK, EngineTypeOK, ScanInv
  <1>1. TableCopied'
    BY TableCopiedStep DEF ScanInv
  <1>2. CASE StoreSlot \/ StoreJiggler
    <2>1. overlap'
      BY <1>2 DEF StoreSlot, StoreJiggler
    <2> QED  BY <1>1, <2>1 DEF ScanInv, TableAtRest, ScannedSoFar
  <1>3. CASE Reload
    <2>1. rpc # "idle" /\ UNCHANGED <<epc, overlap>>
      BY <1>3 DEF Reload, ReloadBegin, ReloadRead, ReloadCount, ReloadHead, ReloadBody,
                  ReloadJiggler
    <2> QED  BY <1>0, <1>1, <2>1 DEF ScanInv, TableAtRest, ScannedSoFar
  <1>4. CASE EnterAccept
    <2>1. epc' \in {"send", "dispatch"} /\ UNCHANGED rpc /\ (~overlap' => rpc = "idle")
      BY <1>4, Zenon DEF EnterAccept
    <2> QED  BY <1>1, <2>1 DEF ScanInv, TableAtRest, ScannedSoFar
  <1>5. CASE UNCHANGED <<tableVars, rpc, overlap>> /\ Engine /\ ~EnterAccept
    <2>1. CASE StartScan
      <3>1. epc = "dispatch" /\ epc' = "scan" /\ slot_i' = 0
        BY <2>1 DEF StartScan
      <3> QED  BY <1>0, <1>1, <1>5, <3>1 DEF ScanInv, TableAtRest, ScannedSoFar
    <2>2. CASE ScanSlot
      <3>1. /\ epc = "scan" /\ slot_i < s_slot_count /\ UNCHANGED cur
            /\ \/ epc' = "fire" /\ slot_i' = slot_i /\ ReportMatches(cur.r, s_slots[slot_i])
               \/ epc' = "scan" /\ slot_i' = slot_i + 1 /\ ~ReportMatches(cur.r, s_slots[slot_i])
        BY <2>2 DEF ScanSlot
      <3>2. \A i \in 0 .. (slot_i + 1) - 1 : i = slot_i \/ i \in 0 .. slot_i - 1
        BY <1>0
      <3> QED  BY <1>0, <1>1, <1>5, <3>1, <3>2 DEF ScanInv, TableAtRest, ScannedSoFar
    <2>3. CASE EnterDrop \/ JigglerHotkey \/ OutDispatch \/ ScanEnd \/ Fire \/ ForwardKeyboard
               \/ ForwardConsumer \/ ReleaseConsumer
      <3>1. epc' \notin {"scan", "fire"} /\ (epc' # "idle" => epc # "idle")
        BY <2>3 DEF EnterDrop, JigglerHotkey, OutDispatch, ScanEnd, Fire, ForwardKeyboard,
                    ForwardConsumer, ReleaseConsumer
      <3> QED  BY <1>0, <1>1, <1>5, <3>1 DEF ScanInv, TableAtRest, ScannedSoFar
    <2> QED  BY <1>5, <2>1, <2>2, <2>3 DEF Engine
  <1>6. CASE UNCHANGED <<tableVars, rpc, overlap>> /\ (UNCHANGED engineVars \/ WindowPasses)
    <2>1. UNCHANGED <<epc, cur, slot_i>>
      BY <1>6 DEF WindowPasses
    <2> QED  BY <1>0, <1>1, <1>6, <2>1 DEF ScanInv, TableAtRest, ScannedSoFar
  <1>7. JigglerHotkey => UNCHANGED rpc
    BY DEF JigglerHotkey
  <1> QED  BY <1>2, <1>3, <1>4, <1>5, <1>6, <1>7, Writers

\* What is decided from a table at rest is what storage says.
LEMMA StorageDecides ==
    ASSUME TypeOK, ScanInv, ~overlap, epc \in {"scan", "fire"}
    PROVE  /\ slot_i >= s_slot_count => StoredMatching(cur.r) = {}
           /\ epc = "fire" => \E n \in StoredMatching(cur.r) :
                  /\ \A o \in StoredMatching(cur.r) : n <= o
                  /\ s_slots[slot_i] = nvs[n]
  <1>0. /\ HOTKEY_SLOTS_MAX \in Nat /\ s_slot_count \in Nat /\ slot_i \in Nat
        /\ Index \subseteq Nat /\ \A n \in Index : n < HOTKEY_SLOTS_MAX
    BY HotkeyAssumption DEF TypeOK, TableTypeOK, EngineTypeOK, Index
  <1>1. rpc = "idle" /\ load_i = HOTKEY_SLOTS_MAX
    BY DEF ScanInv, TableAtRest, TableCopied
  <1>2. PICK f : Copied(s_slot_count, HOTKEY_SLOTS_MAX, f)
    BY <1>1 DEF ScanInv, TableCopied, Completed
  <1>3. \A i \in 0 .. slot_i - 1 : ~ReportMatches(cur.r, s_slots[i])
    BY DEF ScanInv, ScannedSoFar
  <1>4. ASSUME NEW o \in StoredMatching(cur.r)
        PROVE  \E j \in 0 .. s_slot_count - 1 : j >= slot_i /\ f[j] = o
    <2>1. o \in Index /\ nvs[o].active /\ ReportMatches(cur.r, nvs[o])
      BY DEF StoredMatching
    <2>2. PICK j \in 0 .. s_slot_count - 1 : f[j] = o
      BY <1>0, <1>2, <2>1 DEF Copied
    <2>3. s_slots[j] = nvs[o]
      BY <1>2, <2>2 DEF Copied
    <2>4. j \notin 0 .. slot_i - 1
      BY <1>3, <2>1, <2>3
    <2> QED  BY <1>0, <2>2, <2>4
  <1>5. slot_i >= s_slot_count => StoredMatching(cur.r) = {}
    BY <1>0, <1>4
  <1>6. ASSUME epc = "fire"
        PROVE  \E n \in StoredMatching(cur.r) :
                   /\ \A o \in StoredMatching(cur.r) : n <= o
                   /\ s_slots[slot_i] = nvs[n]
    <2>1. slot_i \in 0 .. s_slot_count - 1 /\ ReportMatches(cur.r, s_slots[slot_i])
      BY <1>0, <1>6 DEF ScanInv, ScannedSoFar
    <2>2. f[slot_i] \in Index /\ nvs[f[slot_i]].active /\ s_slots[slot_i] = nvs[f[slot_i]]
      BY <1>2, <2>1 DEF Copied
    <2>3. f[slot_i] \in StoredMatching(cur.r)
      BY <2>1, <2>2 DEF StoredMatching
    <2>4. ASSUME NEW o \in StoredMatching(cur.r) PROVE f[slot_i] <= o
      <3>1. PICK j \in 0 .. s_slot_count - 1 : j >= slot_i /\ f[j] = o
        BY <1>4
      <3>0. f[slot_i] \in Nat
        BY <1>0, <2>2
      <3>2. CASE j = slot_i
        BY <3>0, <3>1, <3>2
      <3>3. CASE slot_i < j
        <4>1. f[slot_i] < f[j] /\ f[j] \in Index
          BY <1>2, <2>1, <3>3 DEF Copied
        <4>2. f[j] \in Nat
          BY <1>0, <4>1
        <4> QED  BY <3>0, <3>1, <4>1, <4>2
      <3> QED  BY <1>0, <3>1, <3>2, <3>3
    <2> QED  BY <2>2, <2>3, <2>4
  <1> QED  BY <1>5, <1>6
-----------------------------------------------------------------------------
(* The theorems.                                                             *)

LEMMA InvStep == HotkeyInv /\ [Next]_vars => HotkeyInv'
  BY TypeStep, ReloadProgressStep, TapBoundStep, FireBoundStep, TypingFlagStep,
     IntrusionBoundStep, ConsumerReleaseOwedStep, CurrentReportStep, ReleaseReportedStep,
     ReleaseFollowsStep, CleanAfterTypingStep, CleanOrReleasedStep, CleanAfterReleaseStep
  DEF HotkeyInv

\* The invariant behind every theorem of this module: where the typist, the
\* engine and a reload are, which releases are on their way, and when the host
\* is clean.
THEOREM Invariance == Spec => []HotkeyInv
  BY InitInv, InvStep, PTL DEF Spec

\* Every variable keeps its type: no slot index leaves the table and the typing
\* queue never outgrows its length, although httpd rebuilds the table while the
\* engine scans it (hotkey.c:88-107, 258-262).
THEOREM TypeCorrect == Spec => []TypeOK
  <1>1. HotkeyInv => TypeOK
    BY DEF HotkeyInv
  <1> QED  BY <1>1, Invariance, PTL

\* At most one report of the engine reaches the host during a typing: the check
\* of s_typing (hotkey.c:200) is not atomic with the forwarding (264-275), and
\* this is all that can slip through.
THEOREM IntrusionsBounded == Spec => []AtMostOneIntrusion
  <1>1. HotkeyInv => AtMostOneIntrusion
    BY DEF HotkeyInv, IntrusionBound, AtMostOneIntrusion
  <1> QED  BY <1>1, Invariance, PTL

\* A media key that is down on the host is never forgotten by the engine
\* (s_had_consumer, hotkey.c:212-220 and 264-275).
THEOREM MediaKeyReleased == Spec => []ConsumerReleaseOwed
  <1>1. HotkeyInv => ConsumerReleaseOwed
    BY DEF HotkeyInv
  <1> QED  BY <1>1, Invariance, PTL

\* No key stays down: whatever the engine drops, the typist types and the
\* injectors inject, the host ends with nothing pressed but the modifiers the
\* last substitution restored.
THEOREM HostReleased == Spec => []NoStuckKeys
  <1>1. ASSUME HotkeyInv, Quiet, phys = Released, losses = 0, intrusions = 0
        PROVE  host.keys = {} /\ host.mod \in {{}, job.restore_mods}
    <2>1. \/ HostClean \/ InjectorHolds \/ s_type_queue # <<>> \/ ReleasePending(inbox)
          \/ epc = "send" /\ IsAllZero(cur.r)
      BY <1>1 DEF HotkeyInv, CleanOrReleased, Undisturbed, Quiet
    <2>2. ~InjectorHolds
      BY <1>1 DEF Quiet, InjectorHolds
    <2>3. s_type_queue = <<>> /\ inbox = <<>> /\ epc = "idle"
      BY <1>1 DEF Quiet
    <2>4. ~ReleasePending(inbox)
      BY <2>3 DEF ReleasePending
    <2> QED  BY <2>1, <2>2, <2>3, <2>4 DEF HostClean
  <1>2. HotkeyInv => NoStuckKeys
    BY <1>1 DEF NoStuckKeys
  <1> QED  BY <1>2, Invariance, PTL

\* A keyboard that notifies every press on two characteristics gets one substitution per
\* press: the second copy fires only if the first was thrown away, since the duplicate
\* filter remembers what it accepted until the copy has come (hotkey.c:200-210).
THEOREM MirroredOnce == Spec => []MirroredPressFiresOnce
  <1>1. HotkeyInv => TypeOK
    BY DEF HotkeyInv
  <1>2. MirrorInv => MirroredPressFiresOnce
    BY DEF MirrorInv, CopyAfterDrop, MirroredPressFiresOnce
  <1> QED  BY <1>1, <1>2, InitMirror, MirrorStep, Invariance, PTL DEF Spec

\* While no reload overlaps it the engine decides by what is stored: it forwards a report
\* only if no active slot of storage matches, and types the first that does
\* (hotkey.c:88-107, 258-262), for every number of slots.
THEOREM StorageDecided == Spec => DecidesByStorage
  <1>1. ASSUME TypeOK, ScanInv, [Next]_vars, ~overlap
        PROVE  /\ epc = "scan" /\ epc' = "send" => StoredMatching(cur.r) = {}
               /\ epc = "fire" /\ epc' = "idle" =>
                     \E n \in StoredMatching(cur.r) :
                        /\ \A o \in StoredMatching(cur.r) : n <= o
                        /\ s_type_queue' \in {s_type_queue, Append(s_type_queue, SlotJob(nvs[n]))}
    <2>1. ASSUME epc = "scan", epc' = "send" PROVE StoredMatching(cur.r) = {}
      <3>1. ScanEnd
        BY <1>1, <2>1, Writers DEF Engine, WindowPasses, EnterDrop, EnterAccept, JigglerHotkey,
           OutDispatch, StartScan, ScanSlot, Fire, ForwardKeyboard, ForwardConsumer,
           ReleaseConsumer
      <3> QED  BY <1>1, <2>1, <3>1, StorageDecides DEF ScanEnd
    <2>2. ASSUME epc = "fire", epc' = "idle"
          PROVE  \E n \in StoredMatching(cur.r) :
                    /\ \A o \in StoredMatching(cur.r) : n <= o
                    /\ s_type_queue' \in {s_type_queue, Append(s_type_queue, SlotJob(nvs[n]))}
      <3>1. Fire
        BY <1>1, <2>2, Writers DEF Engine, WindowPasses, EnterDrop, EnterAccept, JigglerHotkey,
           OutDispatch, StartScan, ScanSlot, ScanEnd, ForwardKeyboard, ForwardConsumer,
           ReleaseConsumer
      <3>2. s_type_queue' \in {s_type_queue, Append(s_type_queue, SlotJob(s_slots[slot_i]))}
        BY <3>1 DEF Fire
      <3> QED  BY <1>1, <2>2, <3>2, StorageDecides
    <2> QED  BY <2>1, <2>2
  <1>2. HotkeyInv => TypeOK /\ ReloadProgress
    BY DEF HotkeyInv
  <1> QED  BY <1>1, <1>2, InitScan, ScanStep, Invariance, PTL DEF Spec, DecidesByStorage
=============================================================================
