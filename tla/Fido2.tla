-------------------------------- MODULE Fido2 --------------------------------
(***************************************************************************)
(* The FIDO2 authenticator (components/fido2) over its storage, with the    *)
(* other tasks that touch the same state.                                   *)
(*                                                                         *)
(*   fido2       the task that executes one CTAP2 command at a time         *)
(*   httpd       the passkey handlers of web_ui.c                           *)
(*   confirmers  the button task and the input callbacks, which confirm the *)
(*               user presence a command waits for                          *)
(*                                                                         *)
(* A call of storage.c is atomic (NVS locks), a read followed by a write is  *)
(* not.  Keys, PIN hashes and credentials are told apart and nothing else:   *)
(* a master key is its generation, a credential names the key it is sealed   *)
(* with.  A request that is refused before it changes anything is no step.   *)
(***************************************************************************)
EXTENDS Integers, FiniteSets

CONSTANTS FIDO2_RK_MAX,     \* places for resident keys
          PIN_RETRIES_MAX,  \* wrong PINs in a row before the PIN is blocked
          RPs, Users, Pins,
          Confirmers,       \* tasks that can confirm the user presence
          MaxCommands,      \* bound: CTAP2 commands with an effect
          MaxWeb,           \* bound: requests to the passkey handlers
          MaxPresses        \* bound: presses of the button or the confirm key

ASSUME Fido2Assumption ==
    /\ FIDO2_RK_MAX \in Nat \ {0} /\ PIN_RETRIES_MAX \in 1 .. 255
    /\ IsFiniteSet(Confirmers)
    /\ MaxCommands \in Nat /\ MaxWeb \in Nat /\ MaxPresses \in Nat

Slots == 0 .. FIDO2_RK_MAX - 1
Tasks == {"fido2", "httpd"}
\* LEFT(SHA-256(pin), 16), and what handler_passkey_pin stores.
DeviceHash(p) == [pin |-> p, rounds |-> 1]
WebHash(p) == [pin |-> p, rounds |-> 2]
NoHash == [pin |-> "none", rounds |-> 0]
Hashes == {DeviceHash(p) : p \in Pins} \cup {WebHash(p) : p \in Pins} \cup {NoHash}
Config == [enabled : BOOLEAN, confirm : BOOLEAN, pin_retries : 0 .. 255]
Credential == [rp : RPs, user : Users, key : Nat, id : Nat]
NoCred == [rp |-> "none"]
NoRequest == [cmd |-> "none"]

VARIABLES
    cfg, pin_hash, master_key, sign_counter, rk,  \* storage, namespace fido2
    s_up_pending, s_up_sem, s_pin_token_valid,    \* statics of fido2.c
    pc, snap, idx,         \* per task: where it is, its copy of cfg, its loop index
    req, cred, count, slot,  \* fido2: the request and the locals of its handler
    cpc,                     \* confirmers: "idle", "check" or "give"
    commands, edits, presses, approvals,  \* bounded counters
    fresh,                   \* history: a press fell into the current wait
    overlap,                 \* history: httpd worked during the current command
    raced,                   \* history: httpd and a PIN command or reset overlapped
    ledger,                  \* history: what relying parties know: last counts
    wrong,                   \* history: wrong PINs since the last right or new one
    chosen,                  \* history: the PIN the user chose last
    token_for                \* history: the PIN hash the token was issued for

storageVars == <<cfg, pin_hash, master_key, sign_counter, rk>>
upVars == <<s_up_pending, s_up_sem>>
taskVars == <<pc, snap, idx>>
localVars == <<req, cred, count, slot>>
confirmVars == <<cpc, presses>>
pinHistory == <<raced, wrong, chosen, token_for>>
vars == <<storageVars, upVars, s_pin_token_valid, taskVars, localVars, confirmVars,
          commands, edits, approvals, fresh, overlap, ledger, pinHistory>>

NewConfig == [enabled |-> TRUE, confirm |-> FALSE, pin_retries |-> PIN_RETRIES_MAX]

\* After fido2_init; the user has enabled the authenticator.
Init ==
    /\ cfg = NewConfig /\ pin_hash = NoHash /\ master_key = 0 /\ sign_counter = 0
    /\ rk = [n \in Slots |-> NoCred]
    /\ s_up_pending = FALSE /\ s_up_sem = FALSE /\ s_pin_token_valid = FALSE
    /\ pc = [t \in Tasks |-> "idle"] /\ snap = [t \in Tasks |-> NewConfig]
    /\ idx = [t \in Tasks |-> 0]
    /\ req = NoRequest /\ cred = NoCred /\ count = 0 /\ slot = -1
    /\ cpc = [c \in Confirmers |-> "idle"] /\ presses = 0
    /\ commands = 0 /\ edits = 0 /\ approvals = 0
    /\ fresh = FALSE /\ overlap = FALSE /\ ledger = <<>>
    /\ raced = FALSE /\ wrong = 0 /\ chosen = "none" /\ token_for = NoHash

Goto(t, label) == pc' = [pc EXCEPT ![t] = label]
At(label) == pc["fido2"] = label
Idle(t) == pc[t] = "idle"
CommandFrame == UNCHANGED <<confirmVars, edits, chosen, token_for>>

-----------------------------------------------------------------------------
(* The fido2 task: a command arrives.                                        *)

Accept(r) ==
    /\ At("idle") /\ cfg.enabled /\ commands < MaxCommands
    /\ req' = r /\ commands' = commands + 1 /\ overlap' = ~Idle("httpd")
    /\ CommandFrame

\* wait_for_up begins.
BeginWait ==
    /\ Goto("fido2", "wait") /\ s_up_pending' = TRUE /\ fresh' = FALSE
    /\ UNCHANGED <<storageVars, s_up_sem, s_pin_token_valid, snap, idx, count, slot,
                   approvals, ledger, wrong>>

\* A relying party that wants user verification sends a pinAuth.
Authorised(uv) == uv => s_pin_token_valid

MakeCredential(rp, user, resident, uv) ==
    /\ Accept([cmd |-> "makeCredential", rp |-> rp, user |-> user, rk |-> resident])
    /\ Authorised(uv)
    /\ BeginWait /\ UNCHANGED <<cred, raced>>

Opens(c) == c # NoCred /\ c.key = master_key
ResidentFor(rp) == {n \in Slots : Opens(rk[n]) /\ rk[n].rp = rp}

\* The allow list is tried first, then the resident keys from the first place on.
GetAssertion(rp, allow, uv) ==
    /\ Accept([cmd |-> "getAssertion", rp |-> rp])
    /\ \/ allow # NoCred /\ Opens(allow) /\ allow.rp = rp /\ cred' = allow
       \/ /\ ~(allow # NoCred /\ Opens(allow) /\ allow.rp = rp)
          /\ \E n \in ResidentFor(rp) :
                (\A k \in ResidentFor(rp) : n <= k) /\ cred' = rk[n]
    /\ Authorised(uv)
    /\ BeginWait /\ UNCHANGED raced

Reset ==
    /\ Accept([cmd |-> "reset"])
    /\ BeginWait /\ UNCHANGED <<cred, raced>>

\* clientPIN: the configuration is read at the start of the command.
ClientPin(cmd, old, new) ==
    /\ Accept([cmd |-> cmd, old |-> old, new |-> new])
    /\ snap' = [snap EXCEPT !["fido2"] = cfg] /\ Goto("fido2", "pin")
    /\ raced' = (raced \/ ~Idle("httpd"))
    /\ UNCHANGED <<storageVars, upVars, s_pin_token_valid, idx, cred, count, slot,
                   approvals, fresh, ledger, wrong>>

Command ==
    \/ \E rp \in RPs, user \in Users, resident \in BOOLEAN, uv \in BOOLEAN :
          MakeCredential(rp, user, resident, uv)
    \/ \E rp \in RPs, allow \in DOMAIN ledger \cup {NoCred}, uv \in BOOLEAN :
          GetAssertion(rp, allow, uv)
    \/ Reset
    \/ \E p \in Pins : ClientPin("setPIN", p, p)
    \/ \E p, q \in Pins : ClientPin("changePIN", p, q)
    \/ \E p \in Pins : ClientPin("getPINToken", p, p)

-----------------------------------------------------------------------------
(* wait_for_up.                                                              *)

WaitFrame == UNCHANGED <<storageVars, s_pin_token_valid, snap, idx, localVars,
                         commands, overlap, ledger, raced, wrong>>

\* A wrong wait: the semaphore is only looked at.
UpTakenPeek ==
    /\ At("wait") /\ s_up_sem /\ UNCHANGED s_up_sem
    /\ approvals' = approvals + 1 /\ Goto("fido2", "confirmed")
    /\ UNCHANGED <<s_up_pending, fresh>> /\ WaitFrame /\ CommandFrame

UpTaken ==
    /\ At("wait") /\ s_up_sem /\ s_up_sem' = FALSE
    /\ approvals' = approvals + 1 /\ Goto("fido2", "confirmed")
    /\ UNCHANGED <<s_up_pending, fresh>> /\ WaitFrame /\ CommandFrame

\* The last take found nothing; a confirmation may still come before UpDone.
UpTimeout ==
    /\ At("wait") /\ ~s_up_sem /\ Goto("fido2", "expired")
    /\ UNCHANGED <<upVars, approvals, fresh>> /\ WaitFrame /\ CommandFrame

AfterWait == CASE req.cmd = "makeCredential" -> "seal"
               [] req.cmd = "getAssertion" -> "count"
               [] req.cmd = "reset" -> "wipe"

\* The wait is over: pending is cleared only after the semaphore was taken.
UpDone ==
    /\ At("confirmed") \/ At("expired")
    /\ s_up_pending' = FALSE
    /\ Goto("fido2", IF At("confirmed") THEN AfterWait ELSE "idle")
    /\ idx' = [idx EXCEPT !["fido2"] = 0]
    /\ raced' = (raced \/ (At("confirmed") /\ req.cmd = "reset" /\ ~Idle("httpd")))
    /\ UNCHANGED <<storageVars, s_up_sem, s_pin_token_valid, snap, localVars,
                   commands, approvals, fresh, overlap, ledger, wrong>>
    /\ CommandFrame

-----------------------------------------------------------------------------
(* makeCredential and getAssertion after the wait.                           *)

SignFrame == UNCHANGED <<upVars, s_pin_token_valid, snap, idx, commands, approvals, fresh,
                         overlap, raced, wrong, cfg, pin_hash, master_key>> /\ CommandFrame

\* The credential is sealed with the master key as it is now.
Seal ==
    /\ At("seal") /\ Goto("fido2", "count")
    /\ cred' = [rp |-> req.rp, user |-> req.user, key |-> master_key, id |-> commands]
    /\ UNCHANGED <<req, count, slot, sign_counter, rk, ledger>> /\ SignFrame

\* storage_fido2_inc_sign_counter: read, then write.
CountRead ==
    /\ At("count") /\ Goto("fido2", "counted")
    /\ count' = sign_counter
    /\ UNCHANGED <<req, cred, slot, sign_counter, rk, ledger>> /\ SignFrame

\* A wrong increment: the new value is not stored.
CountWriteLost ==
    /\ At("counted")
    /\ Goto("fido2", IF req.cmd = "makeCredential" /\ req.rk THEN "search" ELSE "respond")
    /\ count' = count + 1 /\ slot' = -1
    /\ UNCHANGED <<req, cred, sign_counter, rk, ledger>> /\ SignFrame

CountWrite ==
    /\ At("counted")
    /\ Goto("fido2", IF req.cmd = "makeCredential" /\ req.rk THEN "search" ELSE "respond")
    /\ count' = count + 1 /\ sign_counter' = count + 1 /\ slot' = -1
    /\ UNCHANGED <<req, cred, rk, ledger>> /\ SignFrame

SameAccount(c) == c # NoCred /\ c.rp = cred.rp /\ c.user = cred.user
SearchFrame == UNCHANGED <<req, cred, count, sign_counter, rk, ledger, upVars, snap,
                           s_pin_token_valid, commands, approvals, fresh, overlap, raced,
                           wrong, cfg, pin_hash, master_key>> /\ CommandFrame
Here == rk[idx["fido2"]]
NextPlace == idx' = [idx EXCEPT !["fido2"] = @ + 1] /\ UNCHANGED pc

\* A wrong search: it ends at the first free place.
RkVisitFirstFree ==
    /\ At("search") /\ idx["fido2"] < FIDO2_RK_MAX
    /\ IF Here = NoCred \/ SameAccount(Here)
       THEN slot' = idx["fido2"] /\ Goto("fido2", "store") /\ UNCHANGED idx
       ELSE NextPlace /\ UNCHANGED slot
    /\ SearchFrame

\* One place is read: the first free one is kept, the one of the same account wins.
RkVisit ==
    /\ At("search") /\ idx["fido2"] < FIDO2_RK_MAX
    /\ \/ Here = NoCred /\ NextPlace /\ slot' = IF slot < 0 THEN idx["fido2"] ELSE slot
       \/ SameAccount(Here) /\ slot' = idx["fido2"] /\ Goto("fido2", "store") /\ UNCHANGED idx
       \/ Here # NoCred /\ ~SameAccount(Here) /\ NextPlace /\ UNCHANGED slot
    /\ SearchFrame

\* KEY_STORE_FULL, or the place is known.
RkFound ==
    /\ At("search") /\ idx["fido2"] = FIDO2_RK_MAX
    /\ Goto("fido2", IF slot < 0 THEN "idle" ELSE "store")
    /\ UNCHANGED <<idx, slot>> /\ SearchFrame

RkStore ==
    /\ At("store") /\ Goto("fido2", "respond")
    /\ rk' = [rk EXCEPT ![slot] = cred]
    /\ UNCHANGED <<localVars, sign_counter, ledger>> /\ SignFrame

\* The relying party gets the signed counter.
Respond ==
    /\ At("respond") /\ Goto("fido2", "idle")
    /\ ledger' = [c \in DOMAIN ledger \cup {cred} |-> IF c = cred THEN count ELSE ledger[c]]
    /\ UNCHANGED <<localVars, sign_counter, rk>> /\ SignFrame

Sign == Seal \/ CountRead \/ CountWrite \/ RkVisit \/ RkFound \/ RkStore \/ Respond

-----------------------------------------------------------------------------
(* clientPIN: cfg is written back from the copy read at the start.           *)

PinFrame == /\ UNCHANGED <<upVars, idx, localVars, commands, approvals, fresh, overlap,
                           ledger, raced, master_key, sign_counter, rk>>
            /\ UNCHANGED <<confirmVars, edits>>

Attempts == req.cmd \in {"changePIN", "getPINToken"}
Right == pin_hash = DeviceHash(req.old)

\* A comparison without the check for a blocked PIN.
PinCompareUnblocked ==
    /\ At("pin") /\ Attempts
    /\ req.cmd = "getPINToken" => pin_hash # NoHash
    /\ Goto("fido2", CASE ~Right -> "wrong"
                       [] Right /\ req.cmd = "changePIN" -> "sethash"
                       [] OTHER -> "token")
    /\ wrong' = IF Right THEN 0 ELSE wrong + 1
    /\ UNCHANGED <<cfg, pin_hash, s_pin_token_valid, snap, chosen, token_for>> /\ PinFrame

\* The PIN of a changePIN or getPINToken is compared with the stored one.
PinCompare ==
    /\ At("pin") /\ Attempts
    /\ snap["fido2"].pin_retries # 0
    /\ req.cmd = "getPINToken" => pin_hash # NoHash
    /\ Goto("fido2", CASE ~Right -> "wrong"
                       [] Right /\ req.cmd = "changePIN" -> "sethash"
                       [] OTHER -> "token")
    /\ wrong' = IF Right THEN 0 ELSE wrong + 1
    /\ UNCHANGED <<cfg, pin_hash, s_pin_token_valid, snap, chosen, token_for>> /\ PinFrame

PinSetStart ==
    /\ At("pin") /\ req.cmd = "setPIN" /\ pin_hash = NoHash /\ Goto("fido2", "sethash")
    /\ UNCHANGED <<cfg, pin_hash, s_pin_token_valid, snap, wrong, chosen, token_for>> /\ PinFrame

\* Blocked, not set, already set, a bad pinAuth or a new PIN that is too short.
PinRefused ==
    /\ At("pin") \/ At("sethash")
    /\ Goto("fido2", "idle")
    /\ UNCHANGED <<cfg, pin_hash, s_pin_token_valid, snap, wrong, chosen, token_for>> /\ PinFrame

\* pin_retries is an unsigned byte.
PinWrong ==
    /\ At("wrong") /\ Goto("fido2", "idle")
    /\ cfg' = [snap["fido2"] EXCEPT !.pin_retries = (@ - 1) % 256]
    /\ UNCHANGED <<pin_hash, s_pin_token_valid, snap, wrong, chosen, token_for>> /\ PinFrame

PinHashStore ==
    /\ At("sethash") /\ Goto("fido2", "setcfg")
    /\ pin_hash' = DeviceHash(req.new) /\ chosen' = req.new /\ wrong' = 0
    /\ UNCHANGED <<cfg, s_pin_token_valid, snap, token_for>> /\ PinFrame

\* A wrong end of setPIN: the old token stays valid.
PinCfgStoreOnly ==
    /\ At("setcfg") /\ Goto("fido2", "idle")
    /\ cfg' = [snap["fido2"] EXCEPT !.pin_retries = PIN_RETRIES_MAX]
    /\ UNCHANGED <<pin_hash, s_pin_token_valid, snap, wrong, chosen, token_for>> /\ PinFrame

PinCfgStore ==
    /\ At("setcfg") /\ Goto("fido2", "idle")
    /\ cfg' = [snap["fido2"] EXCEPT !.pin_retries = PIN_RETRIES_MAX]
    /\ s_pin_token_valid' = FALSE
    /\ UNCHANGED <<pin_hash, snap, wrong, chosen, token_for>> /\ PinFrame

TokenCfgStore ==
    /\ At("token") /\ Goto("fido2", "settoken")
    /\ cfg' = [snap["fido2"] EXCEPT !.pin_retries = PIN_RETRIES_MAX]
    /\ UNCHANGED <<pin_hash, s_pin_token_valid, snap, wrong, chosen, token_for>> /\ PinFrame

TokenIssue ==
    /\ At("settoken") /\ Goto("fido2", "idle")
    /\ s_pin_token_valid' = TRUE /\ token_for' = DeviceHash(req.old)
    /\ UNCHANGED <<cfg, pin_hash, snap, wrong, chosen>> /\ PinFrame

Pin == \/ PinCompare \/ PinSetStart \/ PinRefused \/ PinWrong \/ PinHashStore
       \/ PinCfgStore \/ TokenCfgStore \/ TokenIssue

-----------------------------------------------------------------------------
(* fido2_factory_reset and fido2_regen_master_key, called by the reset        *)
(* command and by httpd.                                                     *)

ResetFrame == UNCHANGED <<upVars, localVars, commands, edits, approvals, fresh, overlap,
                          ledger, raced, confirmVars, token_for>>

WipeSlot(t) ==
    /\ pc[t] = "wipe" /\ idx[t] < FIDO2_RK_MAX
    /\ rk' = [rk EXCEPT ![idx[t]] = NoCred]
    /\ idx' = [idx EXCEPT ![t] = @ + 1]
    /\ UNCHANGED <<pc, snap, cfg, pin_hash, master_key, sign_counter, s_pin_token_valid,
                   wrong, chosen>> /\ ResetFrame

ResetCfgRead(t) ==
    /\ pc[t] = "wipe" /\ idx[t] = FIDO2_RK_MAX /\ Goto(t, "resetcfg")
    /\ snap' = [snap EXCEPT ![t] = cfg]
    /\ UNCHANGED <<idx, storageVars, s_pin_token_valid, wrong, chosen>> /\ ResetFrame

ResetCfgWrite(t) ==
    /\ pc[t] = "resetcfg" /\ Goto(t, "clearpin")
    /\ cfg' = [snap[t] EXCEPT !.pin_retries = PIN_RETRIES_MAX]
    /\ wrong' = 0
    /\ UNCHANGED <<snap, idx, pin_hash, master_key, sign_counter, rk,
                   s_pin_token_valid, chosen>> /\ ResetFrame

ClearPin(t) ==
    /\ pc[t] = "clearpin" /\ Goto(t, "resetcount")
    /\ pin_hash' = NoHash /\ chosen' = "none"
    /\ UNCHANGED <<snap, idx, cfg, master_key, sign_counter, rk,
                   s_pin_token_valid, wrong>> /\ ResetFrame

ResetCounter(t) ==
    /\ pc[t] = "resetcount" /\ Goto(t, "regen")
    /\ sign_counter' = 0 /\ s_pin_token_valid' = FALSE
    /\ UNCHANGED <<snap, idx, cfg, pin_hash, master_key, rk, wrong, chosen>> /\ ResetFrame

RegenKey(t) ==
    /\ pc[t] = "regen" /\ Goto(t, "cleartoken")
    /\ master_key' = master_key + 1
    /\ UNCHANGED <<snap, idx, cfg, pin_hash, sign_counter, rk, s_pin_token_valid,
                   wrong, chosen>> /\ ResetFrame

ClearToken(t) ==
    /\ pc[t] = "cleartoken" /\ Goto(t, "idle")
    /\ s_pin_token_valid' = FALSE
    /\ UNCHANGED <<snap, idx, storageVars, wrong, chosen>> /\ ResetFrame

FactoryReset(t) ==
    \/ WipeSlot(t) \/ ResetCfgRead(t) \/ ResetCfgWrite(t) \/ ClearPin(t) \/ ResetCounter(t)
    \/ RegenKey(t) \/ ClearToken(t)

-----------------------------------------------------------------------------
(* httpd: one passkey handler at a time.                                     *)

PinLabels == {"pin", "wrong", "sethash", "setcfg", "token", "settoken"}
ResetLabels == {"wipe", "resetcfg", "clearpin", "resetcount", "regen", "cleartoken"}

WebFrame == UNCHANGED <<upVars, localVars, confirmVars, commands, approvals, fresh, ledger,
                        token_for>>

WebStart(label) ==
    /\ Idle("httpd") /\ edits < MaxWeb /\ edits' = edits + 1
    /\ Goto("httpd", label)
    /\ overlap' = TRUE
    /\ raced' = (raced \/ pc["fido2"] \in PinLabels \cup ResetLabels)
    /\ WebFrame

\* DELETE /api/passkey and POST /api/passkey/regen-key.
WebFactoryReset ==
    /\ WebStart("wipe") /\ idx' = [idx EXCEPT !["httpd"] = 0]
    /\ UNCHANGED <<snap, storageVars, s_pin_token_valid, wrong, chosen>>
WebRegen ==
    /\ WebStart("regen")
    /\ UNCHANGED <<snap, idx, storageVars, s_pin_token_valid, wrong, chosen>>

\* POST /api/passkey: read, change the fields that were sent, write.
WebConfigRead ==
    /\ WebStart("webcfg")
    /\ \E on \in BOOLEAN, key \in BOOLEAN :
          snap' = [snap EXCEPT !["httpd"] = [cfg EXCEPT !.enabled = on, !.confirm = key]]
    /\ UNCHANGED <<idx, storageVars, s_pin_token_valid, wrong, chosen>>
WebConfigWrite ==
    /\ pc["httpd"] = "webcfg" /\ Goto("httpd", "idle")
    /\ cfg' = snap["httpd"]
    /\ UNCHANGED <<snap, idx, pin_hash, master_key, sign_counter, rk, s_pin_token_valid,
                   edits, overlap, raced, wrong, chosen>> /\ WebFrame

\* POST /api/passkey/pin: the hash first, then the configuration.
WebPinHash ==
    /\ WebStart("webpin")
    /\ \E p \in Pins : pin_hash' = WebHash(p) /\ chosen' = p
    /\ wrong' = 0
    /\ UNCHANGED <<snap, idx, cfg, master_key, sign_counter, rk, s_pin_token_valid>>
WebPinRead ==
    /\ pc["httpd"] = "webpin" /\ Goto("httpd", "webpincfg")
    /\ snap' = [snap EXCEPT !["httpd"] = cfg]
    /\ UNCHANGED <<idx, storageVars, s_pin_token_valid, edits, overlap, raced, wrong, chosen>>
    /\ WebFrame
WebPinWrite ==
    /\ pc["httpd"] = "webpincfg" /\ Goto("httpd", "idle")
    /\ cfg' = [snap["httpd"] EXCEPT !.pin_retries = PIN_RETRIES_MAX]
    /\ UNCHANGED <<snap, idx, pin_hash, master_key, sign_counter, rk, s_pin_token_valid,
                   edits, overlap, raced, wrong, chosen>> /\ WebFrame

\* DELETE /api/passkey/rk/{n}: one call of storage.
WebRkDelete ==
    /\ Idle("httpd") /\ edits < MaxWeb /\ edits' = edits + 1
    /\ \E n \in Slots : rk' = [rk EXCEPT ![n] = NoCred]
    /\ UNCHANGED <<taskVars, cfg, pin_hash, master_key, sign_counter, s_pin_token_valid,
                   overlap, raced, wrong, chosen>> /\ WebFrame

Web == \/ WebFactoryReset \/ WebRegen \/ WebConfigRead \/ WebConfigWrite
       \/ WebPinHash \/ WebPinRead \/ WebPinWrite \/ WebRkDelete

-----------------------------------------------------------------------------
(* The confirmers: the first check (btn_task, fido2_intercept_key), the       *)
(* second (fido2_confirm_up) and the give are three steps.                   *)

ConfirmFrame == UNCHANGED <<storageVars, s_up_pending, s_pin_token_valid, taskVars, localVars,
                            commands, edits, approvals, overlap, ledger, pinHistory>>

\* A report counts only if a confirm key is configured; the button always does.
Press(c) ==
    /\ cpc[c] = "idle" /\ presses < MaxPresses
    /\ s_up_pending /\ (c = "keyboard" => cfg.confirm)
    /\ cpc' = [cpc EXCEPT ![c] = "check"] /\ presses' = presses + 1
    /\ fresh' = TRUE
    /\ UNCHANGED s_up_sem /\ ConfirmFrame

ConfirmCheck(c) ==
    /\ cpc[c] = "check"
    /\ cpc' = [cpc EXCEPT ![c] = IF s_up_pending THEN "give" ELSE "idle"]
    /\ UNCHANGED <<s_up_sem, presses, fresh>> /\ ConfirmFrame

Give(c) ==
    /\ cpc[c] = "give" /\ cpc' = [cpc EXCEPT ![c] = "idle"]
    /\ s_up_sem' = TRUE
    /\ UNCHANGED <<presses, fresh>> /\ ConfirmFrame

Confirm == \E c \in Confirmers : Press(c) \/ ConfirmCheck(c) \/ Give(c)

-----------------------------------------------------------------------------
Authenticator == \/ Command \/ UpTaken \/ UpTimeout \/ UpDone \/ Sign \/ Pin
Next == \/ Authenticator \/ (\E t \in Tasks : FactoryReset(t)) \/ Web \/ Confirm
Spec == Init /\ [][Next]_vars

-----------------------------------------------------------------------------
(* Properties.                                                               *)

Answered == At("respond") /\ pc'["fido2"] = "idle"

StorageTypeOK == /\ cfg \in Config /\ pin_hash \in Hashes
                 /\ master_key \in Nat /\ sign_counter \in Nat
                 /\ rk \in [Slots -> Credential \cup {NoCred}]
ControlTypeOK == /\ pc \in [Tasks -> {"idle", "wait", "confirmed", "expired", "seal", "count",
                                      "counted", "search", "store", "respond", "webcfg",
                                      "webpin", "webpincfg"} \cup PinLabels \cup ResetLabels]
                 /\ snap \in [Tasks -> Config] /\ idx \in [Tasks -> 0 .. FIDO2_RK_MAX]
                 /\ slot \in Slots \cup {-1} /\ count \in Nat
                 /\ cred \in Credential \cup {NoCred}
PresenceTypeOK == /\ s_up_pending \in BOOLEAN /\ s_up_sem \in BOOLEAN
                  /\ s_pin_token_valid \in BOOLEAN
                  /\ cpc \in [Confirmers -> {"idle", "check", "give"}]
                  /\ presses \in Nat /\ approvals \in Nat

\* Every variable holds a value of its C type and every index is inside its
\* table; the retry counter, an unsigned byte, is never decremented below zero.
TypeOK == StorageTypeOK /\ ControlTypeOK /\ PresenceTypeOK
          /\ cfg.pin_retries <= PIN_RETRIES_MAX

\* There is one resident key at most for an account, although httpd deletes keys
\* between the search for a place and the write.
OneKeyPerAccount ==
    \A n, k \in Slots :
        rk[n] # NoCred /\ rk[k] # NoCred /\ rk[n].rp = rk[k].rp /\ rk[n].user = rk[k].user
            => n = k

\* A press confirms one operation at most: the semaphore multiplies none.
ApprovalsArePresses == approvals <= presses

\* A relying party never sees the counter of a credential stand still or go
\* back, over resets, new master keys and deleted keys.  A command during which
\* httpd worked is exempt: a factory reset zeroes the counter before it makes
\* the credential that the command already holds useless.
CountersIncrease ==
    [][ Answered /\ ~overlap /\ cred \in DOMAIN ledger => count > ledger[cred] ]_vars

\* After PIN_RETRIES_MAX wrong PINs in a row none is compared any more, unless
\* httpd wrote the configuration back in the middle of a PIN command.
BlockedAfterRetries == ~raced => wrong <= PIN_RETRIES_MAX

\* Whenever nobody is at work, a valid PIN token was issued for the PIN that is
\* stored: fido2.c:103 "valid until PIN changes or authenticator reset".  A PIN
\* set by the web handler is exempt, which leaves the token alone, and so is what
\* follows after httpd worked in the middle of a PIN command or of a reset.
TokenIsCurrent ==
    s_pin_token_valid /\ ~raced /\ (\A t \in Tasks : Idle(t)) /\ pin_hash.rounds # 2 =>
        pin_hash = token_for

\* What README.md:80 says: a press "confirms each authentication request".  The
\* press fell into the wait that it confirms.
EachRequestConfirmed == At("confirmed") => fresh

\* What web_ui.c:1428 says: the PIN set there has the "same derivation as CTAP2
\* clientPIN".  The PIN that the user chose last is not taken for a wrong one.
ChosenPinAccepted ==
    [][ At("pin") /\ pc'["fido2"] = "wrong" /\ ~raced => req.old # chosen ]_vars
=============================================================================
