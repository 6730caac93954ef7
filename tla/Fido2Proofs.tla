----------------------------- MODULE Fido2Proofs -----------------------------
(***************************************************************************)
(* Proofs about Fido2, for any number of resident keys, retries, users, PINs  *)
(* and confirmers and every value of the bounds.                            *)
(***************************************************************************)
EXTENDS Fido2, FiniteSetTheorems, TLAPS

PinCmds == {"setPIN", "changePIN", "getPINToken"}
Waiting == {"wait", "confirmed", "expired"}
Counting == {"count", "counted", "search", "store", "respond"}
Signs == \/ pc["fido2"] \in Counting
         \/ pc["fido2"] \in Waiting /\ req.cmd = "getAssertion"

\* Where a task can be, and that what it will use there is there.
Requests ==
    /\ pc["fido2"] \notin {"webcfg", "webpin", "webpincfg"}
    /\ pc["httpd"] \in {"idle", "webcfg", "webpin", "webpincfg"} \cup ResetLabels
    /\ pc["fido2"] \in Waiting => req.cmd \in {"makeCredential", "getAssertion", "reset"}
    /\ At("seal") => req.cmd = "makeCredential"
    /\ req.cmd = "makeCredential" => req.rp \in RPs /\ req.user \in Users
    /\ pc["fido2"] \in PinLabels => req.cmd \in PinCmds /\ req.old \in Pins /\ req.new \in Pins
    /\ Signs => cred \in Credential
    /\ At("store") => slot \in Slots
    /\ DOMAIN ledger \subseteq Credential /\ \A c \in DOMAIN ledger : ledger[c] \in Nat
    /\ commands \in Nat /\ wrong \in Nat

\* A copy of the configuration has a legal retry counter, and one that is to be
\* decremented is not zero.
Copies ==
    /\ \A t \in Tasks : snap[t].pin_retries <= PIN_RETRIES_MAX
    /\ At("wrong") => snap["fido2"].pin_retries >= 1

Typed == TypeOK /\ Requests /\ Copies

-----------------------------------------------------------------------------
(* Presses: each is on its way, in the semaphore, used up or in vain.          *)

Confirming == {c \in Confirmers : cpc[c] # "idle"}
PressesAccounted ==
    approvals + (IF s_up_sem THEN 1 ELSE 0) + Cardinality(Confirming) <= presses

(* Keys: no place the search has passed holds the account.                    *)
Account(c, d) == c # NoCred /\ d # NoCred /\ c.rp = d.rp /\ c.user = d.user
Searched ==
    /\ pc["fido2"] \in {"seal", "count", "counted"} => idx["fido2"] = 0
    /\ At("search") => \A n \in Slots : n < idx["fido2"] => ~SameAccount(rk[n])
    /\ At("store") => \A n \in Slots : n # slot => ~SameAccount(rk[n])
Keys == OneKeyPerAccount /\ Searched

(* Retries: wrong attempts and remaining ones add up to no more than the limit. *)
Exclusive ==
    raced \/ Idle("httpd") \/ pc["fido2"] \notin PinLabels \cup ResetLabels
Retries ==
    ~raced =>
        /\ wrong + cfg.pin_retries <= PIN_RETRIES_MAX + (IF At("wrong") THEN 1 ELSE 0)
        /\ pc["fido2"] \in PinLabels \ {"settoken"} =>
              snap["fido2"].pin_retries = cfg.pin_retries
        /\ pc["httpd"] = "webcfg" => snap["httpd"].pin_retries = cfg.pin_retries
        /\ pc["fido2"] \in {"setcfg", "token"} \/ pc["httpd"] \in {"webpin", "webpincfg"} =>
              wrong = 0
RetriesInv == Exclusive /\ Retries

(* The token: valid for the stored PIN but while one of them is being changed.  *)
Changing == At("setcfg") \/ \E t \in Tasks : pc[t] = "resetcount"
Token ==
    ~raced =>
        /\ s_pin_token_valid /\ pin_hash.rounds # 2 /\ ~Changing => pin_hash = token_for
        /\ pc["fido2"] \in {"token", "settoken"} => pin_hash = DeviceHash(req.old)

(* Counters.                                                                 *)
KeyChanging == \E t \in Tasks : pc[t] = "regen"
Known(c) == c \in DOMAIN ledger
Counters ==
    /\ Signs => cred.key <= master_key
    /\ \A c \in DOMAIN ledger : c.key <= master_key
    /\ ~KeyChanging =>
         /\ \A c \in DOMAIN ledger : c.key = master_key => ledger[c] <= sign_counter
         /\ pc["fido2"] \in {"search", "store", "respond"} /\ cred.key = master_key =>
               count <= sign_counter
    /\ At("counted") => count >= sign_counter
    /\ ~overlap => /\ Idle("httpd")
                   /\ Signs => cred.key = master_key
                   /\ pc["fido2"] \in {"search", "store", "respond"} /\ Known(cred) =>
                         count > ledger[cred]

-----------------------------------------------------------------------------
(* The credential that an assertion uses.                                      *)

\* A credential that opens is one, of the current master key.
LEMMA OpenedType ==
    ASSUME Typed, NEW rp \in RPs, NEW allow \in DOMAIN ledger \cup {NoCred}, NEW uv \in BOOLEAN,
           GetAssertion(rp, allow, uv)
    PROVE  cred' \in Credential /\ cred'.key = master_key
<1>1. CASE allow # NoCred /\ cred' = allow /\ Opens(allow)
  BY <1>1 DEF Typed, Requests, Opens
<1>2. ASSUME NEW n \in ResidentFor(rp), cred' = rk[n] PROVE cred' \in Credential /\ cred'.key = master_key
  BY <1>2 DEF ResidentFor, Opens, Typed, TypeOK, StorageTypeOK
<1> QED BY <1>1, <1>2 DEF GetAssertion

-----------------------------------------------------------------------------
(* Types.                                                                    *)

LEMMA TypedInit == Init => Typed
<1> SUFFICES ASSUME Init PROVE Typed
  OBVIOUS
<1> USE Fido2Assumption DEF Init, NewConfig
<1>1. NewConfig \in Config
  BY DEF Config
<1>2. StorageTypeOK
  BY <1>1 DEF StorageTypeOK, Hashes
<1>3. ControlTypeOK
  BY <1>1 DEF ControlTypeOK, Tasks, Slots
<1>4. PresenceTypeOK
  BY DEF PresenceTypeOK
<1>5. Requests
  BY DEF Requests, Signs, Waiting, Counting, PinLabels, ResetLabels, At, NoRequest, Tasks
<1>6. Copies
  BY DEF Copies, At, Tasks
<1> QED BY <1>2, <1>3, <1>4, <1>5, <1>6 DEF Typed, TypeOK

\* Decrementing the unsigned byte does not wrap.
LEMMA Decrement ==
    ASSUME NEW n \in 1 .. 255
    PROVE  (n - 1) % 256 = n - 1
OBVIOUS

\* What is written back to the configuration is one.
LEMMA RetriesType ==
    ASSUME NEW c \in Config, NEW n \in 0 .. PIN_RETRIES_MAX
    PROVE  [c EXCEPT !.pin_retries = n] \in Config /\ [c EXCEPT !.pin_retries = n].pin_retries = n
<1>1. n \in 0 .. 255
  BY Fido2Assumption
<1> QED BY <1>1 DEF Config

LEMMA FlagsType ==
    ASSUME NEW c \in Config, NEW on \in BOOLEAN, NEW key \in BOOLEAN
    PROVE  /\ [c EXCEPT !.enabled = on, !.confirm = key] \in Config
           /\ [c EXCEPT !.enabled = on, !.confirm = key].pin_retries = c.pin_retries
<1>1. [c EXCEPT !.enabled = on] \in Config /\ [c EXCEPT !.enabled = on].pin_retries = c.pin_retries
  BY DEF Config
<1>2. [[c EXCEPT !.enabled = on] EXCEPT !.confirm = key] \in Config
      /\ [[c EXCEPT !.enabled = on] EXCEPT !.confirm = key].pin_retries = c.pin_retries
  BY <1>1 DEF Config
<1> QED BY <1>2

\* The confirmers change nothing but their places, the presses and the semaphore.
LEMMA ConfirmType ==
    ASSUME PresenceTypeOK, Confirm
    PROVE  /\ UNCHANGED <<cfg, pin_hash, master_key, sign_counter, rk, s_up_pending, pc, snap, idx,
                          s_pin_token_valid, req, cred, count, slot, commands, approvals, ledger, wrong,
                          token_for, raced, overlap>>
           /\ cpc' \in [Confirmers -> {"idle", "check", "give"}]
           /\ s_up_sem' \in BOOLEAN /\ presses' \in Nat
<1>1. PICK c \in Confirmers : Press(c) \/ ConfirmCheck(c) \/ Give(c)
  BY DEF Confirm
<1> USE DEF PresenceTypeOK, ConfirmFrame, taskVars, storageVars, localVars, pinHistory
<1>2. CASE Press(c)
  BY <1>2 DEF Press
<1>3. CASE ConfirmCheck(c)
  BY <1>3 DEF ConfirmCheck
<1>4. CASE Give(c)
  BY <1>4 DEF Give
<1> QED BY <1>1, <1>2, <1>3, <1>4

LEMMA TypedStep == Typed /\ [Next]_vars => Typed'
<1> SUFFICES ASSUME Typed, [Next]_vars PROVE Typed'
  OBVIOUS
<1> USE Fido2Assumption DEF Typed, TypeOK, StorageTypeOK, ControlTypeOK, PresenceTypeOK, Requests,
        Copies, Signs, Waiting, Counting, PinCmds, PinLabels, ResetLabels, At, Goto, Tasks,
        Idle
<1>1. CASE Command
  <2> USE DEF CommandFrame, confirmVars, BeginWait, Accept, storageVars, upVars
  <2>1. ASSUME NEW rp \in RPs, NEW user \in Users, NEW resident \in BOOLEAN, NEW uv \in BOOLEAN,
               MakeCredential(rp, user, resident, uv)
        PROVE  Typed'
    BY <2>1 DEF MakeCredential
  <2>2. ASSUME NEW rp \in RPs, NEW allow \in DOMAIN ledger \cup {NoCred}, NEW uv \in BOOLEAN,
               GetAssertion(rp, allow, uv)
        PROVE  Typed'
    <3>1. cred' \in Credential /\ cred'.key = master_key
      BY <2>2, OpenedType
    <3> QED BY <2>2, <3>1 DEF GetAssertion
  <2>3. CASE Reset
    BY <2>3 DEF Reset
  <2>4. ASSUME NEW p \in Pins, NEW q \in Pins, NEW cmd \in PinCmds, ClientPin(cmd, p, q)
        PROVE  Typed'
    BY <2>4 DEF ClientPin
  <2> QED BY <1>1, <2>1, <2>2, <2>3, <2>4 DEF Command
<1>2. CASE UpTaken \/ UpTimeout
  <2> USE <1>2 DEF UpTaken, UpTimeout, WaitFrame, CommandFrame, confirmVars, storageVars, upVars,
                   localVars
  <2>1. PICK l \in {"confirmed", "expired"} : pc' = [pc EXCEPT !["fido2"] = l]
    OBVIOUS
  <2>2. ControlTypeOK'
    BY <2>1
  <2>3. Requests' /\ Copies'
    BY <2>1
  <2>4. s_up_sem' \in BOOLEAN
    OBVIOUS
  <2>5. approvals' \in Nat
    OBVIOUS
  <2> QED BY <2>2, <2>3, <2>4, <2>5
<1>3. CASE UpDone
  <2> USE <1>3 DEF UpDone, CommandFrame, confirmVars, storageVars, localVars
  <2>1. AfterWait \in {"seal", "count", "wipe"}
        /\ (AfterWait = "seal" => req.cmd = "makeCredential")
        /\ (AfterWait = "count" => req.cmd = "getAssertion")
    BY DEF AfterWait
  <2>2. PICK l \in {"seal", "count", "wipe", "idle"} :
           /\ pc' = [pc EXCEPT !["fido2"] = l]
           /\ l = "seal" => req.cmd = "makeCredential"
           /\ l = "count" => req.cmd = "getAssertion"
    BY <2>1
  <2>3. ControlTypeOK'
    BY <2>2
  <2>4. Requests' /\ Copies'
    BY <2>2
  <2> QED BY <2>3, <2>4
<1>4. CASE Sign
  <2> USE DEF SignFrame, SearchFrame, CommandFrame, confirmVars, storageVars, upVars, localVars,
              NextPlace
  <2>1. CASE Seal
    BY <2>1 DEF Seal, Credential
  <2>2. CASE CountRead \/ CountWrite
    BY <2>2 DEF CountRead, CountWrite
  <2>3. CASE RkVisit \/ RkFound
    <3>1. CASE RkVisit
      BY <3>1 DEF RkVisit, Slots
    <3>2. CASE RkFound
      BY <3>2 DEF RkFound
    <3> QED BY <2>3, <3>1, <3>2
  <2>4. CASE RkStore
    BY <2>4 DEF RkStore
  <2>5. CASE Respond
    BY <2>5 DEF Respond
  <2> QED BY <1>4, <2>1, <2>2, <2>3, <2>4, <2>5 DEF Sign
<1>5. CASE Pin
  <2> USE DEF PinFrame, confirmVars, upVars, localVars, Config
  <2>1. CASE PinCompare
    BY <2>1 DEF PinCompare
  <2>2. CASE PinSetStart \/ PinRefused
    BY <2>2 DEF PinSetStart, PinRefused
  <2>3. CASE PinWrong
    <3>1. cfg' = [snap["fido2"] EXCEPT !.pin_retries = snap["fido2"].pin_retries - 1]
      <4>1. snap["fido2"].pin_retries \in 1 .. 255
        BY <2>3 DEF PinWrong
      <4>2. (snap["fido2"].pin_retries - 1) % 256 = snap["fido2"].pin_retries - 1
        BY <4>1, Decrement
      <4> QED BY <2>3, <4>2 DEF PinWrong
    <3>2. snap["fido2"] \in Config /\ snap["fido2"].pin_retries - 1 \in 0 .. PIN_RETRIES_MAX
      <4>1. snap["fido2"] \in Config /\ snap["fido2"].pin_retries \in 1 .. PIN_RETRIES_MAX
        BY <2>3 DEF PinWrong
      <4> QED BY <4>1
    <3>3. cfg' \in Config /\ cfg'.pin_retries <= PIN_RETRIES_MAX
      BY <3>1, <3>2, RetriesType
    <3>4. pc' = [pc EXCEPT !["fido2"] = "idle"]
      BY <2>3 DEF PinWrong
    <3>5. ControlTypeOK' /\ StorageTypeOK' /\ PresenceTypeOK'
      <4>1. ControlTypeOK'
        BY <2>3, <3>4 DEF PinWrong
      <4>2. StorageTypeOK'
        BY <2>3, <3>3 DEF PinWrong
      <4>3. PresenceTypeOK'
        BY <2>3 DEF PinWrong
      <4> HIDE DEF ControlTypeOK, StorageTypeOK, PresenceTypeOK
      <4> QED BY <4>1, <4>2, <4>3
    <3>6. snap' = snap /\ req' = req /\ cred' = cred /\ slot' = slot /\ ledger' = ledger
      BY <2>3 DEF PinWrong
    <3>7. Requests' /\ Copies'
      BY <2>3, <3>4, <3>6 DEF PinWrong
    <3> HIDE DEF ControlTypeOK, StorageTypeOK, PresenceTypeOK, Requests, Copies
    <3> QED BY <3>3, <3>5, <3>7
  <2>4. CASE PinHashStore
    BY <2>4 DEF PinHashStore, Hashes
  <2>5. CASE PinCfgStore \/ TokenCfgStore
    <3>1. cfg' = [snap["fido2"] EXCEPT !.pin_retries = PIN_RETRIES_MAX]
      BY <2>5 DEF PinCfgStore, TokenCfgStore
    <3>2. snap["fido2"] \in Config /\ PIN_RETRIES_MAX \in 0 .. PIN_RETRIES_MAX
      BY <2>5
    <3>3. cfg' \in Config /\ cfg'.pin_retries <= PIN_RETRIES_MAX
      BY <3>1, <3>2, RetriesType
    <3>4. PICK l \in {"idle", "settoken"} : pc' = [pc EXCEPT !["fido2"] = l]
                                           /\ (l = "settoken" => At("token"))
      BY <2>5 DEF PinCfgStore, TokenCfgStore
    <3>5. UNCHANGED <<pin_hash, master_key, sign_counter, rk, snap, idx, slot, count, cred,
                      s_up_pending, s_up_sem, cpc, presses, approvals, req, ledger, commands,
                      wrong>>
          /\ s_pin_token_valid' \in BOOLEAN
      BY <2>5 DEF PinCfgStore, TokenCfgStore
    <3> QED BY <3>3, <3>4, <3>5
  <2>6. CASE TokenIssue
    BY <2>6 DEF TokenIssue
  <2> QED BY <1>5, <2>1, <2>2, <2>3, <2>4, <2>5, <2>6 DEF Pin
<1>6. ASSUME NEW t \in Tasks, FactoryReset(t)
      PROVE  Typed'
  <2> USE DEF ResetFrame, confirmVars, upVars, localVars, storageVars
  <2>1. CASE WipeSlot(t)
    <3>1. rk' \in [Slots -> Credential \cup {NoCred}]
      BY <2>1 DEF WipeSlot
    <3>2. idx[t] + 1 \in 0 .. FIDO2_RK_MAX
      BY <2>1 DEF WipeSlot
    <3>3. idx' \in [Tasks -> 0 .. FIDO2_RK_MAX]
      BY <2>1, <3>2 DEF WipeSlot
    <3> QED BY <2>1, <3>1, <3>3 DEF WipeSlot
  <2>2. CASE ResetCfgRead(t) \/ ResetCfgWrite(t)
    BY <2>2 DEF ResetCfgRead, ResetCfgWrite, Config
  <2>3. CASE ClearPin(t) \/ ResetCounter(t)
    <3>1. PICK l \in ResetLabels : pc' = [pc EXCEPT ![t] = l]
      BY <2>3 DEF ClearPin, ResetCounter
    <3>2. ControlTypeOK' /\ StorageTypeOK'
      BY <2>3, <3>1 DEF ClearPin, ResetCounter, Hashes
    <3>3. Requests' /\ Copies'
      BY <2>3, <3>1 DEF ClearPin, ResetCounter
    <3>4. PresenceTypeOK' /\ cfg' = cfg
      BY <2>3 DEF ClearPin, ResetCounter
    <3> HIDE DEF ControlTypeOK, StorageTypeOK, PresenceTypeOK, Requests, Copies
    <3> QED BY <3>2, <3>3, <3>4
  <2>4. CASE RegenKey(t) \/ ClearToken(t)
    <3>1. PICK l \in {"cleartoken", "idle"} : pc' = [pc EXCEPT ![t] = l]
      BY <2>4 DEF RegenKey, ClearToken
    <3>2. ControlTypeOK' /\ StorageTypeOK'
      BY <2>4, <3>1 DEF RegenKey, ClearToken
    <3>3. Requests' /\ Copies'
      BY <2>4, <3>1 DEF RegenKey, ClearToken
    <3>4. PresenceTypeOK' /\ cfg' = cfg
      BY <2>4 DEF RegenKey, ClearToken
    <3> HIDE DEF ControlTypeOK, StorageTypeOK, PresenceTypeOK, Requests, Copies
    <3> QED BY <3>2, <3>3, <3>4
  <2> QED BY <1>6, <2>1, <2>2, <2>3, <2>4 DEF FactoryReset
<1>7. CASE Web
  <2> USE DEF WebFrame, WebStart, confirmVars, upVars, localVars, storageVars
  <2>1. CASE WebFactoryReset \/ WebRegen
    BY <2>1 DEF WebFactoryReset, WebRegen
  <2>2. CASE WebConfigRead
    <3>1. PICK c \in Config : /\ c.pin_retries = cfg.pin_retries
                              /\ snap' = [snap EXCEPT !["httpd"] = c]
      <4>1. PICK on \in BOOLEAN, key \in BOOLEAN :
               snap' = [snap EXCEPT !["httpd"] = [cfg EXCEPT !.enabled = on, !.confirm = key]]
        BY <2>2 DEF WebConfigRead
      <4>2. [cfg EXCEPT !.enabled = on, !.confirm = key] \in Config
            /\ [cfg EXCEPT !.enabled = on, !.confirm = key].pin_retries = cfg.pin_retries
        BY FlagsType
      <4> QED BY <4>1, <4>2
    <3>2. snap'["fido2"] = snap["fido2"]
      BY <2>2 DEF WebConfigRead
    <3> QED BY <2>2, <3>1, <3>2 DEF WebConfigRead
  <2>3. CASE WebConfigWrite
    BY <2>3 DEF WebConfigWrite
  <2>4. CASE WebPinHash
    BY <2>4 DEF WebPinHash, Hashes
  <2>5. CASE WebPinRead \/ WebPinWrite
    BY <2>5 DEF WebPinRead, WebPinWrite, Config
  <2>6. CASE WebRkDelete
    BY <2>6 DEF WebRkDelete, taskVars
  <2> QED BY <1>7, <2>1, <2>2, <2>3, <2>4, <2>5, <2>6 DEF Web
<1>8. CASE Confirm
  BY <1>8, ConfirmType
<1>9. CASE UNCHANGED vars
  BY <1>9 DEF vars, storageVars, upVars, taskVars, localVars, confirmVars, pinHistory
<1> QED BY <1>1, <1>2, <1>3, <1>4, <1>5, <1>6, <1>7, <1>8, <1>9 DEF Next, Authenticator

-----------------------------------------------------------------------------
(* Presses.                                                                  *)

LEMMA ConfirmingFinite == IsFiniteSet(Confirming) /\ Cardinality(Confirming) \in Nat
<1>1. Confirming \in SUBSET Confirmers
  BY DEF Confirming
<1> QED BY <1>1, Fido2Assumption, FS_Subset, FS_CardinalityType

LEMMA PressesInit == Init => PressesAccounted
<1> SUFFICES ASSUME Init PROVE PressesAccounted
  OBVIOUS
<1>1. Confirming = {}
  BY DEF Init, Confirming
<1> QED BY <1>1, FS_EmptySet DEF Init, PressesAccounted

LEMMA PressesStep == Typed /\ PressesAccounted /\ [Next]_vars => PressesAccounted'
<1> SUFFICES ASSUME Typed, PressesAccounted, [Next]_vars PROVE PressesAccounted'
  OBVIOUS
<1>0. /\ presses \in Nat /\ approvals \in Nat /\ s_up_sem \in BOOLEAN
      /\ cpc \in [Confirmers -> {"idle", "check", "give"}]
  BY DEF Typed, TypeOK, PresenceTypeOK
<1>1. CASE UNCHANGED <<approvals, s_up_sem, cpc, presses>>
  BY <1>1 DEF PressesAccounted, Confirming
<1>2. CASE UpTaken
  <2>1. s_up_sem /\ ~s_up_sem' /\ approvals' = approvals + 1 /\ UNCHANGED <<cpc, presses>>
    BY <1>2 DEF UpTaken, CommandFrame, confirmVars
  <2>2. Confirming' = Confirming
    BY <2>1 DEF Confirming
  <2> QED BY <1>0, <2>1, <2>2, ConfirmingFinite DEF PressesAccounted
<1>3. ASSUME NEW c \in Confirmers, Press(c)
      PROVE  PressesAccounted'
  <2>1. Confirming' = Confirming \cup {c} /\ c \notin Confirming
    BY <1>0, <1>3 DEF Press, Confirming
  <2>2. Cardinality(Confirming') = Cardinality(Confirming) + 1
    BY <2>1, ConfirmingFinite, FS_AddElement
  <2> QED BY <1>0, <1>3, <2>2, ConfirmingFinite DEF Press, PressesAccounted, ConfirmFrame
<1>4. ASSUME NEW c \in Confirmers, ConfirmCheck(c)
      PROVE  PressesAccounted'
  <2>1. Confirming' \subseteq Confirming
    BY <1>0, <1>4 DEF ConfirmCheck, Confirming
  <2>2. Cardinality(Confirming') \in Nat /\ Cardinality(Confirming') <= Cardinality(Confirming)
    BY <2>1, ConfirmingFinite, FS_Subset, FS_CardinalityType
  <2> QED BY <1>0, <1>4, <2>2, ConfirmingFinite DEF ConfirmCheck, PressesAccounted, ConfirmFrame
<1>5. ASSUME NEW c \in Confirmers, Give(c)
      PROVE  PressesAccounted'
  <2>1. Confirming' = Confirming \ {c} /\ c \in Confirming
    BY <1>0, <1>5 DEF Give, Confirming
  <2>2. Cardinality(Confirming') = Cardinality(Confirming) - 1
    BY <2>1, ConfirmingFinite, FS_RemoveElement
  <2> QED BY <1>0, <1>5, <2>2, ConfirmingFinite DEF Give, PressesAccounted, ConfirmFrame
<1>6. CASE Command
  <2>1. CommandFrame /\ UNCHANGED <<s_up_sem, approvals>>
    BY <1>6 DEF Command, MakeCredential, GetAssertion, Reset, ClientPin, Accept, BeginWait, upVars
  <2> QED BY <1>1, <2>1 DEF CommandFrame, confirmVars
<1>7. CASE UpTimeout \/ UpDone
  BY <1>1, <1>7 DEF UpTimeout, UpDone, CommandFrame, confirmVars, upVars
<1>8. CASE Sign
  BY <1>1, <1>8 DEF Sign, Seal, CountRead, CountWrite, RkVisit, RkFound, RkStore, Respond, SignFrame,
                    SearchFrame, CommandFrame, confirmVars, upVars
<1>9. CASE Pin
  BY <1>1, <1>9 DEF Pin, PinCompare, PinSetStart, PinRefused, PinWrong, PinHashStore, PinCfgStore,
                    TokenCfgStore, TokenIssue, PinFrame, confirmVars, upVars
<1>10. ASSUME NEW t \in Tasks, FactoryReset(t)
       PROVE  PressesAccounted'
  BY <1>1, <1>10 DEF FactoryReset, WipeSlot, ResetCfgRead, ResetCfgWrite, ClearPin, ResetCounter,
                     RegenKey, ClearToken, ResetFrame, confirmVars, upVars
<1>11. CASE Web
  BY <1>1, <1>11 DEF Web, WebFactoryReset, WebRegen, WebConfigRead, WebConfigWrite, WebPinHash,
                     WebPinRead, WebPinWrite, WebRkDelete, WebStart, WebFrame, confirmVars, upVars
<1>12. CASE UNCHANGED vars
  BY <1>1, <1>12 DEF vars, confirmVars, upVars
<1> QED BY <1>2, <1>3, <1>4, <1>5, <1>6, <1>7, <1>8, <1>9, <1>10, <1>11, <1>12
        DEF Next, Authenticator, Confirm

-----------------------------------------------------------------------------
(* Resident keys.                                                            *)

LEMMA KeysInit == Init => Keys
BY DEF Init, Keys, OneKeyPerAccount, Searched, At, Tasks

\* Deleting keys, and whatever else happens outside the search.
LEMMA KeysFrame ==
    ASSUME Keys, \A n \in Slots : rk'[n] = rk[n] \/ rk'[n] = NoCred,
           \/ pc'["fido2"] \notin {"seal", "count", "counted", "search", "store"}
           \/ /\ UNCHANGED <<cred, slot>> /\ pc'["fido2"] = pc["fido2"]
              /\ idx'["fido2"] = idx["fido2"]
    PROVE  Keys'
<1>1. OneKeyPerAccount'
  BY DEF Keys, OneKeyPerAccount
<1>2. Searched'
  BY DEF Keys, Searched, SameAccount, At
<1> QED BY <1>1, <1>2 DEF Keys

LEMMA KeysStep == Typed /\ Keys /\ [Next]_vars => Keys'
<1> SUFFICES ASSUME Typed, Keys, [Next]_vars PROVE Keys'
  OBVIOUS
<1>0. /\ pc \in [Tasks -> {"idle", "wait", "confirmed", "expired", "seal", "count",
                          "counted", "search", "store", "respond", "webcfg",
                          "webpin", "webpincfg"} \cup PinLabels \cup ResetLabels]
      /\ idx \in [Tasks -> 0 .. FIDO2_RK_MAX] /\ slot \in Slots \cup {-1}
      /\ "fido2" \in Tasks /\ "httpd" \in Tasks
      /\ rk \in [Slots -> Credential \cup {NoCred}]
  BY DEF Typed, TypeOK, ControlTypeOK, StorageTypeOK, Tasks
<1> USE DEF At, Goto
<1>1. CASE Command
  <2>1. UNCHANGED rk /\ pc'["fido2"] \in {"wait", "pin"}
    BY <1>0, <1>1 DEF Command, MakeCredential, GetAssertion, Reset, ClientPin, Accept, BeginWait,
                      storageVars
  <2> QED BY <2>1, KeysFrame
<1>2. CASE UpTaken \/ UpTimeout
  <2>1. UNCHANGED rk /\ pc'["fido2"] \in {"confirmed", "expired"}
    BY <1>0, <1>2 DEF UpTaken, UpTimeout, WaitFrame, storageVars
  <2> QED BY <2>1, KeysFrame
<1>3. CASE UpDone
  <2>1. UNCHANGED rk /\ idx'["fido2"] = 0 /\ pc'["fido2"] \in {"seal", "count", "wipe", "idle"}
    BY <1>0, <1>3 DEF UpDone, AfterWait, storageVars, Typed, Requests, Waiting
  <2> QED BY <2>1 DEF Keys, OneKeyPerAccount, Searched
<1>4. CASE Seal \/ CountRead \/ CountWrite
  <2>1. /\ pc["fido2"] \in {"seal", "count", "counted"}
        /\ pc'["fido2"] \in {"count", "counted", "search", "respond"}
        /\ UNCHANGED <<rk, idx>>
    BY <1>0, <1>4 DEF Seal, CountRead, CountWrite, SignFrame
  <2> QED BY <2>1, Fido2Assumption DEF Keys, OneKeyPerAccount, Searched, Slots
<1>5. CASE RkVisit
  <2>1. At("search") /\ UNCHANGED <<rk, cred>> /\ idx["fido2"] \in Slots
    BY <1>0, <1>5, Fido2Assumption DEF RkVisit, SearchFrame, Slots
  <2>2. CASE SameAccount(Here) /\ slot' = idx["fido2"] /\ pc'["fido2"] = "store"
    BY <2>1, <2>2 DEF Keys, OneKeyPerAccount, Searched, SameAccount, Here
  <2>3. CASE ~SameAccount(Here) /\ idx'["fido2"] = idx["fido2"] + 1 /\ pc'["fido2"] = "search"
    BY <2>1, <2>3 DEF Keys, OneKeyPerAccount, Searched, SameAccount, Here, Slots
  <2> QED BY <1>0, <1>5, <2>2, <2>3 DEF RkVisit, NextPlace, SameAccount
<1>6. CASE RkFound
  <2>1. /\ UNCHANGED <<rk, cred>> /\ pc'["fido2"] \in {"idle", "store"}
        /\ \A n \in Slots : ~SameAccount(rk[n])
    BY <1>0, <1>6, Fido2Assumption DEF RkFound, SearchFrame, Keys, Searched, Slots
  <2> QED BY <2>1 DEF Keys, OneKeyPerAccount, Searched, SameAccount
<1>7. CASE RkStore
  <2>1. /\ pc'["fido2"] = "respond" /\ slot \in Slots /\ rk' = [rk EXCEPT ![slot] = cred]
        /\ \A n \in Slots : n # slot => ~SameAccount(rk[n])
    BY <1>0, <1>7 DEF RkStore, Typed, Requests, Keys, Searched
  <2>2. OneKeyPerAccount'
    BY <1>0, <2>1 DEF Keys, OneKeyPerAccount, SameAccount
  <2> QED BY <2>1, <2>2 DEF Keys, Searched
<1>8. CASE Respond
  <2>1. UNCHANGED rk /\ pc'["fido2"] = "idle"
    BY <1>0, <1>8 DEF Respond
  <2> QED BY <2>1, KeysFrame
<1>9. CASE Pin
  <2>1. UNCHANGED rk /\ pc'["fido2"] \in PinLabels \cup {"idle"}
    BY <1>0, <1>9 DEF Pin, PinCompare, PinSetStart, PinRefused, PinWrong, PinHashStore, PinCfgStore,
                      TokenCfgStore, TokenIssue, PinFrame, PinLabels
  <2> QED BY <2>1, KeysFrame DEF PinLabels
<1>10. ASSUME NEW t \in Tasks, FactoryReset(t)
       PROVE  Keys'
  <2>1. \A n \in Slots : rk'[n] = rk[n] \/ rk'[n] = NoCred
    BY <1>0, <1>10 DEF FactoryReset, WipeSlot, ResetCfgRead, ResetCfgWrite, ClearPin, ResetCounter,
                       RegenKey, ClearToken, storageVars
  <2>2. UNCHANGED <<cred, slot>>
    BY <1>10 DEF FactoryReset, WipeSlot, ResetCfgRead, ResetCfgWrite, ClearPin, ResetCounter,
                 RegenKey, ClearToken, ResetFrame, localVars
  <2>3. CASE t = "fido2"
    <3>1. pc'["fido2"] \in ResetLabels \cup {"idle"}
      BY <1>0, <1>10, <2>3 DEF FactoryReset, WipeSlot, ResetCfgRead, ResetCfgWrite, ClearPin,
                               ResetCounter, RegenKey, ClearToken, ResetLabels
    <3> QED BY <2>1, <3>1, KeysFrame DEF ResetLabels
  <2>4. CASE t = "httpd"
    <3>1. pc'["fido2"] = pc["fido2"] /\ idx'["fido2"] = idx["fido2"]
      BY <1>0, <1>10, <2>4 DEF FactoryReset, WipeSlot, ResetCfgRead, ResetCfgWrite, ClearPin,
                               ResetCounter, RegenKey, ClearToken
    <3> QED BY <2>1, <2>2, <3>1, KeysFrame
  <2> QED BY <2>3, <2>4 DEF Tasks
<1>11. CASE Web
  <2>1. \A n \in Slots : rk'[n] = rk[n] \/ rk'[n] = NoCred
    BY <1>0, <1>11 DEF Web, WebFactoryReset, WebRegen, WebConfigRead, WebConfigWrite, WebPinHash,
                       WebPinRead, WebPinWrite, WebRkDelete, storageVars
  <2>2. UNCHANGED <<cred, slot>>
    BY <1>11 DEF Web, WebFactoryReset, WebRegen, WebConfigRead, WebConfigWrite, WebPinHash,
                 WebPinRead, WebPinWrite, WebRkDelete, WebStart, WebFrame, localVars
  <2>3. pc'["fido2"] = pc["fido2"] /\ idx'["fido2"] = idx["fido2"]
    BY <1>0, <1>11 DEF Web, WebFactoryReset, WebRegen, WebConfigRead, WebConfigWrite, WebPinHash,
                       WebPinRead, WebPinWrite, WebRkDelete, WebStart, taskVars
  <2> QED BY <2>1, <2>2, <2>3, KeysFrame
<1>12. CASE Confirm
  <2>1. UNCHANGED <<rk, pc, idx, cred, slot>>
    BY <1>12, ConfirmType DEF Typed, TypeOK
  <2> QED BY <2>1, KeysFrame
<1>13. CASE UNCHANGED vars
  <2>1. UNCHANGED <<rk, pc, idx, cred, slot>>
    BY <1>13 DEF vars, storageVars, taskVars, localVars
  <2> QED BY <2>1, KeysFrame
<1> QED BY <1>1, <1>2, <1>3, <1>4, <1>5, <1>6, <1>7, <1>8, <1>9, <1>10, <1>11, <1>12, <1>13
        DEF Next, Authenticator, Sign

-----------------------------------------------------------------------------
(* PIN retries and the PIN token.                                              *)

LEMMA PinInit == Init => RetriesInv /\ Token
BY Fido2Assumption DEF Init, RetriesInv, Exclusive, Retries, Token, Changing, NewConfig, Idle, At, Tasks,
       PinLabels, ResetLabels

\* What the PIN commands and the resets use is not touched by the rest.
PinState == <<cfg, pin_hash, s_pin_token_valid, snap, wrong, token_for>>

LEMMA PinFrameInv ==
    ASSUME RetriesInv, Token, UNCHANGED PinState,
           raced' <=> (raced \/ (pc'["fido2"] = "wipe" /\ ~Idle("httpd"))),
           UNCHANGED req, pc'["httpd"] = pc["httpd"],
           pc["fido2"] \notin PinLabels \cup ResetLabels,
           pc'["fido2"] \notin PinLabels \cup (ResetLabels \ {"wipe"})
    PROVE  RetriesInv' /\ Token'
BY DEF RetriesInv, Exclusive, Retries, Token, Changing, PinState, Idle, At, Tasks, PinLabels,
       ResetLabels

LEMMA PinStep == Typed /\ RetriesInv /\ Token /\ [Next]_vars => RetriesInv' /\ Token'
<1> SUFFICES ASSUME Typed, RetriesInv, Token, [Next]_vars PROVE RetriesInv' /\ Token'
  OBVIOUS
<1>0. /\ pc \in [Tasks -> {"idle", "wait", "confirmed", "expired", "seal", "count",
                          "counted", "search", "store", "respond", "webcfg",
                          "webpin", "webpincfg"} \cup PinLabels \cup ResetLabels]
      /\ "fido2" \in Tasks /\ "httpd" \in Tasks
      /\ cfg \in Config /\ snap \in [Tasks -> Config] /\ wrong \in Nat
      /\ cfg.pin_retries \in Nat /\ cfg.pin_retries <= PIN_RETRIES_MAX
      /\ \A t \in Tasks : snap[t].pin_retries \in Nat
      /\ PIN_RETRIES_MAX \in Nat
  BY Fido2Assumption DEF Typed, TypeOK, ControlTypeOK, StorageTypeOK, Tasks, Requests, Config
<1>r. /\ PIN_RETRIES_MAX \in 0 .. PIN_RETRIES_MAX
      /\ \A t \in Tasks : /\ [snap[t] EXCEPT !.pin_retries = PIN_RETRIES_MAX].pin_retries
                                  = PIN_RETRIES_MAX
                          /\ snap[t].pin_retries \in Nat
  BY <1>0, RetriesType
<1> USE DEF At, Goto, Idle
<1>1. CASE Command
  <2>1. CASE pc'["fido2"] = "wait"
    <3>1. UNCHANGED PinState /\ UNCHANGED raced /\ pc'["httpd"] = pc["httpd"] /\ pc["fido2"] = "idle"
      BY <1>0, <1>1, <2>1 DEF Command, MakeCredential, GetAssertion, Reset, ClientPin, Accept, BeginWait,
                        storageVars, PinState, CommandFrame
    <3> QED BY <2>1, <3>1 DEF RetriesInv, Exclusive, Retries, Token, Changing, PinState, Tasks,
                              PinLabels, ResetLabels
  <2>2. ASSUME NEW p \in Pins, NEW q \in Pins, NEW cmd \in PinCmds, ClientPin(cmd, p, q)
        PROVE  RetriesInv' /\ Token'
    <3>1. /\ UNCHANGED <<cfg, pin_hash, s_pin_token_valid, wrong, token_for>>
          /\ snap' = [snap EXCEPT !["fido2"] = cfg]
          /\ pc' = [pc EXCEPT !["fido2"] = "pin"] /\ pc["fido2"] = "idle"
          /\ raced' = (raced \/ pc["httpd"] # "idle")
      BY <2>2 DEF ClientPin, Accept, storageVars, CommandFrame
    <3> QED BY <1>0, <3>1 DEF RetriesInv, Exclusive, Retries, Token, Changing, Tasks, PinLabels, ResetLabels
  <2>3. CASE ~\E p, q \in Pins, cmd \in PinCmds : ClientPin(cmd, p, q)
    <3>1. pc'["fido2"] = "wait"
      BY <1>0, <1>1, <2>3 DEF Command, MakeCredential, GetAssertion, Reset, BeginWait, PinCmds
    <3> QED BY <2>1, <3>1
  <2> QED BY <2>2, <2>3
<1>2. CASE UpTaken \/ UpTimeout
  <2>1. /\ UNCHANGED PinState /\ UNCHANGED <<raced, req>> /\ pc["fido2"] = "wait"
        /\ pc'["fido2"] \in {"confirmed", "expired"} /\ pc'["httpd"] = pc["httpd"]
    BY <1>0, <1>2 DEF UpTaken, UpTimeout, WaitFrame, CommandFrame, storageVars, localVars, PinState
  <2> QED BY <2>1, PinFrameInv DEF PinLabels, ResetLabels
<1>3. CASE UpDone
  <2>1. /\ UNCHANGED PinState /\ UNCHANGED req /\ pc["fido2"] \in {"confirmed", "expired"}
        /\ pc'["fido2"] \in {"seal", "count", "wipe", "idle"} /\ pc'["httpd"] = pc["httpd"]
        /\ (pc'["fido2"] = "wipe" <=> pc["fido2"] = "confirmed" /\ req.cmd = "reset")
        /\ raced' = (raced \/ (pc["fido2"] = "confirmed" /\ req.cmd = "reset"
                               /\ pc["httpd"] # "idle"))
    BY <1>0, <1>3 DEF UpDone, AfterWait, CommandFrame, storageVars, localVars, PinState, Typed, Requests,
                      Waiting
  <2>2. raced' <=> (raced \/ (pc'["fido2"] = "wipe" /\ pc["httpd"] # "idle"))
    BY <2>1
  <2> QED BY <2>1, <2>2, PinFrameInv DEF PinLabels, ResetLabels
<1>4. CASE Sign
  <2>1. /\ UNCHANGED PinState /\ UNCHANGED <<raced, req>>
        /\ pc["fido2"] \in {"seal", "count", "counted", "search", "store", "respond"}
        /\ pc'["fido2"] \in {"count", "counted", "search", "store", "respond", "idle"}
        /\ pc'["httpd"] = pc["httpd"]
    BY <1>0, <1>4 DEF Sign, Seal, CountRead, CountWrite, RkVisit, RkFound, RkStore, Respond, SignFrame,
                      SearchFrame, NextPlace, CommandFrame, localVars, PinState
  <2> QED BY <2>1, PinFrameInv DEF PinLabels, ResetLabels
<1>5. CASE Pin
  <2>0. /\ UNCHANGED <<raced, req>> /\ pc'["httpd"] = pc["httpd"] /\ pc["fido2"] \in PinLabels
        /\ ~raced => pc["httpd"] = "idle"
    BY <1>0, <1>5 DEF Pin, PinCompare, PinSetStart, PinRefused, PinWrong, PinHashStore, PinCfgStore,
                      TokenCfgStore, TokenIssue, PinFrame, PinLabels, RetriesInv, Exclusive, localVars
  <2>1. Exclusive'
    BY <2>0 DEF Exclusive
  <2> USE DEF RetriesInv, Retries, Token, Changing, Tasks, PinLabels
  <2>2. CASE PinCompare
    <3>1. /\ snap["fido2"].pin_retries # 0 /\ wrong' \in {0, wrong + 1}
          /\ UNCHANGED <<cfg, pin_hash, s_pin_token_valid, snap, token_for>>
          /\ pc["fido2"] = "pin" /\ pc'["fido2"] \in {"wrong", "sethash", "token"}
          /\ pc'["fido2"] = "wrong" <=> wrong' = wrong + 1
          /\ pc'["fido2"] = "token" => pin_hash = DeviceHash(req.old)
      BY <1>0, <2>2 DEF PinCompare, Right, Attempts
    <3> QED BY <1>0, <2>0, <2>1, <3>1
  <2>3. CASE PinSetStart \/ PinRefused
    <3>1. /\ UNCHANGED <<cfg, pin_hash, s_pin_token_valid, snap, token_for, wrong>>
          /\ pc["fido2"] \in {"pin", "sethash"} /\ pc'["fido2"] \in {"sethash", "idle"}
      BY <1>0, <2>3 DEF PinSetStart, PinRefused
    <3> QED BY <1>0, <2>0, <2>1, <3>1
  <2>4. CASE PinWrong
    <3>1. snap["fido2"].pin_retries \in 1 .. 255
      BY <1>0, <2>4, Fido2Assumption DEF PinWrong, Typed, Copies
    <3>2. snap["fido2"].pin_retries - 1 \in 0 .. PIN_RETRIES_MAX
      BY <1>0, <3>1 DEF Typed, Copies
    <3>3. cfg'.pin_retries = snap["fido2"].pin_retries - 1
      BY <1>0, <2>4, <3>1, <3>2, Decrement, RetriesType DEF PinWrong
    <3>4. /\ UNCHANGED <<pin_hash, s_pin_token_valid, snap, token_for, wrong>>
          /\ pc["fido2"] = "wrong" /\ pc'["fido2"] = "idle"
      BY <1>0, <2>4 DEF PinWrong
    <3> QED BY <1>0, <2>0, <2>1, <3>3, <3>4
  <2>5. CASE PinHashStore
    <3>1. /\ UNCHANGED <<cfg, s_pin_token_valid, snap, token_for>> /\ wrong' = 0
          /\ pc["fido2"] = "sethash" /\ pc'["fido2"] = "setcfg"
      BY <1>0, <2>5 DEF PinHashStore
    <3> QED BY <1>0, <2>0, <2>1, <3>1
  <2>6. CASE PinCfgStore
    <3>1. /\ UNCHANGED <<pin_hash, snap, token_for, wrong>> /\ ~s_pin_token_valid'
          /\ pc["fido2"] = "setcfg" /\ pc'["fido2"] = "idle"
          /\ cfg'.pin_retries = PIN_RETRIES_MAX
      BY <1>0, <1>r, <2>6 DEF PinCfgStore
    <3> QED BY <1>0, <2>0, <2>1, <3>1
  <2>7. CASE TokenCfgStore
    <3>1. /\ UNCHANGED <<pin_hash, snap, token_for, wrong, s_pin_token_valid>>
          /\ pc["fido2"] = "token" /\ pc'["fido2"] = "settoken"
          /\ cfg'.pin_retries = PIN_RETRIES_MAX
      BY <1>0, <1>r, <2>7 DEF TokenCfgStore
    <3> QED BY <1>0, <2>0, <2>1, <3>1
  <2>8. CASE TokenIssue
    <3>1. /\ UNCHANGED <<cfg, pin_hash, snap, wrong>> /\ token_for' = DeviceHash(req.old)
          /\ pc["fido2"] = "settoken" /\ pc'["fido2"] = "idle"
      BY <1>0, <2>8 DEF TokenIssue
    <3> QED BY <1>0, <2>0, <2>1, <3>1
  <2> QED BY <1>5, <2>2, <2>3, <2>4, <2>5, <2>6, <2>7, <2>8 DEF Pin
<1>6. ASSUME NEW t \in Tasks, FactoryReset(t)
      PROVE  RetriesInv' /\ Token'
  <2>0. /\ UNCHANGED <<raced, req, token_for>> /\ pc[t] \in ResetLabels
        /\ pc'[t] \in ResetLabels \cup {"idle"}
        /\ \A u \in Tasks : u # t => pc'[u] = pc[u] /\ snap'[u] = snap[u]
        /\ ~raced => \A u \in Tasks : u # t =>
                        IF u = "httpd" THEN pc[u] = "idle" ELSE pc[u] \notin PinLabels \cup ResetLabels
    BY <1>0, <1>6 DEF FactoryReset, WipeSlot, ResetCfgRead, ResetCfgWrite, ClearPin, ResetCounter, RegenKey,
                      ClearToken, ResetFrame, ResetLabels, RetriesInv, Exclusive, Tasks, localVars
  <2>1. Exclusive'
    BY <1>0, <2>0 DEF Exclusive, Tasks, PinLabels, ResetLabels
  <2> USE DEF RetriesInv, Retries, Token, Changing, Tasks, PinLabels, ResetLabels
  <2>2. CASE WipeSlot(t) \/ ResetCfgRead(t)
    <3>1. /\ UNCHANGED <<cfg, pin_hash, s_pin_token_valid, wrong>>
          /\ pc[t] = "wipe" /\ pc'[t] \in {"wipe", "resetcfg"}
      BY <1>0, <2>2 DEF WipeSlot, ResetCfgRead, storageVars
    <3> QED BY <1>0, <2>0, <2>1, <3>1
  <2>3. CASE ResetCfgWrite(t)
    <3>1. /\ UNCHANGED <<pin_hash, s_pin_token_valid, snap>> /\ wrong' = 0
          /\ pc[t] = "resetcfg" /\ pc'[t] = "clearpin" /\ cfg'.pin_retries = PIN_RETRIES_MAX
      BY <1>0, <1>r, <2>3 DEF ResetCfgWrite
    <3> QED BY <1>0, <2>0, <2>1, <3>1
  <2>4. CASE ClearPin(t)
    <3>1. /\ UNCHANGED <<cfg, s_pin_token_valid, snap, wrong>>
          /\ pc[t] = "clearpin" /\ pc'[t] = "resetcount"
      BY <1>0, <2>4 DEF ClearPin
    <3> QED BY <1>0, <2>0, <2>1, <3>1
  <2>5. CASE ResetCounter(t) \/ RegenKey(t) \/ ClearToken(t)
    <3>1. /\ UNCHANGED <<cfg, pin_hash, snap, wrong>>
          /\ pc[t] \in {"resetcount", "regen", "cleartoken"}
          /\ pc'[t] \in {"regen", "cleartoken", "idle"}
          /\ pc[t] = "resetcount" => ~s_pin_token_valid'
          /\ pc[t] # "resetcount" => UNCHANGED s_pin_token_valid \/ ~s_pin_token_valid'
      BY <1>0, <2>5 DEF ResetCounter, RegenKey, ClearToken, storageVars
    <3> QED BY <1>0, <2>0, <2>1, <3>1
  <2> QED BY <1>6, <2>2, <2>3, <2>4, <2>5 DEF FactoryReset
<1>7. CASE Web
  <2>a. pc'["fido2"] = pc["fido2"] /\ snap'["fido2"] = snap["fido2"]
    BY <1>0, <1>7 DEF Web, WebFactoryReset, WebRegen, WebConfigRead, WebConfigWrite, WebPinHash,
                      WebPinRead, WebPinWrite, WebRkDelete, WebStart, taskVars
  <2>b. raced => raced'
    BY <1>7 DEF Web, WebFactoryReset, WebRegen, WebConfigRead, WebConfigWrite, WebPinHash,
                WebPinRead, WebPinWrite, WebRkDelete, WebStart
  <2>c. UNCHANGED <<req, token_for, s_pin_token_valid>>
    BY <1>0, <1>7 DEF Web, WebFactoryReset, WebRegen, WebConfigRead, WebConfigWrite, WebPinHash,
                      WebPinRead, WebPinWrite, WebRkDelete, WebStart, WebFrame, localVars
  <2>0. UNCHANGED <<req, token_for, s_pin_token_valid>> /\ pc'["fido2"] = pc["fido2"]
        /\ snap'["fido2"] = snap["fido2"] /\ (raced => raced')
    BY <2>a, <2>b, <2>c
  <2>s. ASSUME NEW l, WebStart(l)
        PROVE  pc["httpd"] = "idle" /\ pc'["httpd"] = l /\ Exclusive'
               /\ (~raced' => ~raced /\ pc["fido2"] \notin PinLabels \cup ResetLabels)
    BY <1>0, <2>0, <2>s DEF WebStart, Exclusive
  <2> USE DEF RetriesInv, Retries, Token, Changing, Tasks, PinLabels, ResetLabels
  <2>1. CASE WebFactoryReset \/ WebRegen
    <3>1. PICK l \in {"wipe", "regen"} : WebStart(l) /\ UNCHANGED <<cfg, pin_hash, wrong, snap>>
      BY <2>1 DEF WebFactoryReset, WebRegen, storageVars
    <3> QED BY <1>0, <2>0, <2>s, <3>1
  <2>2. CASE WebConfigRead
    <3>1. WebStart("webcfg") /\ UNCHANGED <<cfg, pin_hash, wrong>>
      BY <2>2 DEF WebConfigRead, storageVars
    <3>2. snap'["httpd"].pin_retries = cfg.pin_retries
      <4>1. PICK on \in BOOLEAN, key \in BOOLEAN :
               snap' = [snap EXCEPT !["httpd"] = [cfg EXCEPT !.enabled = on, !.confirm = key]]
        BY <2>2 DEF WebConfigRead
      <4> QED BY <1>0, <4>1, FlagsType, ZenonT(30)
    <3> QED BY <1>0, <2>0, <2>s, <3>1, <3>2
  <2>3. CASE WebConfigWrite
    <3>1. /\ pc["httpd"] = "webcfg" /\ pc'["httpd"] = "idle" /\ cfg' = snap["httpd"]
          /\ UNCHANGED <<pin_hash, wrong, snap, raced>>
      BY <1>0, <2>3 DEF WebConfigWrite
    <3>2. Exclusive'
      BY <3>1 DEF Exclusive
    <3> QED BY <1>0, <2>0, <3>1, <3>2 DEF Exclusive
  <2>4. CASE WebPinHash
    <3>1. WebStart("webpin") /\ UNCHANGED <<cfg, snap>> /\ wrong' = 0 /\ pin_hash'.rounds = 2
      BY <2>4 DEF WebPinHash, WebHash
    <3> QED BY <1>0, <2>0, <2>s, <3>1
  <2>5. CASE WebPinRead
    <3>1. /\ pc["httpd"] = "webpin" /\ pc'["httpd"] = "webpincfg"
          /\ UNCHANGED <<cfg, pin_hash, wrong, raced>>
      BY <1>0, <2>5 DEF WebPinRead, storageVars
    <3>2. Exclusive'
      BY <2>0, <3>1 DEF Exclusive
    <3> QED BY <1>0, <2>0, <3>1, <3>2
  <2>6. CASE WebPinWrite
    <3>1. /\ pc["httpd"] = "webpincfg" /\ pc'["httpd"] = "idle"
          /\ UNCHANGED <<pin_hash, wrong, snap, raced>> /\ cfg'.pin_retries = PIN_RETRIES_MAX
      BY <1>0, <1>r, <2>6 DEF WebPinWrite
    <3>2. Exclusive'
      BY <3>1 DEF Exclusive
    <3> QED BY <1>0, <2>0, <3>1, <3>2 DEF Exclusive
  <2>7. CASE WebRkDelete
    <3>1. UNCHANGED <<pc, cfg, pin_hash, snap, wrong, raced>>
      BY <2>7 DEF WebRkDelete, taskVars
    <3>2. Exclusive'
      BY <3>1 DEF Exclusive
    <3> QED BY <1>0, <2>0, <3>1, <3>2
  <2> QED BY <1>7, <2>1, <2>2, <2>3, <2>4, <2>5, <2>6, <2>7 DEF Web
<1>8. CASE Confirm \/ UNCHANGED vars
  <2>1. UNCHANGED <<pc, cfg, pin_hash, s_pin_token_valid, snap, wrong, token_for, raced, req>>
    BY <1>8, ConfirmType DEF Typed, TypeOK, vars, storageVars, taskVars, localVars, pinHistory
  <2> QED BY <2>1 DEF RetriesInv, Exclusive, Retries, Token, Changing
<1> QED BY <1>1, <1>2, <1>3, <1>4, <1>5, <1>6, <1>7, <1>8 DEF Next, Authenticator

-----------------------------------------------------------------------------
(* Signature counters.                                                       *)

LEMMA CountersInit == Init => Counters
BY DEF Init, Counters, Signs, Counting, Waiting, Known, KeyChanging, Idle, At, Tasks

\* Steps that change neither counters nor keys and do not leave the window
\* in which a reset has zeroed the counter.
LEMMA CountersFrame ==
    ASSUME Counters, UNCHANGED <<ledger, master_key, sign_counter, cred, count, overlap>>,
           KeyChanging => KeyChanging', Signs' => Signs,
           pc'["fido2"] \in {"counted", "search", "store", "respond"} =>
               \/ pc'["fido2"] = pc["fido2"]
               \/ /\ pc'["fido2"] \in {"search", "store", "respond"}
                  /\ pc["fido2"] \in {"search", "store", "respond"},
           pc'["httpd"] = "idle" \/ pc["httpd"] # "idle"
    PROVE  Counters'
BY DEF Counters, Known, Idle, At

LEMMA CountersStep == Typed /\ Counters /\ [Next]_vars => Counters'
<1> SUFFICES ASSUME Typed, Counters, [Next]_vars PROVE Counters'
  OBVIOUS
<1>0. /\ pc \in [Tasks -> {"idle", "wait", "confirmed", "expired", "seal", "count",
                          "counted", "search", "store", "respond", "webcfg",
                          "webpin", "webpincfg"} \cup PinLabels \cup ResetLabels]
      /\ "fido2" \in Tasks /\ "httpd" \in Tasks
      /\ sign_counter \in Nat /\ count \in Nat /\ master_key \in Nat
      /\ \A c \in DOMAIN ledger : ledger[c] \in Nat /\ c.key \in Nat
      /\ Signs => cred.key \in Nat
  BY DEF Typed, TypeOK, ControlTypeOK, StorageTypeOK, Tasks, Requests, Credential
<1> USE DEF At, Goto, Idle
<1>1. CASE Command
  <2>1. /\ UNCHANGED <<ledger, master_key, sign_counter>> /\ pc["fido2"] = "idle"
        /\ pc'["httpd"] = pc["httpd"] /\ pc'["fido2"] \in {"wait", "pin"}
        /\ (~overlap' => pc["httpd"] = "idle")
    BY <1>0, <1>1 DEF Command, MakeCredential, GetAssertion, Reset, ClientPin, Accept, BeginWait,
                      storageVars
  <2>2. Signs' => cred'.key = master_key
    <3>1. ASSUME NEW rp \in RPs, NEW allow \in DOMAIN ledger \cup {NoCred}, NEW uv \in BOOLEAN,
                 GetAssertion(rp, allow, uv)
          PROVE  cred'.key = master_key
      BY <3>1, OpenedType
    <3>2. ASSUME NEW rp \in RPs, NEW user \in Users, NEW resident \in BOOLEAN, NEW uv \in BOOLEAN,
                 MakeCredential(rp, user, resident, uv)
          PROVE  req'.cmd = "makeCredential"
      BY <3>2 DEF MakeCredential, Accept
    <3>3. CASE Reset
      BY <2>1, <3>3 DEF Reset, Accept, Signs, Counting, Waiting
    <3>4. ASSUME NEW p \in Pins, NEW q \in Pins, NEW cmd \in PinCmds, ClientPin(cmd, p, q)
          PROVE  pc'["fido2"] = "pin"
      BY <1>0, <3>4 DEF ClientPin
    <3> QED BY <1>1, <2>1, <3>1, <3>2, <3>3, <3>4 DEF Command, Signs, Counting, Waiting, PinCmds
  <2>3. KeyChanging' <=> KeyChanging
    BY <2>1 DEF KeyChanging, Tasks
  <2> QED BY <1>0, <2>1, <2>2, <2>3 DEF Counters
<1>2. CASE UpTaken \/ UpTimeout \/ UpDone
  <2>1. /\ UNCHANGED <<ledger, master_key, sign_counter, cred, count, overlap, req>>
        /\ pc["fido2"] \in Waiting /\ pc'["httpd"] = pc["httpd"]
        /\ pc'["fido2"] \in {"confirmed", "expired", "seal", "count", "wipe", "idle"}
        /\ (pc'["fido2"] = "count" => req.cmd = "getAssertion")
    BY <1>0, <1>2 DEF UpTaken, UpTimeout, UpDone, AfterWait, WaitFrame, storageVars, localVars, Waiting,
                      Typed, Requests
  <2>2. Signs' => Signs
    BY <2>1 DEF Signs, Counting, Waiting
  <2>3. KeyChanging' <=> KeyChanging
    BY <2>1 DEF KeyChanging, Tasks, Waiting
  <2> QED BY <2>1, <2>2, <2>3, CountersFrame
<1>3. CASE Seal
  <2>1. /\ UNCHANGED <<ledger, master_key, sign_counter, overlap>> /\ pc["fido2"] = "seal"
        /\ pc'["httpd"] = pc["httpd"] /\ pc'["fido2"] = "count" /\ cred'.key = master_key
    BY <1>0, <1>3 DEF Seal, SignFrame
  <2>2. KeyChanging' <=> KeyChanging
    BY <2>1 DEF KeyChanging, Tasks
  <2> QED BY <1>0, <2>1, <2>2 DEF Counters
<1>4. CASE CountRead
  <2>1. /\ UNCHANGED <<ledger, master_key, sign_counter, cred, overlap>> /\ pc["fido2"] = "count"
        /\ pc'["httpd"] = pc["httpd"] /\ pc'["fido2"] = "counted" /\ count' = sign_counter
    BY <1>0, <1>4 DEF CountRead, SignFrame
  <2>2. (KeyChanging' <=> KeyChanging) /\ Signs
    BY <2>1 DEF KeyChanging, Tasks, Signs, Counting
  <2> QED BY <1>0, <2>1, <2>2 DEF Counters
<1>5. CASE CountWrite
  <2>1. /\ UNCHANGED <<ledger, master_key, cred, overlap>> /\ pc["fido2"] = "counted"
        /\ pc'["httpd"] = pc["httpd"] /\ pc'["fido2"] \in {"search", "respond"}
        /\ count' = count + 1 /\ sign_counter' = count + 1
    BY <1>0, <1>5 DEF CountWrite, SignFrame
  <2>2. (KeyChanging' <=> KeyChanging) /\ Signs /\ (~overlap => ~KeyChanging)
    BY <2>1 DEF KeyChanging, Tasks, Signs, Counting, Counters
  <2>3. count >= sign_counter
    BY <2>1 DEF Counters
  <2>4. ~overlap /\ Known(cred) => ledger[cred] <= sign_counter
    BY <2>1, <2>2 DEF Counters, Known
  <2> QED BY <1>0, <2>1, <2>2, <2>3, <2>4 DEF Counters, Known
<1>6. CASE RkVisit \/ RkFound \/ RkStore
  <2>1. /\ UNCHANGED <<ledger, master_key, sign_counter, cred, count, overlap, req>>
        /\ pc["fido2"] \in {"search", "store"} /\ pc'["httpd"] = pc["httpd"]
        /\ pc'["fido2"] \in {"search", "store", "respond", "idle"}
    BY <1>0, <1>6 DEF RkVisit, RkFound, RkStore, SearchFrame, SignFrame, NextPlace, localVars
  <2>2. (KeyChanging' <=> KeyChanging) /\ Signs
    BY <2>1 DEF KeyChanging, Tasks, Signs, Counting
  <2> QED BY <2>1, <2>2, CountersFrame
<1>7. CASE Respond
  <2>1. /\ UNCHANGED <<master_key, sign_counter, cred, count, overlap, req>>
        /\ pc["fido2"] = "respond" /\ pc'["httpd"] = pc["httpd"] /\ pc'["fido2"] = "idle"
        /\ DOMAIN ledger' = DOMAIN ledger \cup {cred}
        /\ \A c \in DOMAIN ledger' : ledger'[c] = IF c = cred THEN count ELSE ledger[c]
    BY <1>0, <1>7 DEF Respond, SignFrame, localVars
  <2>2. (KeyChanging' <=> KeyChanging) /\ Signs /\ ~Signs'
    BY <2>1 DEF KeyChanging, Tasks, Signs, Counting, Waiting
  <2> QED BY <1>0, <2>1, <2>2 DEF Counters
<1>8. CASE Pin
  <2>1. /\ UNCHANGED <<ledger, master_key, sign_counter, cred, count, overlap, req>>
        /\ pc["fido2"] \in PinLabels /\ pc'["httpd"] = pc["httpd"]
        /\ pc'["fido2"] \in PinLabels \cup {"idle"}
    BY <1>0, <1>8 DEF Pin, PinCompare, PinSetStart, PinRefused, PinWrong, PinHashStore, PinCfgStore,
                      TokenCfgStore, TokenIssue, PinFrame, PinLabels, localVars
  <2>2. (KeyChanging' <=> KeyChanging) /\ ~Signs'
    BY <2>1 DEF KeyChanging, Tasks, Signs, Counting, Waiting, PinLabels
  <2> QED BY <2>1, <2>2, CountersFrame DEF PinLabels
<1>9. ASSUME NEW t \in Tasks, FactoryReset(t)
      PROVE  Counters'
  <2>0. /\ UNCHANGED <<ledger, cred, count, overlap, req>> /\ pc[t] \in ResetLabels
        /\ pc'[t] \in ResetLabels \cup {"idle"}
        /\ \A u \in Tasks : u # t => pc'[u] = pc[u]
        /\ t = "httpd" => overlap
    BY <1>0, <1>9 DEF FactoryReset, WipeSlot, ResetCfgRead, ResetCfgWrite, ClearPin, ResetCounter, RegenKey,
                      ClearToken, ResetFrame, ResetLabels, Counters, localVars
  <2>1. /\ Signs' <=> (Signs /\ t = "httpd")
        /\ pc'["fido2"] \in {"counted", "search", "store", "respond"} =>
              pc'["fido2"] = pc["fido2"] /\ t = "httpd"
        /\ t = "fido2" => pc'["httpd"] = pc["httpd"]
    BY <1>0, <2>0 DEF Signs, Counting, Waiting, ResetLabels, Tasks
  <2>2. CASE WipeSlot(t) \/ ResetCfgRead(t) \/ ResetCfgWrite(t) \/ ClearPin(t) \/ ClearToken(t)
    <3>1. UNCHANGED <<master_key, sign_counter>> /\ pc[t] # "regen"
      BY <2>2 DEF WipeSlot, ResetCfgRead, ResetCfgWrite, ClearPin, ClearToken, storageVars
    <3>2. KeyChanging => KeyChanging'
      BY <2>0, <3>1 DEF KeyChanging
    <3> QED BY <2>0, <2>1, <3>1, <3>2, CountersFrame DEF Tasks, ResetLabels
  <2>3. CASE ResetCounter(t)
    <3>1. UNCHANGED master_key /\ sign_counter' = 0 /\ KeyChanging'
      BY <1>0, <2>3 DEF ResetCounter, KeyChanging
    <3> QED BY <1>0, <2>0, <2>1, <3>1 DEF Counters, Known, Tasks
  <2>4. CASE RegenKey(t)
    <3>1. master_key' = master_key + 1 /\ UNCHANGED sign_counter
      BY <2>4 DEF RegenKey
    <3> QED BY <1>0, <2>0, <2>1, <3>1 DEF Counters, Known, Tasks, Signs, Counting
  <2> QED BY <1>9, <2>2, <2>3, <2>4 DEF FactoryReset
<1>10. CASE Web
  <2>1. UNCHANGED <<ledger, master_key, sign_counter, cred, count, req>>
    BY <1>10 DEF Web, WebFactoryReset, WebRegen, WebConfigRead, WebConfigWrite, WebPinHash, WebPinRead,
                 WebPinWrite, WebRkDelete, WebStart, WebFrame, localVars, storageVars
  <2>2. pc'["fido2"] = pc["fido2"] /\ (pc["httpd"] = "regen" => pc'["httpd"] = "regen")
    BY <1>0, <1>10 DEF Web, WebFactoryReset, WebRegen, WebConfigRead, WebConfigWrite, WebPinHash,
                       WebPinRead, WebPinWrite, WebRkDelete, WebStart, taskVars
  <2>3. ~overlap' => ~overlap /\ pc'["httpd"] = "idle"
    BY <1>0, <1>10 DEF Web, WebFactoryReset, WebRegen, WebConfigRead, WebConfigWrite, WebPinHash,
                       WebPinRead, WebPinWrite, WebRkDelete, WebStart, taskVars, Counters
  <2>4. (KeyChanging => KeyChanging') /\ (Signs' <=> Signs)
    BY <2>1, <2>2 DEF KeyChanging, Tasks, Signs
  <2> QED BY <2>1, <2>2, <2>3, <2>4 DEF Counters, Known
<1>11. CASE Confirm \/ UNCHANGED vars
  <2>1. UNCHANGED <<pc, ledger, master_key, sign_counter, cred, count, overlap, req>>
    BY <1>11, ConfirmType DEF Typed, TypeOK, vars, storageVars, taskVars, localVars
  <2>2. (KeyChanging' <=> KeyChanging) /\ (Signs' <=> Signs)
    BY <2>1 DEF KeyChanging, Signs
  <2> QED BY <2>1, <2>2, CountersFrame
<1> QED BY <1>1, <1>2, <1>3, <1>4, <1>5, <1>6, <1>7, <1>8, <1>9, <1>10, <1>11
        DEF Next, Authenticator, Sign

-----------------------------------------------------------------------------
(* The theorems.                                                             *)

IInv == Typed /\ PressesAccounted /\ Keys /\ RetriesInv /\ Token /\ Counters

\* The invariant from which the theorems below follow: presses, resident keys,
\* retries, token and counters of fido2.c under every interleaving with httpd
\* and the confirmers.
THEOREM Invariance == Spec => []IInv
<1>1. Init => IInv
  BY TypedInit, PressesInit, KeysInit, PinInit, CountersInit DEF IInv
<1>2. IInv /\ [Next]_vars => IInv'
  BY TypedStep, PressesStep, KeysStep, PinStep, CountersStep DEF IInv
<1> QED BY <1>1, <1>2, PTL DEF Spec

\* Every variable holds a value of its C type, no loop of fido2.c leaves its table
\* and pin_retries never wraps.
THEOREM TypeCorrect == Spec => []TypeOK
<1>1. IInv => TypeOK
  BY DEF IInv, Typed
<1> QED BY <1>1, Invariance, PTL

\* wait_for_up never confirms more operations than there were presses.
THEOREM PressesBoundApprovals == Spec => []ApprovalsArePresses
<1>1. IInv => ApprovalsArePresses
  <2> SUFFICES ASSUME IInv PROVE ApprovalsArePresses
    OBVIOUS
  <2>1. approvals \in Nat /\ presses \in Nat /\ Cardinality(Confirming) \in Nat
    BY ConfirmingFinite DEF IInv, Typed, TypeOK, PresenceTypeOK
  <2> QED BY <2>1 DEF IInv, PressesAccounted, ApprovalsArePresses
<1> QED BY <1>1, Invariance, PTL

\* cmd_make_credential leaves one resident key at most for an account, whichever
\* keys httpd deletes during its search.
THEOREM UniqueKeys == Spec => []OneKeyPerAccount
<1>1. IInv => OneKeyPerAccount
  BY DEF IInv, Keys
<1> QED BY <1>1, Invariance, PTL

\* cmd_client_pin compares no PIN after PIN_RETRIES_MAX wrong ones in a row.
THEOREM PinBlocked == Spec => []BlockedAfterRetries
<1>1. IInv => BlockedAfterRetries
  <2> SUFFICES ASSUME IInv, ~raced PROVE wrong <= PIN_RETRIES_MAX
    BY DEF BlockedAfterRetries
  <2>1. /\ wrong \in Nat /\ cfg.pin_retries \in Nat /\ PIN_RETRIES_MAX \in Nat
        /\ wrong + cfg.pin_retries <= PIN_RETRIES_MAX + (IF At("wrong") THEN 1 ELSE 0)
    BY Fido2Assumption
    DEF IInv, Typed, Requests, TypeOK, StorageTypeOK, Config, RetriesInv, Retries
  <2>2. At("wrong") => cfg.pin_retries >= 1
    BY DEF IInv, Typed, Copies, RetriesInv, Retries, At, PinLabels
  <2> QED BY <2>1, <2>2
<1> QED BY <1>1, Invariance, PTL

\* A PIN token that fido2.c takes for valid was issued for the PIN that is stored.
THEOREM TokenFollowsPin == Spec => []TokenIsCurrent
<1>1. IInv => TokenIsCurrent
  BY DEF IInv, Token, TokenIsCurrent, Changing, Idle, At, Tasks
<1> QED BY <1>1, Invariance, PTL

\* The counter that cmd_get_assertion signs is higher than the last one the
\* relying party saw for the credential.
THEOREM CountersGrow == Spec => CountersIncrease
<1>1. IInv /\ [Next]_vars =>
          [Answered /\ ~overlap /\ cred \in DOMAIN ledger => count > ledger[cred]]_vars
  BY DEF IInv, Counters, Answered, At, Known
<1> QED BY <1>1, Invariance, PTL DEF Spec, CountersIncrease
=============================================================================
