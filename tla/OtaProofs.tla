------------------------------ MODULE OtaProofs ------------------------------
(***************************************************************************)
(* Proofs about Ota, for any number of firmwares, blocks, fetch tasks, updates  *)
(* and faults.                                                               *)
(***************************************************************************)
EXTENDS Ota, TLAPS

\* An update needs power.
Powered == power # "up" => \A u \in Updaters : update[u] = NoUpdate
\* One update at a time, but for those that overlapped.
Alone == \/ overlapped
         \/ \A u, v \in Updaters : update[u].at # "none" /\ update[v].at # "none" => u = v
\* The firmware that runs is whole and has reached the end of app_main.
RunsWhole == /\ power # "off" => Whole(running)
             /\ power = "up" => running \in confirmed
\* Until an update has ended, the firmware that runs is the one to boot.
BootsRunning ==
    \/ overlapped \/ power = "off"
    \/ \E u \in Updaters : update[u].at \in {"erase", "wait"}
    \/ otadata.boot = running
\* An update that writes has marked the firmware that runs, and one that has ended
\* has chosen a whole image.
Marked ==
    \A u \in Updaters :
        /\ update[u].at \in {"connect", "write", "end"} => overlapped \/ otadata.state = "valid"
        /\ update[u].at \in {"erase", "wait"} =>
              overlapped \/ (otadata.boot = Target /\ Whole(Target))
\* What was written over is not confirmed.
Unconfirmed ==
    /\ \A u \in Updaters : update[u].done > 0 => Target \notin confirmed
    /\ otadata.state # "valid" => otadata.boot \notin confirmed
\* Before a new firmware is marked there is another to go back to.
WayBack ==
    otadata.state # "valid" =>
        overlapped \/ (1 - otadata.boot \in confirmed /\ Whole(1 - otadata.boot))

OtaInv == /\ TypeOK /\ Powered /\ Alone /\ RunsWhole /\ BootsRunning /\ Marked /\ Unconfirmed
          /\ WayBack /\ (Whole(otadata.boot) \/ overlapped) /\ TrustedHasRun

-----------------------------------------------------------------------------
LEMMA Other == \A s \in Slots : 1 - s \in Slots /\ 1 - s # s /\ 1 - (1 - s) = s
BY DEF Slots

\* A slot that is not written stays as whole as it was.
LEMMA WholeKept == \A s \in Slots : slot'[s] = slot[s] => (Whole(s)' <=> Whole(s))
BY DEF Whole

Update == [at : {"none", "begin", "connect", "write", "end", "erase", "wait"},
           fw : Firmwares, done : 0 .. BLOCKS, erase_nvs : BOOLEAN]

LEMMA NoUpdateType == NoUpdate \in Update /\ NoUpdate.at = "none" /\ NoUpdate.done = 0
BY OtaAssumption DEF NoUpdate, Update

\* An updater that goes on, or ends, is the only one that changes.
LEMMA BecomeType ==
    ASSUME update \in [Updaters -> Update], NEW u \in Updaters,
           NEW place \in {"none", "begin", "connect", "write", "end", "erase", "wait"},
           Become(u, place)
    PROVE  /\ update' \in [Updaters -> Update]
           /\ \A v \in Updaters : v # u => update'[v] = update[v]
           /\ update'[u].at = place /\ update'[u].done = update[u].done
BY DEF Become, Update
LEMMA EndType ==
    ASSUME update \in [Updaters -> Update], NEW u \in Updaters, End(u)
    PROVE  /\ update' \in [Updaters -> Update]
           /\ \A v \in Updaters : v # u => update'[v] = update[v]
           /\ update'[u].at = "none" /\ update'[u].done = 0
BY NoUpdateType DEF End

LEMMA InitInv == Init => OtaInv
<1> SUFFICES ASSUME Init PROVE OtaInv
  OBVIOUS
<1> USE OtaAssumption DEF Init
<1>1. NoUpdate \in [at : {"none", "begin", "connect", "write", "end", "erase", "wait"},
                   fw : Firmwares, done : 0 .. BLOCKS, erase_nvs : BOOLEAN]
  BY DEF NoUpdate
<1>5. TypeOK
  <2>1. slot \in [Slots -> [1 .. BLOCKS -> Firmwares]]
    OBVIOUS
  <2>2. otadata \in [boot : Slots, state : {"valid", "new", "pending"}] /\ confirmed \subseteq Slots
    BY DEF Slots
  <2>3. running \in Slots /\ updates \in 0 .. MaxUpdates /\ faults \in 0 .. MaxFaults
    BY DEF Slots
  <2> QED BY <1>1, <2>1, <2>2, <2>3 DEF TypeOK
<1>2. \A s \in Slots : Whole(s)
  BY DEF Whole, Slots
<1>3. Powered /\ Alone /\ RunsWhole /\ BootsRunning /\ Marked
  BY <1>2 DEF Powered, Alone, RunsWhole, BootsRunning, Marked, Updaters, NoUpdate, Slots
<1>4. Unconfirmed /\ WayBack /\ TrustedHasRun /\ Whole(otadata.boot)
  BY <1>2 DEF Unconfirmed, WayBack, TrustedHasRun, Updaters, NoUpdate, Slots, Target
<1> QED BY <1>5, <1>3, <1>4 DEF OtaInv

\* A request only makes an updater busy, and is seen if another one is.
LEMMA AskInv ==
    ASSUME OtaInv, NEW u \in Updaters, NEW fw \in Firmwares, NEW erase \in BOOLEAN,
           Ask(u, fw, erase)
    PROVE  OtaInv'
<1> USE OtaAssumption DEF Ask, UpdateFrame, flash
<1>1. TypeOK'
  BY DEF OtaInv, TypeOK
<1>2. Powered' /\ Alone'
  BY DEF OtaInv, TypeOK, Powered, Alone, Busy
<1>3. \A s \in Slots : Whole(s)' <=> Whole(s)
  BY WholeKept
<1>4. \A v \in Updaters : v # u => update'[v] = update[v]
  BY DEF OtaInv, TypeOK
<1>5. update'[u].at = "begin" /\ update'[u].done = 0
  BY DEF OtaInv, TypeOK
<1>6. RunsWhole' /\ Marked' /\ Unconfirmed'
  BY <1>3, <1>4, <1>5, Other DEF OtaInv, TypeOK, RunsWhole, Marked, Unconfirmed, Target
<1>7. BootsRunning'
  BY <1>4, <1>5 DEF OtaInv, BootsRunning, Busy
<1>8. WayBack' /\ TrustedHasRun' /\ (Whole(otadata.boot) \/ overlapped)'
  BY <1>3, Other DEF OtaInv, TypeOK, WayBack, TrustedHasRun
<1> QED BY <1>1, <1>2, <1>6, <1>7, <1>8 DEF OtaInv

\* The first step of an update marks the firmware that runs.
LEMMA BeginsInv ==
    ASSUME OtaInv, UploadBegins \/ \E u \in Fetchers : FetchStarts(u) PROVE OtaInv'
<1>1. update \in [Updaters -> Update] /\ faults \in 0 .. MaxFaults /\ MaxFaults \in Nat
  BY OtaAssumption DEF OtaInv, TypeOK, Update
<1>2. PICK u \in Updaters : /\ update[u].at = "begin" /\ MarkValid
                            /\ Become(u, "write") \/ Become(u, "connect") \/ End(u)
                            /\ s_ota_state' \in {s_ota_state, "running", "error"}
                            /\ faults' \in 0 .. MaxFaults
                            /\ UNCHANGED <<slot, nvs, overlapped, updates>> /\ UpdateFrame
  <2>1. CASE UploadBegins
    BY <1>1, <2>1 DEF UploadBegins, Fault, Updaters
  <2>2. ASSUME NEW u \in Fetchers, FetchStarts(u)
        PROVE  /\ update[u].at = "begin" /\ MarkValid
               /\ Become(u, "write") \/ Become(u, "connect") \/ End(u)
               /\ s_ota_state' \in {s_ota_state, "running", "error"}
               /\ faults' \in 0 .. MaxFaults
               /\ UNCHANGED <<slot, nvs, overlapped, updates>> /\ UpdateFrame
    BY <1>1, <2>2 DEF FetchStarts
  <2> QED BY <2>1, <2>2 DEF Updaters
<1>3. /\ update' \in [Updaters -> Update]
      /\ \A v \in Updaters : v # u => update'[v] = update[v]
      /\ update'[u].at \in {"connect", "write", "none"}
      /\ update'[u].done = update[u].done \/ update'[u].done = 0
  BY <1>1, <1>2, BecomeType, EndType
<1>4. /\ otadata'.boot = otadata.boot /\ otadata'.state = "valid"
      /\ otadata' \in [boot : Slots, state : {"valid", "new", "pending"}]
  BY <1>2 DEF OtaInv, TypeOK, MarkValid
<1> USE DEF UpdateFrame
<1>5. TypeOK'
  BY <1>2, <1>3, <1>4 DEF OtaInv, TypeOK, Update
<1>6. \A s \in Slots : Whole(s)' <=> Whole(s)
  BY <1>2, WholeKept
<1>7. power = "up" /\ Powered' /\ Alone'
  BY <1>2, <1>3, NoUpdateType DEF OtaInv, Powered, Alone
<1>8. overlapped \/ (otadata.boot = running /\ \A v \in Updaters : v # u => update[v].at = "none")
  BY <1>2, <1>7 DEF OtaInv, Alone, BootsRunning
<1>9. RunsWhole' /\ Marked' /\ Unconfirmed' /\ BootsRunning'
  <2>1. RunsWhole'
    BY <1>2, <1>6 DEF OtaInv, TypeOK, RunsWhole
  <2>2. Marked'
    BY <1>2, <1>3, <1>4, <1>8 DEF OtaInv, Marked
  <2>3. Unconfirmed'
    <3> SUFFICES ASSUME NEW v \in Updaters, update'[v].done > 0 PROVE Target \notin confirmed
      BY <1>2, <1>4 DEF Unconfirmed, Target
    <3> QED BY <1>3 DEF OtaInv, Unconfirmed
  <2>4. BootsRunning'
    BY <1>2, <1>4, <1>8 DEF BootsRunning
  <2> QED BY <2>1, <2>2, <2>3, <2>4
<1>10. WayBack' /\ TrustedHasRun' /\ (Whole(otadata.boot) \/ overlapped)'
  BY <1>2, <1>4, <1>6, <1>7, <1>8 DEF OtaInv, TypeOK, RunsWhole, WayBack, TrustedHasRun
<1> QED BY <1>5, <1>7, <1>9, <1>10 DEF OtaInv

\* A step that only takes an updater on to its writes or to their end, or stops it.
LEMMA LeavesInv ==
    ASSUME OtaInv, NEW u \in Updaters,
           FetchBegins(u) \/ WriteFails(u) \/ CutOff(u) \/ Received(u)
    PROVE  OtaInv'
<1> USE DEF UpdateFrame, flash
<1>1. update \in [Updaters -> Update] /\ faults \in 0 .. MaxFaults /\ MaxFaults \in Nat
  BY OtaAssumption DEF OtaInv, TypeOK, Update
<1>2. /\ update[u].at \in {"connect", "write"}
      /\ \/ update[u].at = "connect" /\ Become(u, "write")
         \/ update[u].at = "write" /\ Become(u, "end")
         \/ End(u)
      /\ s_ota_state' \in {s_ota_state, "error"} /\ faults' \in 0 .. MaxFaults
      /\ UNCHANGED <<flash, overlapped, updates>> /\ UpdateFrame
  BY <1>1 DEF FetchBegins, WriteFails, CutOff, Received, Fault
<1>3. /\ update' \in [Updaters -> Update]
      /\ \A v \in Updaters : v # u => update'[v] = update[v]
      /\ update'[u].at \in {"write", "end", "none"}
      /\ update'[u].done = update[u].done \/ update'[u].done = 0
  BY <1>1, <1>2, BecomeType, EndType
<1>4. TypeOK'
  BY <1>2, <1>3 DEF OtaInv, TypeOK, Update
<1>5. \A s \in Slots : Whole(s)' <=> Whole(s)
  BY <1>2, WholeKept
<1>6. power = "up" /\ Powered' /\ Alone'
  BY <1>2, <1>3, NoUpdateType DEF OtaInv, Powered, Alone
<1>7. RunsWhole' /\ WayBack' /\ TrustedHasRun' /\ (Whole(otadata.boot) \/ overlapped)'
  BY <1>2, <1>5, Other DEF OtaInv, TypeOK, RunsWhole, WayBack, TrustedHasRun
<1>8. BootsRunning'
  BY <1>2, <1>3 DEF OtaInv, BootsRunning
<1>9. Marked'
  BY <1>2, <1>3, <1>5, Other DEF OtaInv, TypeOK, Marked, Target
<1>10. Unconfirmed'
  <2> SUFFICES ASSUME NEW v \in Updaters, update'[v].done > 0 PROVE Target \notin confirmed
    BY <1>2 DEF OtaInv, Unconfirmed, Target
  <2> QED BY <1>3 DEF OtaInv, Unconfirmed
<1> QED BY <1>4, <1>6, <1>7, <1>8, <1>9, <1>10 DEF OtaInv

\* A write touches the slot that does not run, which nothing relies on.
LEMMA WritesInv ==
    ASSUME OtaInv, NEW u \in Updaters, Writes(u) PROVE OtaInv'
<1>1. update \in [Updaters -> Update] /\ BLOCKS \in Nat \ {0} /\ running \in Slots
  BY OtaAssumption DEF OtaInv, TypeOK, Update
<1>2. Target \in Slots /\ Target # running /\ Target' = Target /\ running' = running
  BY <1>1, Other DEF Target, Writes
<1>3. /\ update' \in [Updaters -> Update]
      /\ \A v \in Updaters : v # u => update'[v] = update[v]
      /\ update[u].at = "write" /\ update'[u].at = "write"
      /\ update[u].done + 1 \in 1 .. BLOCKS
  BY <1>1 DEF Writes, Update
<1>4. /\ slot' \in [Slots -> [1 .. BLOCKS -> Firmwares]]
      /\ slot'[running] = slot[running]
  BY <1>1, <1>2, <1>3 DEF Writes, OtaInv, TypeOK, Update
<1> USE DEF Writes
<1>5. TypeOK'
  BY <1>3, <1>4 DEF OtaInv, TypeOK, Update
<1>6. Whole(running)' <=> Whole(running)
  BY <1>1, <1>2, <1>4 DEF Whole
<1>7. power = "up" /\ Powered' /\ Alone'
  BY <1>3, NoUpdateType DEF OtaInv, Powered, Alone
<1>8. RunsWhole'
  BY <1>2, <1>6, <1>7 DEF OtaInv, RunsWhole
<1>9. overlapped \/ (/\ otadata.boot = running /\ otadata.state = "valid"
                     /\ \A v \in Updaters : v # u => update[v].at = "none")
  BY <1>3, <1>7 DEF OtaInv, Alone, BootsRunning, Marked
<1>10. BootsRunning' /\ WayBack' /\ (Whole(otadata.boot) \/ overlapped)' /\ TrustedHasRun'
  <2>1. running \in confirmed' /\ Whole(running)'
    BY <1>2, <1>6, <1>7 DEF OtaInv, RunsWhole
  <2> QED BY <1>2, <1>9, <2>1 DEF BootsRunning, WayBack, TrustedHasRun
<1>11. Marked'
  BY <1>3, <1>9 DEF Marked
<1>12. Unconfirmed'
  BY <1>2 DEF OtaInv, Unconfirmed
<1> QED BY <1>5, <1>7, <1>8, <1>10, <1>11, <1>12 DEF OtaInv

\* What is chosen to boot is whole, and what ran before is there to go back to.
LEMMA FinishInv ==
    ASSUME OtaInv, NEW u \in Updaters, Finish(u) PROVE OtaInv'
<1> USE DEF UpdateFrame
<1>1. update \in [Updaters -> Update] /\ running \in Slots /\ otadata.boot \in Slots
  BY DEF OtaInv, TypeOK, Update
<1>2. /\ Target \in Slots /\ Target' = Target /\ running' = running /\ 1 - Target = running
      /\ Target # running
  BY <1>1, Other DEF Target, Finish
<1>3. \A s \in Slots : Whole(s)' <=> Whole(s)
  BY WholeKept DEF Finish
<1>4. /\ update' \in [Updaters -> Update] /\ update[u].at = "end"
      /\ \A v \in Updaters : v # u => update'[v] = update[v]
      /\ update'[u].at \in {"erase", "none"}
      /\ update'[u].done = update[u].done \/ update'[u].done = 0
  BY <1>1, BecomeType, EndType DEF Finish
<1>5. power = "up" /\ Powered' /\ Alone'
  BY <1>4, NoUpdateType DEF OtaInv, Powered, Alone, Finish
<1>6. RunsWhole'
  BY <1>1, <1>2, <1>3 DEF OtaInv, RunsWhole, Finish
<1>7. running \in confirmed /\ Whole(running)
  BY <1>5 DEF OtaInv, RunsWhole
<1>8. overlapped \/ (/\ otadata.boot = running
                     /\ \A v \in Updaters : v # u => update[v].at = "none")
  BY <1>4, <1>5 DEF OtaInv, Alone, BootsRunning
<1>9. CASE /\ Verified(u) /\ UNCHANGED faults
           /\ Become(u, "erase") /\ otadata' = [boot |-> Target, state |-> "new"]
           /\ s_ota_state' = IF u = "upload" THEN "done" ELSE s_ota_state
  <2>1. /\ update'[u].at = "erase" /\ otadata' = [boot |-> Target, state |-> "new"]
        /\ Target \notin confirmed /\ UNCHANGED <<slot, nvs, overlapped, updates, faults, confirmed>>
        /\ s_ota_state' \in {s_ota_state, "done"}
    BY <1>1, <1>9, BecomeType DEF Finish, Verified, OtaInv, Unconfirmed
  <2>2. TypeOK'
    BY <1>2, <1>4, <1>5, <2>1 DEF OtaInv, TypeOK, Update, Finish
  <2>3. BootsRunning' /\ Marked'
    BY <1>2, <1>3, <1>4, <1>8, <1>9, <2>1 DEF BootsRunning, Marked, Verified
  <2>4. Unconfirmed'
    <3> SUFFICES \A v \in Updaters : update'[v].done > 0 => Target \notin confirmed
      BY <1>2, <2>1 DEF Unconfirmed
    <3> QED BY <2>1
  <2>5. WayBack' /\ (Whole(otadata.boot) \/ overlapped)' /\ TrustedHasRun'
    BY <1>1, <1>2, <1>3, <1>7, <1>9, <2>1 DEF WayBack, TrustedHasRun, Verified
  <2> QED BY <1>5, <1>6, <2>2, <2>3, <2>4, <2>5 DEF OtaInv
<1>10. CASE /\ \/ ~Verified(u) /\ UNCHANGED faults
               \/ Verified(u) /\ Fault
            /\ End(u) /\ s_ota_state' = "error" /\ UNCHANGED otadata
  <2>1. /\ update'[u].at = "none" /\ s_ota_state' = "error"
        /\ UNCHANGED <<otadata, slot, nvs, overlapped, updates, confirmed, power>>
        /\ faults' \in 0 .. MaxFaults
    BY <1>1, <1>10, EndType, OtaAssumption DEF Finish, Fault, OtaInv, TypeOK
  <2>2. TypeOK'
    BY <1>2, <1>4, <2>1 DEF OtaInv, TypeOK, Update
  <2>3. BootsRunning'
    BY <1>2, <1>8, <2>1 DEF BootsRunning
  <2>4. Marked'
    BY <1>2, <1>3, <1>4, <2>1 DEF OtaInv, Marked
  <2>5. Unconfirmed'
    <3> SUFFICES ASSUME NEW v \in Updaters, update'[v].done > 0 PROVE Target \notin confirmed
      BY <1>2, <2>1 DEF OtaInv, Unconfirmed
    <3> QED BY <1>4 DEF OtaInv, Unconfirmed
  <2>6. WayBack' /\ (Whole(otadata.boot) \/ overlapped)' /\ TrustedHasRun'
    BY <1>1, <1>3, <2>1, Other DEF OtaInv, WayBack, TrustedHasRun
  <2> QED BY <1>5, <1>6, <2>2, <2>3, <2>4, <2>5, <2>6 DEF OtaInv
<1> QED BY <1>9, <1>10 DEF Finish

LEMMA EraseInv ==
    ASSUME OtaInv, NEW u \in Updaters, Erase(u) PROVE OtaInv'
<1> USE DEF UpdateFrame
<1>1. update \in [Updaters -> Update] /\ nvs \in BOOLEAN
  BY DEF OtaInv, TypeOK, Update
<1>2. /\ update' \in [Updaters -> Update] /\ update[u].at = "erase"
      /\ \A v \in Updaters : v # u => update'[v] = update[v]
      /\ update'[u].at = "wait" /\ update'[u].done = update[u].done
  BY <1>1, BecomeType DEF Erase
<1>3. \A s \in Slots : Whole(s)' <=> Whole(s)
  BY WholeKept DEF Erase
<1>4. nvs' \in BOOLEAN /\ s_ota_state' = "done"
  BY <1>1 DEF Erase
<1>5. UNCHANGED <<slot, otadata, overlapped, updates, faults, power, running, confirmed>>
  BY DEF Erase
<1>6. TypeOK'
  BY <1>2, <1>4, <1>5 DEF OtaInv, TypeOK, Update
<1>7. power = "up" /\ Powered' /\ Alone'
  BY <1>2, <1>5, NoUpdateType DEF OtaInv, Powered, Alone
<1>8. RunsWhole' /\ WayBack' /\ TrustedHasRun' /\ (Whole(otadata.boot) \/ overlapped)'
  BY <1>3, <1>5, Other DEF OtaInv, TypeOK, RunsWhole, WayBack, TrustedHasRun
<1>9. BootsRunning' /\ Marked'
  BY <1>2, <1>3, <1>5, Other DEF OtaInv, TypeOK, BootsRunning, Marked, Target
<1>10. Unconfirmed'
  <2> SUFFICES ASSUME NEW v \in Updaters, update'[v].done > 0 PROVE Target \notin confirmed
    BY <1>5 DEF OtaInv, Unconfirmed, Target
  <2> QED BY <1>2 DEF OtaInv, Unconfirmed
<1> QED BY <1>6, <1>7, <1>8, <1>9, <1>10 DEF OtaInv

\* Without power nothing is under way; the flash stays.
LEMMA OffInv ==
    ASSUME OtaInv, Off, UNCHANGED flash, faults' \in 0 .. MaxFaults PROVE OtaInv'
<1> USE DEF Off, flash
<1>1. \A u \in Updaters : update'[u] = NoUpdate
  OBVIOUS
<1>2. update' \in [Updaters -> Update]
  BY NoUpdateType
<1>3. TypeOK'
  BY <1>2 DEF OtaInv, TypeOK, Update
<1>4. \A s \in Slots : Whole(s)' <=> Whole(s)
  BY WholeKept
<1>5. Powered' /\ Alone' /\ RunsWhole' /\ BootsRunning' /\ Marked'
  BY <1>1, NoUpdateType DEF Powered, Alone, RunsWhole, BootsRunning, Marked
<1>6. Unconfirmed'
  BY <1>1, NoUpdateType DEF OtaInv, Unconfirmed
<1>7. WayBack' /\ TrustedHasRun' /\ (Whole(otadata.boot) \/ overlapped)'
  BY <1>4, Other DEF OtaInv, TypeOK, WayBack, TrustedHasRun
<1> QED BY <1>3, <1>5, <1>6, <1>7 DEF OtaInv

\* The bootloader: a pending firmware is gone back from, to one that has run.
LEMMA BootInv == ASSUME OtaInv, Boot PROVE OtaInv'
<1>1. /\ otadata \in [boot : Slots, state : {"valid", "new", "pending"}]
      /\ confirmed \subseteq Slots
  BY DEF OtaInv, TypeOK
<1>2. Choice \in {otadata.boot, 1 - otadata.boot} /\ Choice \in Slots
  BY <1>1, Other DEF Choice
<1>3. /\ power' = "booting" /\ running' = Choice /\ Whole(Choice) /\ otadata'.boot = Choice
      /\ otadata'.state = IF Choice = otadata.boot /\ otadata.state = "new" THEN "pending"
                          ELSE "valid"
      /\ otadata' \in [boot : Slots, state : {"valid", "new", "pending"}]
      /\ UNCHANGED <<slot, nvs, s_ota_state, update, confirmed, overlapped, updates, faults>>
  BY <1>2 DEF Boot
<1>4. \A s \in Slots : Whole(s)' <=> Whole(s)
  BY <1>3, WholeKept
<1>5. \A u \in Updaters : update'[u] = NoUpdate
  BY <1>3 DEF OtaInv, Powered, Boot
<1>6. TypeOK'
  BY <1>2, <1>3 DEF OtaInv, TypeOK
<1>7. Powered' /\ Alone' /\ RunsWhole' /\ BootsRunning' /\ Marked'
  <2>1. Whole(running)'
    BY <1>2, <1>3, <1>4
  <2> QED BY <1>3, <1>5, <2>1, NoUpdateType
     DEF OtaInv, Powered, Alone, RunsWhole, BootsRunning, Marked
<1>8. Unconfirmed'
  BY <1>3, <1>5, NoUpdateType DEF OtaInv, Unconfirmed
<1>9. WayBack' /\ (Whole(otadata.boot) \/ overlapped)'
  BY <1>1, <1>2, <1>3, <1>4, Other DEF OtaInv, WayBack
<1>10. TrustedHasRun'
  <2>1. CASE Choice = otadata.boot
    <3>1. CASE otadata.state = "pending"
      BY <1>1, <1>3, <2>1, <3>1, Other DEF OtaInv, WayBack, Choice, TrustedHasRun
    <3>2. CASE otadata.state # "pending"
      BY <1>1, <1>3, <2>1, <3>2 DEF OtaInv, TrustedHasRun
    <3> QED BY <3>1, <3>2
  <2>2. CASE Choice # otadata.boot
    BY <1>1, <1>2, <1>3, <2>2, Other DEF OtaInv, WayBack, Choice, TrustedHasRun
  <2> QED BY <2>1, <2>2
<1> QED BY <1>6, <1>7, <1>8, <1>9, <1>10 DEF OtaInv

\* app_main has come to its end.
LEMMA AppMainEndsInv == ASSUME OtaInv, AppMainEnds PROVE OtaInv'
<1>1. /\ otadata'.boot = otadata.boot /\ otadata'.state = "valid"
      /\ otadata' \in [boot : Slots, state : {"valid", "new", "pending"}]
  BY DEF OtaInv, TypeOK, AppMainEnds, MarkValid
<1>2. \A s \in Slots : Whole(s)' <=> Whole(s)
  BY WholeKept DEF AppMainEnds
<1>3. \A u \in Updaters : update[u] = NoUpdate
  BY DEF AppMainEnds, OtaInv, Powered
<1>4. /\ power = "booting" /\ power' = "up" /\ running \in Slots
      /\ confirmed' = confirmed \cup {running}
      /\ UNCHANGED <<slot, nvs, running, s_ota_state, update, overlapped, updates, faults>>
  BY DEF AppMainEnds, OtaInv, TypeOK
<1>5. TypeOK'
  BY <1>1, <1>4 DEF OtaInv, TypeOK
<1>6. Powered' /\ Alone' /\ RunsWhole' /\ Marked'
  BY <1>2, <1>3, <1>4, NoUpdateType DEF OtaInv, Powered, Alone, RunsWhole, Marked
<1>7. overlapped \/ otadata.boot = running
  BY <1>3, <1>4, NoUpdateType DEF OtaInv, BootsRunning
<1>8. BootsRunning' /\ WayBack' /\ TrustedHasRun'
  BY <1>1, <1>4, <1>7 DEF BootsRunning, WayBack, TrustedHasRun
<1>9. Unconfirmed'
  BY <1>1, <1>3, <1>4, NoUpdateType DEF Unconfirmed
<1>10. (Whole(otadata.boot) \/ overlapped)'
  BY <1>1, <1>2, <1>4, <1>7 DEF OtaInv, RunsWhole
<1> QED BY <1>5, <1>6, <1>8, <1>9, <1>10 DEF OtaInv

LEMMA StepInv == OtaInv /\ [Next]_vars => OtaInv'
<1> SUFFICES ASSUME OtaInv, [Next]_vars PROVE OtaInv'
  OBVIOUS
<1>1. ASSUME NEW fw \in Firmwares, NEW erase \in BOOLEAN,
             AskUpload(fw, erase) \/ \E u \in Fetchers : AskFetch(u, fw, erase)
      PROVE  OtaInv'
  BY <1>1, AskInv DEF AskUpload, AskFetch, Updaters
<1>2. CASE UploadBegins
  BY <1>2, BeginsInv
<1>3. ASSUME NEW u \in Updaters, Step(u) \/ WriteFails(u) \/ CutOff(u) PROVE OtaInv'
  <2>1. CASE FetchStarts(u)
    <3>1. u \in Fetchers
      BY <2>1 DEF FetchStarts
    <3> QED BY <2>1, <3>1, BeginsInv
  <2>2. CASE Writes(u)
    BY <2>2, WritesInv
  <2>3. CASE FetchBegins(u) \/ WriteFails(u) \/ CutOff(u) \/ Received(u)
    BY <2>3, LeavesInv
  <2>4. CASE Finish(u)
    BY <2>4, FinishInv
  <2>5. CASE Erase(u)
    BY <2>5, EraseInv
  <2>6. CASE Restart(u)
    BY <2>6, OffInv DEF Restart, OtaInv, TypeOK
  <2> QED BY <1>3, <2>1, <2>2, <2>3, <2>4, <2>5, <2>6 DEF Step
<1>4. CASE PowerFails
  <2>1. faults' \in 0 .. MaxFaults
    BY <1>4, OtaAssumption DEF PowerFails, Fault, OtaInv, TypeOK
  <2> QED BY <1>4, <2>1, OffInv DEF PowerFails
<1>5. CASE Boot
  BY <1>5, BootInv
<1>6. CASE AppMainEnds
  BY <1>6, AppMainEndsInv
<1>7. CASE AppMainAborts
  BY <1>7, OffInv DEF AppMainAborts, OtaInv, TypeOK
<1>8. CASE UNCHANGED vars
  BY <1>8 DEF vars, flash, OtaInv, TypeOK, Powered, Alone, RunsWhole, BootsRunning, Marked,
              Unconfirmed, WayBack, TrustedHasRun, Whole, Target
<1> QED BY <1>1, <1>2, <1>3, <1>4, <1>5, <1>6, <1>7, <1>8 DEF Next

LEMMA Invariance == Spec => []OtaInv
BY InitInv, StepInv, PTL DEF Spec

-----------------------------------------------------------------------------
\* Every variable of the updates keeps its type: no block is written past the end of
\* an image, whoever writes (web_ui.c:825-836, web_ui.c:887-897).
THEOREM TypeCorrect == Spec => []TypeOK
<1>1. OtaInv => TypeOK
  BY DEF OtaInv
<1> QED BY <1>1, Invariance, PTL

\* Whenever the power fails, there is a whole image to boot: the firmware that runs is
\* never written, and the one chosen to boot (web_ui.c:838, web_ui.c:905) is whole,
\* unless two updates overlapped.
THEOREM AlwaysBootable == Spec => []BootsWhole
<1>1. OtaInv => BootsWhole
  BY DEF OtaInv, RunsWhole, BootsWhole
<1> QED BY <1>1, Invariance, PTL

\* No firmware is marked valid (web_ui.c:806, web_ui.c:865, main.c:246) that has not
\* reached the end of app_main, unless two updates overlapped.
THEOREM TrustIsEarned == Spec => []TrustedHasRun
<1>1. OtaInv => TrustedHasRun
  BY DEF OtaInv
<1> QED BY <1>1, Invariance, PTL

\* The settings are erased only when a whole new image is chosen to boot (erase_nvs is
\* looked at after esp_ota_set_boot_partition), unless two updates overlapped.
THEOREM SettingsSurvive == Spec => EraseOnlyWithUpdate
<1>1. OtaInv /\ [Next]_vars
        => [nvs /\ ~nvs' => (otadata.boot = Target /\ Whole(Target)) \/ overlapped]_vars
  <2> SUFFICES ASSUME OtaInv, Next, nvs, ~nvs'
               PROVE  (otadata.boot = Target /\ Whole(Target)) \/ overlapped
    OBVIOUS
  <2>1. PICK u \in Updaters : Erase(u)
    BY DEF Next, AskUpload, AskFetch, Ask, UploadBegins, Step, FetchStarts, FetchBegins, Writes, WriteFails,
           Received, CutOff, Finish, Restart, PowerFails, Boot, AppMainEnds, AppMainAborts, flash
  <2> QED BY <2>1 DEF OtaInv, Marked, Erase
<1> QED BY <1>1, Invariance, PTL DEF Spec, EraseOnlyWithUpdate

\* A firmware that has come up once is booted until an update replaces it: only the
\* one that has not come up is rolled back.
THEOREM NoNeedlessRollback == Spec => ConfirmedStays
<1>1. OtaInv /\ [Next]_vars
        => [power = "off" /\ power' = "booting" /\ Whole(otadata.boot)
              /\ otadata.boot \in confirmed => running' = otadata.boot]_vars
  <2> SUFFICES ASSUME OtaInv, Next, power = "off", power' = "booting", Whole(otadata.boot),
                      otadata.boot \in confirmed
               PROVE  running' = otadata.boot
    OBVIOUS
  <2>1. Boot
    BY DEF Next, AskUpload, AskFetch, Ask, UploadBegins, Step, FetchStarts, FetchBegins, Writes, WriteFails,
           Received, CutOff, Finish, Erase, Restart, PowerFails, AppMainEnds, AppMainAborts, Off,
           UpdateFrame
  <2> QED BY <2>1 DEF OtaInv, Unconfirmed, Boot, Choice
<1> QED BY <1>1, Invariance, PTL DEF Spec, ConfirmedStays
=============================================================================
