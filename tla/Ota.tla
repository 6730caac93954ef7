--------------------------------- MODULE Ota ---------------------------------
(***************************************************************************)
(* Firmware updates: the upload of web_ui.c, which runs in the task of httpd,   *)
(* the fetch, which gets a task of its own, s_ota_state, the restart that       *)
(* follows an update, and app_main, which marks the firmware valid at its end.  *)
(*                                                                         *)
(* The OTA library and the bootloader are external.  An update is written block *)
(* by block over what the other slot held; esp_ota_end accepts a slot that holds *)
(* one whole image; the entry that esp_ota_set_boot_partition writes is new, it   *)
(* is pending once it was booted, and if it is still pending at the next start    *)
(* the bootloader goes back to the other slot.  A slot that holds no whole image   *)
(* is passed over.  The power may fail at any time; another handler's restart     *)
(* is the same.                                                              *)
(***************************************************************************)
EXTENDS Naturals

CONSTANTS Firmwares, Installed, \* images, and the one in both slots at first
          Bad,                  \* images whose app_main aborts
          BLOCKS,               \* blocks of an image
          Fetchers,             \* ota_fetch tasks
          MaxUpdates, MaxFaults

ASSUME OtaAssumption ==
    /\ Installed \in Firmwares \ Bad /\ Bad \subseteq Firmwares
    /\ BLOCKS \in Nat \ {0} /\ MaxUpdates \in Nat /\ MaxFaults \in Nat
    /\ "upload" \notin Fetchers

Slots == {0, 1}
Updaters == {"upload"} \cup Fetchers

VARIABLES
    slot,        \* flash: the firmware each block of each slot is of
    otadata,     \* flash: the slot to boot and the state of its entry
    nvs,         \* flash: the settings are there
    power,       \* "off", "booting" (app_main), or "up"
    running,     \* the slot that was booted
    s_ota_state,
    update,      \* of each updater: its place, image, blocks written and erase_nvs
    confirmed,   \* history: slots whose firmware reached the end of app_main
    overlapped,  \* history: two updates were under way at once
    updates, faults

flash == <<slot, otadata, nvs>>
vars == <<flash, power, running, s_ota_state, update, confirmed, overlapped, updates, faults>>

NoUpdate == [at |-> "none", fw |-> Installed, done |-> 0, erase_nvs |-> FALSE]
Busy == {u \in Updaters : update[u].at # "none"}
Whole(s) == \E fw \in Firmwares : \A b \in 1 .. BLOCKS : slot[s][b] = fw
Image(s) == slot[s][1]
Target == 1 - running
Fault == faults < MaxFaults /\ faults' = faults + 1

Init ==
    /\ slot = [s \in Slots |-> [b \in 1 .. BLOCKS |-> Installed]]
    /\ otadata = [boot |-> 0, state |-> "valid"] /\ nvs = TRUE
    /\ power = "up" /\ running = 0 /\ s_ota_state = "idle"
    /\ update = [u \in Updaters |-> NoUpdate]
    /\ confirmed = {0} /\ overlapped = FALSE /\ updates = 0 /\ faults = 0

-----------------------------------------------------------------------------
(* The two handlers and the fetch task.                                       *)

UpdateFrame == UNCHANGED <<power, running, confirmed>>
Become(u, place) == update' = [update EXCEPT ![u].at = place]
End(u) == update' = [update EXCEPT ![u] = NoUpdate]
\* esp_ota_mark_app_valid_cancel_rollback looks at the entry to be booted next.
MarkValid == otadata' = [otadata EXCEPT !.state = "valid"]

Ask(u, fw, erase) ==
    /\ power = "up" /\ update[u].at = "none" /\ update["upload"].at = "none"
    /\ updates < MaxUpdates /\ updates' = updates + 1
    /\ update' = [update EXCEPT ![u] = [at |-> "begin", fw |-> fw, done |-> 0, erase_nvs |-> erase]]
    /\ overlapped' = (overlapped \/ Busy # {})
    /\ UNCHANGED <<flash, s_ota_state, faults>> /\ UpdateFrame
AskUpload(fw, erase) == s_ota_state # "running" /\ Ask("upload", fw, erase)
AskFetch(u, fw, erase) == u \in Fetchers /\ s_ota_state # "running" /\ Ask(u, fw, erase)

\* esp_ota_begin before the state is set, and no change of it when that fails.
UploadBegins ==
    /\ update["upload"].at = "begin" /\ MarkValid
    /\ \/ Become("upload", "write") /\ s_ota_state' = "running" /\ UNCHANGED faults
       \/ Fault /\ End("upload") /\ UNCHANGED s_ota_state
    /\ UNCHANGED <<slot, nvs, overlapped, updates>> /\ UpdateFrame
\* The fetch task is "running" and marks before it connects, which takes a while.
FetchStarts(u) ==
    /\ u \in Fetchers /\ update[u].at = "begin" /\ Become(u, "connect")
    /\ s_ota_state' = "running" /\ MarkValid
    /\ UNCHANGED <<slot, nvs, overlapped, updates, faults>> /\ UpdateFrame
FetchBegins(u) ==
    /\ update[u].at = "connect"
    /\ \/ Become(u, "write") /\ UNCHANGED <<s_ota_state, faults>>
       \/ Fault /\ End(u) /\ s_ota_state' = "error"
    /\ UNCHANGED <<flash, overlapped, updates>> /\ UpdateFrame

Writes(u) ==
    /\ update[u].at = "write" /\ update[u].done < BLOCKS
    /\ slot' = [slot EXCEPT ![Target][update[u].done + 1] = update[u].fw]
    /\ update' = [update EXCEPT ![u].done = @ + 1] /\ confirmed' = confirmed \ {Target}
    /\ UNCHANGED <<otadata, nvs, power, running, s_ota_state, overlapped, updates, faults>>
WriteFails(u) ==
    /\ update[u].at = "write" /\ Fault /\ End(u) /\ s_ota_state' = "error"
    /\ UNCHANGED <<flash, overlapped, updates>> /\ UpdateFrame
Received(u) ==
    /\ update[u].at = "write" /\ update[u].done = BLOCKS /\ Become(u, "end")
    /\ UNCHANGED <<flash, s_ota_state, overlapped, updates, faults>> /\ UpdateFrame
\* The connection is lost: an upload goes on as if it had all, a fetch does not.
CutOff(u) ==
    /\ update[u].at = "write" /\ update[u].done < BLOCKS /\ Fault
    /\ IF u = "upload" THEN Become(u, "end") /\ UNCHANGED s_ota_state
                       ELSE End(u) /\ s_ota_state' = "error"
    /\ UNCHANGED <<flash, overlapped, updates>> /\ UpdateFrame

\* esp_ota_end, which verifies, and esp_ota_set_boot_partition, whose write may fail.
\* The upload reports before it erases the settings, the fetch after.
Verified(u) == Whole(Target) /\ update[u].done > 0
\* A wrong end: what esp_ota_end says is not looked at.
FinishUnverified(u) ==
    /\ update[u].at = "end" /\ Become(u, "erase") /\ otadata' = [boot |-> Target, state |-> "new"]
    /\ s_ota_state' = IF u = "upload" THEN "done" ELSE s_ota_state
    /\ UNCHANGED <<slot, nvs, overlapped, updates, faults>> /\ UpdateFrame
Finish(u) ==
    /\ update[u].at = "end"
    /\ \/ /\ Verified(u) /\ UNCHANGED faults
          /\ Become(u, "erase") /\ otadata' = [boot |-> Target, state |-> "new"]
          /\ s_ota_state' = IF u = "upload" THEN "done" ELSE s_ota_state
       \/ /\ \/ ~Verified(u) /\ UNCHANGED faults
             \/ Verified(u) /\ Fault
          /\ End(u) /\ s_ota_state' = "error" /\ UNCHANGED otadata
    /\ UNCHANGED <<slot, nvs, overlapped, updates>> /\ UpdateFrame
\* A wrong order: the settings are erased when the update begins.
EraseFirst(u) ==
    /\ update[u].at \in {"begin", "connect", "erase"} /\ nvs' = (nvs /\ ~update[u].erase_nvs)
    /\ IF update[u].at = "erase" THEN Become(u, "wait") /\ s_ota_state' = "done"
       ELSE UNCHANGED <<update, s_ota_state>>
    /\ UNCHANGED <<slot, otadata, overlapped, updates, faults>> /\ UpdateFrame
Erase(u) ==
    /\ update[u].at = "erase" /\ Become(u, "wait") /\ nvs' = (nvs /\ ~update[u].erase_nvs)
    /\ s_ota_state' = "done"
    /\ UNCHANGED <<slot, otadata, overlapped, updates, faults>> /\ UpdateFrame

-----------------------------------------------------------------------------
(* Restarts.                                                                 *)

Off ==
    /\ power' = "off" /\ s_ota_state' = "idle" /\ update' = [u \in Updaters |-> NoUpdate]
    /\ UNCHANGED <<running, confirmed, overlapped, updates>>
Restart(u) == update[u].at = "wait" /\ Off /\ UNCHANGED <<flash, faults>>
PowerFails == power # "off" /\ Fault /\ Off /\ UNCHANGED flash

\* The bootloader.
Choice ==
    LET wanted == IF otadata.state = "pending" THEN 1 - otadata.boot ELSE otadata.boot
    IN  IF Whole(wanted) THEN wanted ELSE 1 - wanted
Boot ==
    /\ power = "off" /\ Whole(Choice) /\ power' = "booting" /\ running' = Choice
    /\ otadata' = [boot |-> Choice,
                   state |-> IF Choice = otadata.boot /\ otadata.state = "new" THEN "pending"
                             ELSE "valid"]
    /\ UNCHANGED <<slot, nvs, s_ota_state, update, confirmed, overlapped, updates, faults>>

AppMainEnds ==
    /\ power = "booting" /\ Image(running) \notin Bad /\ power' = "up" /\ MarkValid
    /\ confirmed' = confirmed \cup {running}
    /\ UNCHANGED <<slot, nvs, running, s_ota_state, update, overlapped, updates, faults>>
\* A wrong app_main: it marks the firmware before it has started everything.
AppMainAbortsMarked ==
    /\ power = "booting" /\ Image(running) \in Bad /\ Off /\ MarkValid
    /\ UNCHANGED <<slot, nvs, faults>>
\* ESP_ERROR_CHECK.
AppMainAborts ==
    /\ power = "booting" /\ Image(running) \in Bad /\ Off /\ UNCHANGED <<flash, faults>>

-----------------------------------------------------------------------------
Step(u) ==
    \/ FetchStarts(u) \/ FetchBegins(u) \/ Writes(u) \/ Received(u) \/ Finish(u) \/ Erase(u)
    \/ Restart(u)
Next ==
    \/ \E fw \in Firmwares, erase \in BOOLEAN :
          AskUpload(fw, erase) \/ \E u \in Fetchers : AskFetch(u, fw, erase)
    \/ UploadBegins
    \/ \E u \in Updaters : Step(u) \/ WriteFails(u) \/ CutOff(u)
    \/ PowerFails \/ Boot \/ AppMainEnds \/ AppMainAborts

Spec == Init /\ [][Next]_vars
\* Tasks run; what is received comes to an end, for the receives time out; the
\* chip starts.
FairSpec ==
    /\ Spec /\ WF_vars(UploadBegins) /\ \A u \in Updaters : WF_vars(Step(u))
    /\ WF_vars(Boot) /\ WF_vars(AppMainEnds) /\ WF_vars(AppMainAborts)

-----------------------------------------------------------------------------
(* Properties.                                                               *)

\* The variables have their types.
TypeOK ==
    /\ slot \in [Slots -> [1 .. BLOCKS -> Firmwares]]
    /\ otadata \in [boot : Slots, state : {"valid", "new", "pending"}] /\ nvs \in BOOLEAN
    /\ power \in {"off", "booting", "up"} /\ running \in Slots
    /\ s_ota_state \in {"idle", "running", "done", "error"}
    /\ update \in [Updaters -> [at : {"none", "begin", "connect", "write", "end", "erase", "wait"},
                                fw : Firmwares, done : 0 .. BLOCKS, erase_nvs : BOOLEAN]]
    /\ confirmed \subseteq Slots /\ overlapped \in BOOLEAN
    /\ updates \in 0 .. MaxUpdates /\ faults \in 0 .. MaxFaults

\* Whenever the power fails, there is one whole image to boot: what runs is never
\* written, and what the bootloader is told to boot is whole, though an upload that
\* is cut off is ended like a complete one (web_ui.c:825), unless two updates were
\* written into the same slot.
BootsWhole == (power # "off" => Whole(running)) /\ (Whole(otadata.boot) \/ overlapped)

\* web_ui.c:806, web_ui.c:865 and main.c:246 mark the firmware that is to be booted
\* next, which may be another than the one they run in.  A firmware is trusted only
\* after it has reached the end of app_main, unless two updates overlapped.
TrustedHasRun == otadata.state = "valid" => otadata.boot \in confirmed \/ overlapped

\* The settings are erased only when the new image is there, whole and chosen: an
\* update that fails before that leaves them (README.md:604, "Erase all settings
\* after update"), unless two updates overlapped.
EraseOnlyWithUpdate ==
    [][nvs /\ ~nvs' => (otadata.boot = Target /\ Whole(Target)) \/ overlapped]_vars

\* A firmware that has come up once is what the bootloader boots until an update
\* replaces it: no power failure rolls it back.
ConfirmedStays ==
    [][power = "off" /\ power' = "booting" /\ Whole(otadata.boot)
          /\ otadata.boot \in confirmed => running' = otadata.boot]_vars

\* Whatever is uploaded and whenever the power fails, the chip comes up again: a
\* firmware whose app_main aborts is rolled back, unless two updates overlapped.
ComesUp == []<>(power = "up" \/ overlapped)

=============================================================================
