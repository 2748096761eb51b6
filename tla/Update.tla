------------------------------ MODULE Update -------------------------------
(***************************************************************************)
(* Firmware update: the update module (update.c), the server messages     *)
(* that drive it (update_start_handler and update_apply_handler in        *)
(* dispatcher.c, run by the TCP rx task), the handler of the OTA events   *)
(* on the default event loop (http_ota_event_handler in sys_evt.c), the   *)
(* scheduler callback update_apply_delayed, and esp_restart, composed     *)
(* with the OTA task of HttpOta.                                           *)
(*                                                                         *)
(* The rx task, the OTA task, the event loop task and the timer task run  *)
(* concurrently and update_state has no lock (update.c:46), so every step *)
(* of one may fall between two steps of another.  The server sends the    *)
(* messages ServerMsgs in order, one after the answer to the last, and    *)
(* goes on with them after a restart.  esp_restart clears RAM and boots   *)
(* the partition esp_https_ota_finish set, or the running one.            *)
(***************************************************************************)
EXTENDS HttpOta

CONSTANTS
  InstalledVer,  \* the version running at power-on
  ServerMsgs     \* UPDATE_START and UPDATE_INSTALL messages, in order

(* update_phase_e *)
UPDATE_PHASE_IDLE == 0
UPDATE_PHASE_STARTED == 1
UPDATE_PHASE_TRANSFER == 2
UPDATE_PHASE_DOWNLOADED == 3
UPDATE_PHASE_READY == 4
UPDATE_PHASE_APPLY == 5

(* update_error_e *)
UPDATE_ERROR_NONE == 0
UPDATE_ERROR_INVALID_DEV_TYPE == 8
UPDATE_ERROR_INVALID_HW_VER == 9
UPDATE_ERROR_ALREADY_INSTALLED == 10
UPDATE_ERROR_INVALID_URL == 11
UPDATE_ERROR_SW_FAULT == 12

NO_FIRMWARE == 0

VARIABLES
  us,            \* update_state: ver, phase, progress, error, policy
  rx,            \* the index in ServerMsgs of the next message
  rxpc,          \* "idle", or "submitted": update_start after its submit
  restartTimer   \* update_apply_delayed is scheduled

uVars == <<us, rx, rxpc, restartTimer>>
vars == <<otaVars, uVars>>

(* The static initialiser of update_state; policy is 0, UPDATE_IMMEDIATE. *)
UsInit == [ver |-> NO_FIRMWARE, phase |-> UPDATE_PHASE_IDLE,
           progress |-> 0, error |-> UPDATE_ERROR_NONE, policy |-> "immediate"]

UInit ==
  /\ OInit(InstalledVer)
  /\ us = UsInit
  /\ rx = 1
  /\ rxpc = "idle"
  /\ restartTimer = FALSE

-----------------------------------------------------------------------------
(* esp_restart: RAM is cleared, the boot partition runs.  The message    *)
(* the rx task was handling counts as taken; next is the index of the    *)
(* next message.                                                          *)
esp_restart(next) ==
  /\ OReset(IF bootSet THEN ImageVer ELSE installed)
  /\ us' = UsInit
  /\ rx' = next
  /\ rxpc' = "idle"
  /\ restartTimer' = FALSE

(* The next message the rx task handles. *)
Msg == ServerMsgs[rx]
RxReady(type) == rxpc = "idle" /\ rx <= Len(ServerMsgs) /\ Msg.type = type

(* The error update_start returns before it submits: the checks of the   *)
(* device type, the hardware version, the installed version               *)
(* (update_numeric_fw_ver) and the URL (set_new_fw_url), in that order.   *)
StartCheck(m) ==
  CASE ~m.dev -> UPDATE_ERROR_INVALID_DEV_TYPE
    [] ~m.hw -> UPDATE_ERROR_INVALID_HW_VER
    [] m.fw = installed -> UPDATE_ERROR_ALREADY_INSTALLED
    [] ~m.url -> UPDATE_ERROR_INVALID_URL
    [] OTHER -> UPDATE_ERROR_NONE

(* update_start_handler up to the return of http_ota_submit_start: a     *)
(* rejected message sets the error and is answered; an accepted one sets  *)
(* the version and the policy and queues OTA_START, or sets               *)
(* UPDATE_ERROR_SW_FAULT when ota_q stays full.                           *)
UpdateStart ==
  /\ RxReady("start")
  /\ LET code == StartCheck(Msg)
         accepted == [us EXCEPT !.ver = Msg.fw, !.policy = Msg.policy]
     IN CASE code # UPDATE_ERROR_NONE ->
               /\ us' = [us EXCEPT !.error = code]
               /\ rx' = rx + 1
               /\ UNCHANGED <<rxpc, otaQ>>
          [] otaQ < OtaQLen ->
               /\ us' = accepted
               /\ otaQ' = otaQ + 1
               /\ rxpc' = "submitted"
               /\ UNCHANGED rx
          [] OTHER ->
               /\ us' = [accepted EXCEPT !.error = UPDATE_ERROR_SW_FAULT]
               /\ rx' = rx + 1
               /\ UNCHANGED <<rxpc, otaQ>>
  /\ UNCHANGED restartTimer
  /\ UNCHANGED <<ticks, ms, hnd, ctx, progressLast, evq, bootSet, freedUse, installed>>

(* The rest of update_start: the error is cleared and the message        *)
(* answered.                                                               *)
UpdateStartDone ==
  /\ rxpc = "submitted"
  /\ us' = [us EXCEPT !.error = UPDATE_ERROR_NONE]
  /\ rxpc' = "idle"
  /\ rx' = rx + 1
  /\ UNCHANGED <<otaVars, restartTimer>>

(* update_apply(delay_ms) without its restart: the phase becomes APPLY;  *)
(* a delay with the immediate policy schedules update_apply_delayed.      *)
Apply(delay) ==
  /\ us' = [us EXCEPT !.phase = UPDATE_PHASE_APPLY]
  /\ restartTimer' = (restartTimer \/ (us.policy = "immediate" /\ delay > 0))

(* Mutant: the policy test inverted. *)
RestartsNow_inverted(delay) == us.policy = "delayed" /\ delay = 0

(* update_apply restarts at once with the immediate policy and no delay. *)
RestartsNow(delay) == us.policy = "immediate" /\ delay = 0

(* update_apply_handler: UPDATE_INSTALL is applied whatever the phase.    *)
UpdateInstall ==
  /\ RxReady("install")
  /\ IF RestartsNow(Msg.delay)
     THEN esp_restart(rx + 1)
     ELSE /\ Apply(Msg.delay)
          /\ rx' = rx + 1
          /\ UNCHANGED <<otaVars, rxpc>>

(* update_apply_delayed on the timer task. *)
UpdateApplyDelayed ==
  /\ restartTimer
  /\ esp_restart(IF rxpc = "submitted" THEN rx + 1 ELSE rx)

-----------------------------------------------------------------------------
(* Mutant: the ABORT error stored without the cast to uint8_t. *)
OnEvent_nocast(e) ==
  CASE e.id = "validated" ->
         us' = [us EXCEPT !.phase = UPDATE_PHASE_STARTED, !.ver = e.data,
                          !.progress = 0, !.error = UPDATE_ERROR_NONE]
    [] e.id = "transfer" /\ e.data # us.progress ->
         us' = [us EXCEPT !.progress = e.data, !.phase = UPDATE_PHASE_TRANSFER]
    [] e.id = "downloaded" ->
         us' = [us EXCEPT !.phase = UPDATE_PHASE_DOWNLOADED, !.progress = 100]
    [] e.id = "verified" ->
         us' = [us EXCEPT !.phase = UPDATE_PHASE_READY]
    [] e.id = "abort" ->
         us' = [us EXCEPT !.error = e.data]
    [] OTHER -> UNCHANGED us

(* The update.c handler http_ota_event_handler calls for the event e,    *)
(* but for FINISHED.  The ABORT error is cast to uint8_t.                 *)
OnEvent(e) ==
  CASE e.id = "validated" ->
         us' = [us EXCEPT !.phase = UPDATE_PHASE_STARTED, !.ver = e.data,
                          !.progress = 0, !.error = UPDATE_ERROR_NONE]
    [] e.id = "transfer" /\ e.data # us.progress ->
         us' = [us EXCEPT !.progress = e.data, !.phase = UPDATE_PHASE_TRANSFER]
    [] e.id = "downloaded" ->
         us' = [us EXCEPT !.phase = UPDATE_PHASE_DOWNLOADED, !.progress = 100]
    [] e.id = "verified" ->
         us' = [us EXCEPT !.phase = UPDATE_PHASE_READY]
    [] e.id = "abort" ->
         us' = [us EXCEPT !.error = e.data % 256]
    [] OTHER -> UNCHANGED us

(* The event loop task takes the oldest OTA event. *)
HandleEvent ==
  /\ evq # <<>>
  /\ Head(evq).id # "finished"
  /\ evq' = Tail(evq)
  /\ OnEvent(Head(evq))
  /\ UNCHANGED <<otaQ, ticks, ms, hnd, ctx, progressLast, bootSet, freedUse, installed>>
  /\ UNCHANGED <<rx, rxpc, restartTimer>>

(* EM_HTPP_OTA_EVENT_FINISHED: update_apply(0). *)
HandleFinished ==
  /\ evq # <<>>
  /\ Head(evq).id = "finished"
  /\ IF RestartsNow(0)
     THEN esp_restart(IF rxpc = "submitted" THEN rx + 1 ELSE rx)
     ELSE /\ Apply(0)
          /\ evq' = Tail(evq)
          /\ UNCHANGED <<otaQ, ticks, ms, hnd, ctx, progressLast, bootSet, freedUse, installed>>
          /\ UNCHANGED <<rx, rxpc>>

Next ==
  \/ OtaStep /\ UNCHANGED uVars
  \/ UpdateStart \/ UpdateStartDone \/ UpdateInstall
  \/ HandleEvent \/ HandleFinished
  \/ UpdateApplyDelayed

(* Each task runs when it is ready. *)
Fairness ==
  /\ WF_vars(OtaStep /\ UNCHANGED uVars)
  /\ WF_vars(UpdateStart) /\ WF_vars(UpdateStartDone) /\ WF_vars(UpdateInstall)
  /\ WF_vars(HandleEvent) /\ WF_vars(HandleFinished)
  /\ WF_vars(UpdateApplyDelayed)

Spec == UInit /\ [][Next]_vars /\ Fairness

UTypeOK ==
  /\ OTypeOK
  /\ us.phase \in UPDATE_PHASE_IDLE..UPDATE_PHASE_APPLY
  /\ us.progress \in 0..100
  /\ us.error \in 0..255
  /\ us.policy \in {"immediate", "delayed"}
  /\ rx \in 1..Len(ServerMsgs) + 1
  /\ rxpc \in {"idle", "submitted"}
  /\ restartTimer \in BOOLEAN

-----------------------------------------------------------------------------
(* The asserts at the top of EM_HTTP_OTA_EVENT_BEGIN: whenever the OTA   *)
(* task is about to run BEGIN, both handles are NULL.  The handles a      *)
(* finished update leaves behind are only cleared by the abort in the     *)
(* restart branch that every new OTA_START goes through.                  *)
BeginAssertsHold == (ms = "begin" /\ ticks = "zero") => hnd = NoHandles

(* The OTA task does not poll forever: once handle_ota_process returns 0, *)
(* the task eventually blocks on ota_q again (an update finishes or       *)
(* fails, or the device restarts).                                         *)
OtaSettles == ticks = "zero" ~> ticks = "max"

(* An image esp_https_ota_finish has made the boot image while the        *)
(* policy is immediate eventually runs: the FINISHED event handler        *)
(* restarts the device.                                                    *)
ImmediateUpdateRuns == (bootSet /\ us.policy = "immediate") ~> installed = ImageVer

(* update_in_progress() is true while the OTA task holds a live handle,  *)
(* so the 3X button does not start BLE on the heap the update needs       *)
(* (sys_evt.c:53).                                                         *)
HeapGuardHolds == (hnd.https = "live" \/ hnd.decrypt = "live") => us.phase # UPDATE_PHASE_IDLE

(* No released ESP-IDF handle is ever passed to ESP-IDF again. *)
NoFreedHandleUse == ~freedUse
=============================================================================
