---------------------------- MODULE MC_Scheduler ----------------------------
(* Scheduler with callers of the firmware as task programs.                *)
EXTENDS Scheduler

CONSTANTS Led, Reboot, Dump, Prov, EvtLoop, RxTask, StorageTask

(* on_blink_once (scene.c) on the event loop cancels change_led_state and *)
(* sets it again; change_led_state then reschedules itself. The rx task's *)
(* reboot handler (dispatcher.c) sets delayed_esp_reboot. Two storage     *)
(* changes call section_dump_request, whose set of dump_check is a        *)
(* debounce that reschedules an armed entry.                              *)
MC_Programs ==
  (EvtLoop :> << <<"cancel", Led>>, <<"set", Led>> >>) @@
  (RxTask :> << <<"set", Reboot>> >>) @@
  (StorageTask :> << <<"set", Dump>>, <<"set", Dump>> >>)

(* ble_prov_svc.c: em_ble_disconn_hnd sets prov_stop_wrapper, and         *)
(* em_ble_conn_hnd, when a client connects again, cancels it.             *)
MC_BleReconnect ==
  (EvtLoop :> << <<"set", Prov>>, <<"cancel", Prov>> >>) @@
  (RxTask :> << >>) @@
  (StorageTask :> << >>)
=============================================================================
