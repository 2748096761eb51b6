---------------------------- MODULE MC_LedScene ----------------------------
(* LedScene with the scene table of led_scene_evt.c.                       *)
EXTENDS LedScene

CONSTANTS Reboot, EvtLoop, RxTask

(* rgb_color_t of led_scene.h: 0xFF0000, 0x0000FF, 0x800080, 0x2000FF,  *)
(* 0xFFC0CB.                                                            *)
RGB_LED_RED == 16711680
RGB_LED_BLUE == 255
RGB_LED_PURPLE == 8388736
RGB_LED_LAVENDER == 2097407
RGB_LED_PINK == 16761035

(* The scene_t initialisers of led_scene_evt.c; times are in ms. *)
SceneOf(type, c, br, on, off, rep, p) ==
  [type |-> type, color |-> c, brightness |-> br, t_on |-> on, t_off |-> off,
   repeats |-> rep, period |-> p]
Once(c, br, on, off, rep) == SceneOf("blink_once", c, br, on, off, rep, 0)
Clear(type) == SceneOf(type, RGB_LEDS_OFF, 0, 0, 0, 0, 0)

(* scenes_list[] of led_scene_evt.c, in order. *)
SceneList ==
  << [event |-> "ble_connected", scene |-> Once(RGB_LED_BLUE, 70, 300, 400, 800)],
     [event |-> "ble_deinit", scene |-> Clear("clear_once")],
     [event |-> "tcp_online", scene |-> Clear("clear_all")],
     [event |-> "tcp_online", scene |-> Once(RGB_LED_LAVENDER, 100, 1000, 200, 1)],
     [event |-> "tcp_conn_error", scene |-> Once(RGB_LED_RED, 100, 200, 200, 3)],
     [event |-> "tcp_rx_error", scene |-> Once(RGB_LED_RED, 100, 200, 200, 1)],
     [event |-> "tcp_tx_error", scene |-> Once(RGB_LED_RED, 100, 200, 200, 1)],
     [event |-> "not_provisioned", scene |-> Once(RGB_LED_BLUE, 100, 300, 400, 65535)],
     [event |-> "provisioned", scene |-> Clear("clear_once")],
     [event |-> "provisioned", scene |-> Once(RGB_LED_PURPLE, 50, 100, 500, 65535)],
     [event |-> "sta_connected", scene |-> Clear("clear_all")],
     [event |-> "sta_connected", scene |-> Once(RGB_LED_PURPLE, 100, 1000, 200, 1)],
     [event |-> "ota_abort", scene |-> Once(RGB_LED_RED, 100, 200, 200, 2)],
     [event |-> "ota_transfer", scene |-> Once(RGB_LED_LAVENDER, 50, 100, 200, 2)],
     [event |-> "ota_verified", scene |-> Once(RGB_LED_LAVENDER, 50, 100, 200, 1)],
     [event |-> "button_3x", scene |-> Once(RGB_LED_BLUE, 100, 300, 400, 800)],
     [event |-> "button_3x_long", scene |-> Once(RGB_LED_PURPLE, 70, 200, 200, 4)] >>

(* scene_type_t from SCENE_UNSET (0) to SCENE_OFF (7). *)
SceneType(n) ==
  IF n \in 1 .. 7
  THEN <<"const_bg", "blink_once", "blink_periodic", "clear_once",
         "clear_periodic", "clear_all", "off">>[n]
  ELSE "unset"

(* led_evt_identify_msg_handler: type mode + 1, pink at 100%, 150/150 ms, *)
(* count repeats, a 5000 ms period.                                      *)
Identify(mode, count) ==
  SceneOf(SceneType(mode + 1), RGB_LED_PINK, 100, 150, 150, count, 5000)

(* The scenes of a sequence of events, each through event_handler. *)
EventScenes(evts) == FlattenSeq([k \in DOMAIN evts |-> event_handler(SceneList, evts[k])])

(* The event loop sees a BLE deinit and a verified OTA image (a blink at *)
(* half brightness); the dispatcher (rx task) handles a reboot request  *)
(* and then IDENTIFY messages: a pink background, a periodic blink, a   *)
(* periodic clear, a clear of all, SCENE_OFF, and a mode past SCENE_OFF.*)
MC_Programs == (EvtLoop :> << >>) @@ (RxTask :> << <<"set", Reboot>> >>)
MC_Scenes ==
  (EvtLoop :> EventScenes(<<"ble_deinit", "ota_verified">>)) @@
  (RxTask :> <<Identify(0, 0), Identify(2, 1), Identify(4, 0), Identify(5, 0),
             Identify(6, 0), Identify(8, 0)>>)

(* A blink-once scene interrupts a periodic IDENTIFY. *)
MC_PhaseScenes ==
  (EvtLoop :> EventScenes(<<"tcp_rx_error">>)) @@
  (RxTask :> <<Identify(2, 1)>>)

(* IDENTIFY with mode 1 and count 0: a blink-once scene of no repeats. *)
MC_IdentifyZero ==
  (EvtLoop :> << >>) @@ (RxTask :> <<Identify(1, 0)>>)

(* The event loop sees a TCP connection error and the link coming back *)
(* while an IDENTIFY blinks periodically.                              *)
MC_BusyScenes ==
  (EvtLoop :> EventScenes(<<"tcp_conn_error", "tcp_online">>)) @@
  (RxTask :> <<Identify(2, 1)>>)
====
