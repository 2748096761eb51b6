----------------------------- MODULE LedScene -----------------------------
(***************************************************************************)
(* em_led_scene (scene.c) on em_scheduler.                                 *)
(*                                                                         *)
(* scene_change_handler runs on the task that raised the scene: the event  *)
(* loop task for the events of led_scene_evt.c, the dispatcher for an      *)
(* IDENTIFY message. It writes active_scenes without a lock and, for the   *)
(* blink scenes and SCENE_OFF, cancels change_led_state and sets it again. *)
(* change_led_state is a scheduler callback: it runs on the timer service  *)
(* task, reads and writes the same active_scenes, drives the LED and       *)
(* schedules itself for the next toggle.                                   *)
(*                                                                         *)
(* A handler runs atomically between its scheduler calls. change_led_state *)
(* takes two steps: the decrement of remaining_time, the test of a toggle  *)
(* count and the scene's colour and brightness, then the decrement of that *)
(* count, on() or off() and its own scheduler_set_callback; a handler may  *)
(* run between them. restore_bg_color takes two steps too: set_color, then *)
(* set_brightness and on(). led_if is one                                  *)
(* of the two drivers of the component, pwm_rgb.c or ws2812_rgb.c, which  *)
(* keep a colour and a brightness and compute the output when on() is     *)
(* called. Times are in abstract units.                                    *)
(***************************************************************************)
EXTENDS Scheduler

CONSTANTS
  Led,            \* change_led_state, a member of Cbs
  Scenes,         \* [Tasks -> Seq(scene)]: the scenes each task raises,
                  \* after the calls of its program
  BlinkSeparation,\* SCENE_BLINK_SEPARATION_MS
  CancelRace,     \* a cancel may be taken while an expired timer waits
                  \* for the mutex in callback_wrapper
  Drivers,        \* the led_if builds: "pwm_rgb", "ws2812_rgb"
  PwmChannels,    \* CONFIG_EM_LED_PWM_CHANNELS
  BrightnessDivider \* CONFIG_EM_LED_BRIGHTNESS_DIVIDER

ASSUME /\ Drivers \subseteq {"pwm_rgb", "ws2812_rgb"}
       /\ PwmChannels \in 1 .. 3
       /\ BrightnessDivider \in Nat \ {0}

RGB_LEDS_OFF == 0

(* scene_t: .type, .color, .brightness, .blink.{t_on, t_off, repeats,    *)
(* period}; colours are the 0xRRGGBB values of rgb_color_t.              *)
NoScene == [type |-> "off", color |-> RGB_LEDS_OFF, brightness |-> 0,
            t_on |-> 0, t_off |-> 0, repeats |-> 0, period |-> 0]
Cancelling == {"blink_once", "blink_periodic", "off"}

(* The colour components of priv_led.h. *)
RED_COLOR_MASK(c) == (c \div 65536) % 256
GREEN_COLOR_MASK(c) == (c \div 256) % 256
BLUE_COLOR_MASK(c) == c % 256

VARIABLES
  rq,       \* active_scenes.rq_led_on
  bg,       \* active_scenes.bg_color and .bg_brightness
  once,     \* active_scenes.once: .scene, .toggles
  periodic, \* active_scenes.periodic: .scene, .toggles, .time
  drv,      \* the driver's statics: .kind (the build), .color, .brightness
  out,      \* the output: duty of the red, green and blue channels
  param,    \* msg.param given with change_led_state
  wparam,   \* the param callback_wrapper copied for the running callback
  sstep,    \* next scene of each task
  sphase,   \* "cancelled": a handler has cancelled and not yet set
  lstep,    \* change_led_state between its two steps: the branch taken
            \* ("none" between calls) and the next_change_time computed
  rst       \* "color": the process is inside restore_bg_color, after set_color

svars == <<rq, bg, once, periodic, drv, out, param, wparam, sstep, sphase, lstep, rst>>
lvars == <<vars, svars>>

(* led_if is a table of the driver's functions; each call below goes to *)
(* the driver of the build, drv.kind.                                   *)

(* set_brightness of each driver: a request of 0 or above 100 is refused *)
(* and leaves the brightness as it was.                                  *)
pwm_rgb_set_brightness(b, req) ==
  IF req = 0 \/ req > 100 THEN b ELSE req \div BrightnessDivider
ws2812_rgb_set_brightness(b, req) ==
  IF req = 0 \/ req > 100 THEN b ELSE req \div BrightnessDivider
set_brightness(d, req) ==
  IF d.kind = "pwm_rgb" THEN pwm_rgb_set_brightness(d.brightness, req)
                        ELSE ws2812_rgb_set_brightness(d.brightness, req)

(* set_color of each driver stores the colour. *)
pwm_rgb_set_color(d, c) == [d EXCEPT !.color = c]
ws2812_rgb_set_color(d, c) == [d EXCEPT !.color = c]

set_color(d, c) ==
  IF d.kind = "pwm_rgb" THEN pwm_rgb_set_color(d, c) ELSE ws2812_rgb_set_color(d, c)

(* led_if.set_color, then led_if.set_brightness, as change_led_state     *)
(* calls them.                                                           *)
set_color_brightness(d, c, br) ==
  [set_color(d, c) EXCEPT !.brightness = set_brightness(set_color(d, c), br)]

Duty(mask, b) == (mask * b) \div 100
Dark == [r |-> 0, g |-> 0, b |-> 0]

(* pwm_rgb rgb_on: one LEDC duty per configured channel (R, then B, then *)
(* G); rgb_off writes 0 to each.                                         *)
pwm_rgb_on(d) ==
  [r |-> Duty(RED_COLOR_MASK(d.color), d.brightness),
   g |-> IF PwmChannels > 2 THEN Duty(GREEN_COLOR_MASK(d.color), d.brightness) ELSE 0,
   b |-> IF PwmChannels > 1 THEN Duty(BLUE_COLOR_MASK(d.color), d.brightness) ELSE 0]
pwm_rgb_off == Dark

(* ws2812_rgb rgb_on: the strip cleared for RGB_LEDS_OFF, else the pixel  *)
(* set; rgb_off clears the strip.                                        *)
ws2812_rgb_on(d) ==
  IF d.color = RGB_LEDS_OFF
  THEN Dark
  ELSE [r |-> Duty(RED_COLOR_MASK(d.color), d.brightness),
        g |-> Duty(GREEN_COLOR_MASK(d.color), d.brightness),
        b |-> Duty(BLUE_COLOR_MASK(d.color), d.brightness)]
ws2812_rgb_off == Dark

rgb_on(d) == IF d.kind = "pwm_rgb" THEN pwm_rgb_on(d) ELSE ws2812_rgb_on(d)
rgb_off(d) == IF d.kind = "pwm_rgb" THEN pwm_rgb_off ELSE ws2812_rgb_off

(* What the LED shows. *)
Shown == out

(* remaining_toggles are uint32_t: 0 - 1 is UINT32_MAX = 2^32 - 1.  TLC's *)
(* integers end at 2^31 - 1, which stands for UINT32_MAX here: both are  *)
(* far above any 2 * repeats.                                            *)
UINT32_MAX == 2147483647
Dec32(n) == IF n = 0 THEN UINT32_MAX ELSE n - 1

LTypeOK ==
  /\ TypeOK
  /\ rq \in BOOLEAN
  /\ once.toggles \in 0 .. UINT32_MAX
  /\ periodic.toggles \in 0 .. UINT32_MAX /\ periodic.time \in Int
  /\ bg.brightness \in 0 .. 255
  /\ drv \in [kind : Drivers, color : Nat, brightness : 0 .. 100]
  /\ out \in [{"r", "g", "b"} -> 0 .. 255]
  /\ sphase \in [Tasks -> {"none", "cancelled"}]
  /\ lstep.br \in {"none", "once", "periodic"} /\ lstep.next \in Nat
  /\ rst \in [Procs -> {"none", "color"}]

LInit ==
  /\ SInit
  /\ rq = FALSE
  /\ bg = [color |-> RGB_LEDS_OFF, brightness |-> 0]
  /\ once = [scene |-> NoScene, toggles |-> 0]
  /\ periodic = [scene |-> NoScene, toggles |-> 0, time |-> 0]
  /\ drv \in [kind : Drivers, color : {RGB_LEDS_OFF}, brightness : {100}]
  /\ out = Dark
  /\ param = 0
  /\ wparam = 0
  /\ sstep = [t \in Tasks |-> 1]
  /\ sphase = [t \in Tasks |-> "none"]
  /\ lstep = [br |-> "none", next |-> 0]
  /\ rst = [p \in Procs |-> "none"]

SchedOthers == <<entry, active, tq, mtx, step, pend, widx, wcb, wret, resched, want, crashed>>

(* restore_bg_color on process p, first step: led_if.set_color(c), c the  *)
(* bg_color as the caller left it.                                        *)
restore_bg_color(p, c) ==
  /\ drv' = set_color(drv, c)
  /\ rst' = [rst EXCEPT ![p] = "color"]
  /\ UNCHANGED out

(* restore_bg_color, second step: set_brightness with the bg_brightness  *)
(* read now, and on(). change_led_state then returns to callback_wrapper. *)
RestoreFinish(p) ==
  /\ ~crashed /\ rst[p] = "color"
  /\ \E d \in {[drv EXCEPT !.brightness = set_brightness(drv, bg.brightness)]} :
       drv' = d /\ out' = rgb_on(d)
  /\ rst' = [rst EXCEPT ![p] = "none"]
  /\ pc' = IF p = TmrSvc THEN [pc EXCEPT ![TmrSvc] = wret] ELSE pc
  /\ UNCHANGED <<SchedOthers, rq, bg, once, periodic, param, wparam, sstep, sphase, lstep>>

(* change_led_state calls scheduler_set_callback on itself with the next *)
(* change time as delay and param.                                       *)
SetLed(next) ==
  /\ scheduler_set_callback(TmrSvc, Led)
  /\ param' = next
  /\ pc' = [pc EXCEPT ![TmrSvc] = "cbset"]
  /\ UNCHANGED <<active, tq, step, widx, wcb, wret, resched>>

(* remaining_time after the decrement at the top of change_led_state. *)
Time1 == IF periodic.time > 0 THEN periodic.time - wparam ELSE periodic.time

(* change_led_state, run by callback_wrapper on the timer service task    *)
(* of a device that has not aborted, at its first step.                  *)
LedCb ==
  /\ ~crashed /\ pc[TmrSvc] = "cb" /\ wcb = Led
  /\ lstep.br = "none" /\ rst[TmrSvc] = "none"

(* No toggles left: restore_bg_color, then return. *)
ChangeLedIdle ==
  /\ once.toggles = 0 /\ periodic.toggles = 0
  /\ periodic' = [periodic EXCEPT !.time = Time1]
  /\ restore_bg_color(TmrSvc, bg.color)
  /\ UNCHANGED <<vars, rq, bg, once, param, wparam, sstep, sphase, lstep>>

(* A blink-once toggle, up to the decrement: the once colour and         *)
(* brightness, t_on or t_off by rq_led_on.                               *)
ChangeLedOnce ==
  /\ once.toggles > 0
  /\ periodic' = [periodic EXCEPT !.time = Time1]
  /\ drv' = set_color_brightness(drv, once.scene.color, once.scene.brightness)
  /\ lstep' = [br |-> "once", next |-> IF rq THEN once.scene.t_on ELSE once.scene.t_off]
  /\ UNCHANGED <<vars, rq, bg, once, out, param, wparam, sstep, sphase, rst>>

(* A periodic scene waiting out the rest of its period. *)
ChangeLedWait ==
  /\ once.toggles = 0 /\ periodic.toggles > 0
  /\ Time1 > 0
  /\ periodic' = [periodic EXCEPT !.time = Time1]
  /\ SetLed(Time1)
  /\ UNCHANGED <<rq, bg, once, drv, out, wparam, sstep, sphase, lstep, rst>>

(* A periodic toggle, up to the decrement. *)
ChangeLedPeriodic ==
  /\ once.toggles = 0 /\ periodic.toggles > 0
  /\ Time1 <= 0
  /\ periodic' = [periodic EXCEPT !.time = Time1]
  /\ drv' = set_color_brightness(drv, periodic.scene.color, periodic.scene.brightness)
  /\ lstep' = [br |-> "periodic",
               next |-> IF rq THEN periodic.scene.t_on ELSE periodic.scene.t_off]
  /\ UNCHANGED <<vars, rq, bg, once, out, param, wparam, sstep, sphase, rst>>

(* The end of a toggle: on() or off() by rq_led_on as it is now, flip it, *)
(* and schedule the next change.                                          *)
Toggle ==
  /\ out' = IF rq THEN rgb_on(drv) ELSE rgb_off(drv)
  /\ rq' = ~rq
  /\ SetLed(lstep.next)
  /\ lstep' = [br |-> "none", next |-> 0]

(* Mutant: remaining_toggles as a signed int. *)
CommitOnce_signed ==
  /\ lstep.br = "once"
  /\ once' = [once EXCEPT !.toggles = @ - 1]
  /\ Toggle
  /\ UNCHANGED <<bg, periodic, drv, wparam, sstep, sphase, rst>>

(* --remaining_toggles of the once scene, read again after the led_if    *)
(* calls: a clear since the test makes it wrap to UINT32_MAX.            *)
CommitOnce ==
  /\ lstep.br = "once"
  /\ once' = [once EXCEPT !.toggles = Dec32(@)]
  /\ Toggle
  /\ UNCHANGED <<bg, periodic, drv, wparam, sstep, sphase, rst>>

(* --remaining_toggles of the periodic scene; after the last toggle of a *)
(* sequence the toggles are reloaded and the period (read now) plus this *)
(* toggle's time is left to wait.                                        *)
CommitPeriodic ==
  /\ lstep.br = "periodic"
  /\ \E left \in {Dec32(periodic.toggles)} :
       periodic' =
         IF left = 0
         THEN [periodic EXCEPT !.time = periodic.scene.period + lstep.next,
                               !.toggles = 2 * periodic.scene.repeats]
         ELSE [periodic EXCEPT !.toggles = left]
  /\ Toggle
  /\ UNCHANGED <<bg, once, drv, wparam, sstep, sphase, rst>>

LedBusy == ~crashed /\ pc[TmrSvc] = "cb" /\ wcb = Led

change_led_state ==
  \/ LedCb /\ ChangeLedOnce
  \/ LedCb /\ ChangeLedWait
  \/ LedCb /\ ChangeLedPeriodic
  \/ LedCb /\ ChangeLedIdle
  \/ LedBusy /\ CommitOnce
  \/ LedBusy /\ CommitPeriodic

(* The asserts of on_blink_once and on_blink_periodic. The product of    *)
(* the periodic check is a uint32_t; it wraps only past 2^32, beyond the  *)
(* scenes of the firmware (an IDENTIFY count is a uint8_t).              *)
BlinkAsserts(s) ==
  /\ s.t_on > 0 /\ s.t_off > 0 /\ s.repeats > 0
  /\ s.type = "blink_periodic" => s.repeats * (s.t_on + s.t_off) < s.period
  /\ s.color # RGB_LEDS_OFF

(* scene_change_handler for the scenes that make no scheduler call, on  *)
(* task t.                                                               *)
SceneInline(t, s) ==
  \/ /\ s.type = "const_bg"
     /\ bg' = [color |-> s.color, brightness |-> s.brightness]
     /\ IF periodic.toggles = 0 /\ once.toggles = 0
        THEN restore_bg_color(t, s.color)
        ELSE UNCHANGED <<drv, out, rst>>
     /\ UNCHANGED <<once, periodic>>
  \/ /\ s.type = "clear_once"
     /\ once' = [once EXCEPT !.toggles = 0]
     /\ restore_bg_color(t, bg.color)
     /\ UNCHANGED <<bg, periodic>>
  \/ /\ s.type = "clear_periodic"
     /\ periodic' = [periodic EXCEPT !.scene.period = 0, !.toggles = 0]
     /\ restore_bg_color(t, bg.color)
     /\ UNCHANGED <<bg, once>>
  \/ /\ s.type = "clear_all"
     /\ periodic' = [periodic EXCEPT !.scene.period = 0, !.toggles = 0]
     /\ once' = [once EXCEPT !.toggles = 0]
     /\ restore_bg_color(t, bg.color)
     /\ UNCHANGED bg
  \/ /\ s.type \notin Cancelling \cup {"const_bg", "clear_once", "clear_periodic", "clear_all"}
     /\ UNCHANGED <<bg, once, periodic, drv, out, rst>>

(* The next scene of task t, once its program's calls are made and its  *)
(* last restore_bg_color has returned.                                  *)
SceneReady(t) ==
  /\ pc[t] = "idle"
  /\ step[t] > Len(Programs[t])
  /\ sstep[t] <= Len(Scenes[t])
  /\ rst[t] = "none"

(* A scene without scheduler calls, up to its restore_bg_color's         *)
(* set_color.                                                            *)
SceneStep(t) ==
  /\ SceneReady(t)
  /\ sphase[t] = "none"
  /\ Scenes[t][sstep[t]].type \notin Cancelling
  /\ SceneInline(t, Scenes[t][sstep[t]])
  /\ sstep' = [sstep EXCEPT ![t] = @ + 1]
  /\ UNCHANGED <<vars, rq, param, wparam, sphase, lstep>>

(* A blink scene or SCENE_OFF up to its scheduler_cancel_callback, the   *)
(* asserts of the blink scenes first. Unless CancelRace, the cancel is   *)
(* not taken while an expired timer waits in callback_wrapper.           *)
SceneCancel(t) ==
  /\ SceneReady(t)
  /\ sphase[t] = "none"
  /\ \E s \in {Scenes[t][sstep[t]]} :
       /\ s.type \in Cancelling
       /\ CancelRace \/ pc[TmrSvc] # "wrap"
       /\ IF s.type = "off" \/ BlinkAsserts(s)
          THEN /\ scheduler_cancel_callback(t, Led)
               /\ pc' = [pc EXCEPT ![t] = "call"]
               /\ sphase' = [sphase EXCEPT ![t] = "cancelled"]
          ELSE crashed' = TRUE /\ UNCHANGED <<entry, mtx, pend, want, pc, sphase>>
  /\ UNCHANGED <<active, tq, step, widx, wcb, wret, resched,
                 rq, bg, once, periodic, drv, out, param, wparam, sstep, lstep, rst>>

(* on_blink_once after its cancel: the scene and 2 * repeats toggles,    *)
(* led off, and change_led_state after the separation.                   *)
on_blink_once(t, s) ==
  /\ s.type = "blink_once"
  /\ once' = [scene |-> s, toggles |-> 2 * s.repeats]
  /\ rq' = TRUE
  /\ out' = rgb_off(drv) /\ UNCHANGED drv
  /\ scheduler_set_callback(t, Led)
  /\ param' = BlinkSeparation
  /\ pc' = [pc EXCEPT ![t] = "call"]
  /\ UNCHANGED <<active, tq, step, widx, wcb, wret, resched, bg, periodic, wparam>>

(* on_blink_periodic after its cancel: the separation is left to wait    *)
(* before the first toggle.                                              *)
on_blink_periodic(t, s) ==
  /\ s.type = "blink_periodic"
  /\ periodic' = [scene |-> s, toggles |-> 2 * s.repeats, time |-> BlinkSeparation]
  /\ rq' = TRUE
  /\ out' = rgb_off(drv) /\ UNCHANGED drv
  /\ scheduler_set_callback(t, Led)
  /\ param' = BlinkSeparation
  /\ pc' = [pc EXCEPT ![t] = "call"]
  /\ UNCHANGED <<active, tq, step, widx, wcb, wret, resched, bg, once, wparam>>

(* SCENE_OFF after its cancel: background off, no toggles, led off. *)
scene_off(s) ==
  /\ s.type = "off"
  /\ bg' = [color |-> RGB_LEDS_OFF, brightness |-> 0]
  /\ once' = [once EXCEPT !.toggles = 0]
  /\ periodic' = [periodic EXCEPT !.toggles = 0]
  /\ out' = rgb_off(drv) /\ UNCHANGED drv
  /\ UNCHANGED <<vars, rq, param, wparam>>

(* The rest of a cancelling scene, once its cancel has returned. *)
SceneFinish(t) ==
  /\ SceneReady(t)
  /\ sphase[t] = "cancelled"
  /\ \E s \in {Scenes[t][sstep[t]]} :
       on_blink_once(t, s) \/ on_blink_periodic(t, s) \/ scene_off(s)
  /\ sphase' = [sphase EXCEPT ![t] = "none"]
  /\ sstep' = [sstep EXCEPT ![t] = @ + 1]
  /\ UNCHANGED <<lstep, rst>>

(* event_handler: every scene of the list registered for the event, in  *)
(* list order.                                                          *)
event_handler(list, e) ==
  LET hits == SelectSeq(list, LAMBDA x : x.event = e)
  IN [k \in DOMAIN hits |-> hits[k].scene]

(* The scheduler's own steps leave active_scenes alone; callback_wrapper *)
(* copies msg.param with the callback. Nothing runs after an abort.      *)
Live == ~crashed

Wrapper ==
  /\ callback_wrapper
  /\ wparam' = param
  /\ UNCHANGED <<rq, bg, once, periodic, drv, out, param, sstep, sphase, lstep, rst>>

LNext ==
  \/ \E t \in Tasks : Live /\ TaskCall(t) /\ UNCHANGED svars
  \/ \E p \in Procs : Live /\ TimerSend(p) /\ UNCHANGED svars
  \/ \E p \in Procs : Live /\ Give(p) /\ UNCHANGED svars
  \/ \E i \in Idx : Live /\ TimerExpire(i) /\ UNCHANGED svars
  \/ Live /\ NoExpiry /\ UNCHANGED svars
  \/ Live /\ QueueEmpty /\ UNCHANGED svars
  \/ Live /\ ApplyCmd /\ UNCHANGED svars
  \/ Live /\ CallbackReturn /\ wcb # Led /\ UNCHANGED svars
  \/ Live /\ Wrapper
  \/ change_led_state
  \/ \E p \in Procs : RestoreFinish(p)
  \/ \E t \in Tasks : Live /\ SceneStep(t)
  \/ \E t \in Tasks : Live /\ SceneCancel(t)
  \/ \E t \in Tasks : Live /\ SceneFinish(t)

(* As in Scheduler, with every timer's expiry fair on its own, for a     *)
(* periodic scene keeps the LED timer expiring for ever; and a task      *)
(* finishes a scene handler it has begun: the timer service and the      *)
(* handler's task are ready tasks.                                       *)
LFairness ==
  /\ SF_lvars(\E p \in Procs : (TimerSend(p) \/ Give(p)) /\ UNCHANGED svars)
  /\ \A i \in Idx : SF_lvars(TimerExpire(i) /\ UNCHANGED svars)
  /\ SF_lvars(Wrapper)
  /\ WF_lvars(((NoExpiry \/ QueueEmpty \/ ApplyCmd \/ (CallbackReturn /\ wcb # Led))
               /\ UNCHANGED svars) \/ change_led_state)
  /\ WF_lvars(\E t \in Tasks : SceneFinish(t))
  /\ WF_lvars(\E p \in Procs : RestoreFinish(p))

LSpec == LInit /\ [][LNext]_lvars /\ LFairness
-----------------------------------------------------------------------------
(* A scene's remaining toggles never exceed the 2 * repeats its handler *)
(* set: change_led_state tests remaining_toggles, calls led_if, and only  *)
(* then decrements it, so a SCENE_CLEAR_ONCE, CLEAR_PERIODIC, CLEAR_ALL   *)
(* or SCENE_OFF handled on the event loop or the dispatcher in between   *)
(* must not leave the counter to wrap (the LED would then blink for      *)
(* 2^32 toggles).                                                        *)
TogglesWithinScene ==
  /\ once.toggles <= 2 * once.scene.repeats
  /\ periodic.toggles <= 2 * periodic.scene.repeats

(* While a periodic scene waits out its period between two blink        *)
(* sequences, with no blink-once pending, the LED is not lit in the     *)
(* periodic scene's colour: change_led_state ends each sequence on an   *)
(* off toggle (rq_led_on is TRUE at the first toggle of a sequence).    *)
PauseIsDark ==
  (/\ \A t \in Tasks : sphase[t] = "none"
   /\ once.toggles = 0
   /\ periodic.toggles > 0
   /\ periodic.toggles = 2 * periodic.scene.repeats
   /\ periodic.time > 0)
  => Shown # rgb_on(set_color_brightness(drv, periodic.scene.color, periodic.scene.brightness))
====
