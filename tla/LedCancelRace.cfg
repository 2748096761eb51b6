\* The LED scenes of LedScene.cfg with a cancel allowed while an expired
\* timer waits for the mutex in callback_wrapper.
CONSTANTS
  Led = Led
  Reboot = Reboot
  EvtLoop = EvtLoop
  RxTask = RxTask
  NoCb = NoCb
  Cbs = {Led, Reboot}
  Tasks = {EvtLoop, RxTask}
  Programs <- MC_Programs
  Scenes <- MC_Scenes
  SelfResched = {}
  MaxResched = 0
  MaxEntries = 2
  TimerQueueLen = 10
  Stalls = FALSE
  CancelRace = TRUE
  BlinkSeparation = 200
  Drivers = {"pwm_rgb", "ws2812_rgb"}
  PwmChannels = 3
  BrightnessDivider = 1
SPECIFICATION LSpec
CHECK_DEADLOCK FALSE
INVARIANT NeverAborts
