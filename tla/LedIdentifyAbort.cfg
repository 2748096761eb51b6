\* The server sends IDENTIFY with mode 1 (blink once) and count 0.
CONSTANTS
  Led = Led
  Reboot = Reboot
  EvtLoop = EvtLoop
  RxTask = RxTask
  NoCb = NoCb
  Cbs = {Led, Reboot}
  Tasks = {EvtLoop, RxTask}
  Programs <- MC_Programs
  Scenes <- MC_IdentifyZero
  SelfResched = {}
  MaxResched = 0
  MaxEntries = 2
  TimerQueueLen = 10
  Stalls = FALSE
  CancelRace = FALSE
  BlinkSeparation = 200
  Drivers = {"pwm_rgb", "ws2812_rgb"}
  PwmChannels = 3
  BrightnessDivider = 1
SPECIFICATION LSpec
INVARIANT NeverAborts
