\* A TCP connection error and the link coming back, while an IDENTIFY
\* blinks periodically, on the default ten-command timer queue.
CONSTANTS
  Led = Led
  Reboot = Reboot
  EvtLoop = EvtLoop
  RxTask = RxTask
  NoCb = NoCb
  Cbs = {Led, Reboot}
  Tasks = {EvtLoop, RxTask}
  Programs <- MC_Programs
  Scenes <- MC_BusyScenes
  SelfResched = {}
  MaxResched = 0
  MaxEntries = 2
  TimerQueueLen = 10
  Stalls = FALSE
  CancelRace = FALSE
  BlinkSeparation = 200
  Drivers = {"pwm_rgb", "ws2812_rgb"}
  PwmChannels = 3
  BrightnessDivider = 1
SPECIFICATION LSpec
INVARIANT NeverAborts
