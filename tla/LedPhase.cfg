\* A TCP rx error blinks red once while an IDENTIFY blinks pink
\* periodically.
CONSTANTS
  Led = Led
  Reboot = Reboot
  EvtLoop = EvtLoop
  RxTask = RxTask
  NoCb = NoCb
  Cbs = {Led, Reboot}
  Tasks = {EvtLoop, RxTask}
  Programs <- MC_Programs
  Scenes <- MC_PhaseScenes
  SelfResched = {}
  MaxResched = 0
  MaxEntries = 2
  TimerQueueLen = 10
  Stalls = FALSE
  CancelRace = FALSE
  BlinkSeparation = 200
  Drivers = {"pwm_rgb", "ws2812_rgb"}
  PwmChannels = 3
  BrightnessDivider = 1
SPECIFICATION LSpec
CHECK_DEADLOCK FALSE
INVARIANT PauseIsDark
