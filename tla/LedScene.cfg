\* The LED scenes of led_scene_evt.c and IDENTIFY messages of every mode,
\* on em_scheduler with a reboot request beside them.  States past a
\* toggle counter wrap (LedToggleWrap.cfg) are not expanded.
CONSTANTS
  Led = Led
  Reboot = Reboot
  EvtLoop = EvtLoop
  RxTask = RxTask
  NoCb = NoCb
  Cbs = {Led, Reboot}
  Tasks = {EvtLoop, RxTask}
  Programs <- MC_Programs
  Scenes <- MC_Scenes
  SelfResched = {}
  MaxResched = 0
  MaxEntries = 2
  TimerQueueLen = 10
  Stalls = FALSE
  CancelRace = FALSE
  BlinkSeparation = 200
  Drivers = {"pwm_rgb", "ws2812_rgb"}
  PwmChannels = 3
  BrightnessDivider = 1
SPECIFICATION LSpec
CONSTRAINT TogglesWithinScene
INVARIANTS LTypeOK TimerMatchesEntry
