\* A timer queue of 4 commands: change_led_state, rescheduling itself on
\* the timer service task, waits with portMAX_DELAY on the full queue that
\* only that task drains (TLC reports the deadlock).
CONSTANTS
  Led = Led
  Reboot = Reboot
  Dump = Dump
  Prov = Prov
  EvtLoop = EvtLoop
  RxTask = RxTask
  StorageTask = StorageTask
  NoCb = NoCb
  Cbs = {Led, Reboot, Dump}
  Tasks = {EvtLoop, RxTask, StorageTask}
  Programs <- MC_Programs
  SelfResched = {Led}
  MaxResched = 2
  MaxEntries = 3
  TimerQueueLen = 4
  Stalls = FALSE
SPECIFICATION SSpec
INVARIANTS TypeOK NeverAborts TimerMatchesEntry
PROPERTIES CallbackRuns
