\* em_scheduler with a self-rescheduling LED callback set after a cancel, a
\* reboot set from the rx task and a storage debounce, on a timer service
\* that is never held up past a callback's delay.
CONSTANTS
  Led = Led
  Reboot = Reboot
  Dump = Dump
  Prov = Prov
  EvtLoop = EvtLoop
  RxTask = RxTask
  StorageTask = StorageTask
  NoCb = NoCb
  Cbs = {Led, Reboot, Dump}
  Tasks = {EvtLoop, RxTask, StorageTask}
  Programs <- MC_Programs
  SelfResched = {Led}
  MaxResched = 2
  MaxEntries = 3
  TimerQueueLen = 10
  Stalls = FALSE
SPECIFICATION SSpec
INVARIANTS TypeOK NeverAborts TimerMatchesEntry
PROPERTIES CallbackRuns
