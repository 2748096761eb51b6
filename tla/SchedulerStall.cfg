\* The callers of Scheduler.cfg, with a caller or the timer service held up
\* for longer than a delay: a START that arrives after the expiry it
\* armed for re-arms a cleared entry.
CONSTANTS
  Led = Led
  Reboot = Reboot
  Dump = Dump
  Prov = Prov
  EvtLoop = EvtLoop
  RxTask = RxTask
  StorageTask = StorageTask
  NoCb = NoCb
  Cbs = {Led, Reboot, Dump}
  Tasks = {EvtLoop, RxTask, StorageTask}
  Programs <- MC_Programs
  SelfResched = {Led}
  MaxResched = 2
  MaxEntries = 3
  TimerQueueLen = 10
  Stalls = TRUE
SPECIFICATION SSpec
INVARIANT NeverAborts
