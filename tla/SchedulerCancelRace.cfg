\* A BLE client connects again as the provisioning window closes:
\* em_ble_conn_hnd cancels prov_stop_wrapper while its expired timer waits
\* for the mutex in callback_wrapper, whose assert(scheduled) then fails.
CONSTANTS
  Led = Led
  Reboot = Reboot
  Dump = Dump
  Prov = Prov
  EvtLoop = EvtLoop
  RxTask = RxTask
  StorageTask = StorageTask
  NoCb = NoCb
  Cbs = {Prov}
  Tasks = {EvtLoop, RxTask, StorageTask}
  Programs <- MC_BleReconnect
  SelfResched = {Led}
  MaxResched = 2
  MaxEntries = 3
  TimerQueueLen = 10
  Stalls = FALSE
SPECIFICATION SSpec
INVARIANT NeverAborts
