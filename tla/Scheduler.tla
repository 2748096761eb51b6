----------------------------- MODULE Scheduler -----------------------------
(***************************************************************************)
(* em_scheduler (scheduler.c) on the FreeRTOS software timers.             *)
(*                                                                         *)
(* scheduler_set_callback and scheduler_cancel_callback run on the calling *)
(* task under scheduler_mtx. They change scheduler_entry[] at once, but    *)
(* reach the timers only through commands on the timer queue, which the    *)
(* timer service task applies later. The same task runs callback_wrapper   *)
(* when a timer expires: it takes the mutex, clears the entry and calls    *)
(* the callback, which may schedule itself again.                          *)
(*                                                                         *)
(* The timer service loop follows FreeRTOS timers.c: one expiry check,     *)
(* then every queued command. A START command whose delay has already      *)
(* passed when it is applied calls the callback at once, as                *)
(* prvInsertTimerInActiveList reports. Time is not measured: a timer that  *)
(* is active may expire at any check.                                      *)
(***************************************************************************)
EXTENDS Integers, Sequences, SequencesExt, FiniteSetsExt

CONSTANTS
  Cbs,          \* the app_callback_t values passed by callers
  NoCb,         \* msg.cb of a cleared entry (memset to 0)
  MaxEntries,   \* CONFIG_EM_SCHEDULER_MAX_ENTRIES
  TimerQueueLen,\* CONFIG_FREERTOS_TIMER_QUEUE_LENGTH
  Tasks,        \* application tasks that call the scheduler
  Programs,     \* [Tasks -> Seq(Call)]: the calls each task makes, in order
  SelfResched,  \* callbacks that call scheduler_set_callback on themselves
  MaxResched,   \* how many times such a callback reschedules itself
  Stalls        \* a caller holding the mutex, or the timer service, may be
                \* held up for longer than a callback's delay

TmrSvc == "tmr_svc"
NoProc == "none"
NotFound == -1
Idx == 0 .. MaxEntries - 1
Call == {"set", "cancel"} \X Cbs
Cmd(op, i) == [op |-> op, idx |-> i]
Cleared == [scheduled |-> FALSE, cb |-> NoCb]

VARIABLES
  entry,    \* scheduler_entry[i]: .scheduled and .msg.cb
  active,   \* the FreeRTOS timer of entry i is in the active list
  tq,       \* the timer command queue
  mtx,      \* holder of scheduler_mtx
  pc,       \* control point of each task and of the timer service
  step,     \* next call of each task's program
  pend,     \* xTimer* commands a mutex holder has still to send
  widx,     \* the entry whose timer the timer service is handling
  wcb,      \* cb_data copied by callback_wrapper
  wret,     \* where the timer service resumes after callback_wrapper
  resched,  \* self-reschedules made so far
  want,     \* callbacks set and neither run nor cancelled since
  crashed   \* an assert failed

vars == <<entry, active, tq, mtx, pc, step, pend, widx, wcb, wret,
          resched, want, crashed>>

Procs == Tasks \cup {TmrSvc}

TypeOK ==
  /\ entry \in [Idx -> [scheduled : BOOLEAN, cb : Cbs \cup {NoCb}]]
  /\ active \in [Idx -> BOOLEAN]
  /\ tq \in Seq([op : {"stop", "change", "start"}, idx : Idx])
  /\ Len(tq) <= TimerQueueLen
  /\ mtx \in Procs \cup {NoProc}
  /\ want \in [Cbs -> BOOLEAN]
  /\ crashed \in BOOLEAN
  \* a callback holds at most one scheduled entry
  /\ \A i, j \in Idx : entry[i].scheduled /\ entry[j].scheduled
                       /\ entry[i].cb = entry[j].cb => i = j

SInit ==
  /\ entry = [i \in Idx |-> Cleared]
  /\ active = [i \in Idx |-> FALSE]
  /\ tq = <<>>
  /\ mtx = NoProc
  /\ pc = [p \in Procs |-> IF p = TmrSvc THEN "check" ELSE "idle"]
  /\ step = [t \in Tasks |-> 1]
  /\ pend = [p \in Procs |-> <<>>]
  /\ widx = 0
  /\ wcb = NoCb
  /\ wret = "drain"
  /\ resched = 0
  /\ want = [c \in Cbs |-> FALSE]
  /\ crashed = FALSE

(* find_entry: the first scheduled entry holding cb. *)
find_entry(c) ==
  LET hits == {i \in Idx : entry[i].scheduled /\ entry[i].cb = c}
  IN IF hits = {} THEN NotFound ELSE Min(hits)

(* clear_entry: xTimerStop, then scheduled = false and msg zeroed. *)
clear_entry(p, i) ==
  /\ entry' = [entry EXCEPT ![i] = Cleared]
  /\ pend' = [pend EXCEPT ![p] = <<Cmd("stop", i)>>]

(* Mutant: schedule_entry stores the callback but not scheduled = true. *)
schedule_entry_unmarked(p, c) ==
  LET free == {i \in Idx : ~entry[i].scheduled}
  IN IF free = {} \/ \E j \in Idx : j < Min(free \cup {MaxEntries}) /\ entry[j].cb = c
     THEN crashed' = TRUE /\ UNCHANGED <<entry, pend>>
     ELSE \E i \in {Min(free)} :
            /\ entry' = [entry EXCEPT ![i].cb = c]
            /\ pend' = [pend EXCEPT ![p] = <<Cmd("change", i), Cmd("start", i)>>]
            /\ UNCHANGED crashed

(* schedule_entry: the scheduled entries before the first free one must   *)
(* hold another cb (assert); the free entry takes cb, then                *)
(* xTimerChangePeriod and xTimerStart; no free entry fails                *)
(* assert(started).                                                        *)
schedule_entry(p, c) ==
  LET free == {i \in Idx : ~entry[i].scheduled}
  IN IF free = {} \/ \E j \in Idx : j < Min(free \cup {MaxEntries}) /\ entry[j].cb = c
     THEN crashed' = TRUE /\ UNCHANGED <<entry, pend>>
     ELSE \E i \in {Min(free)} :
            /\ entry' = [entry EXCEPT ![i] = [scheduled |-> TRUE, cb |-> c]]
            /\ pend' = [pend EXCEPT ![p] = <<Cmd("change", i), Cmd("start", i)>>]
            /\ UNCHANGED crashed

(* reschedule_entry: new param and ctx, then stop, change period, start. *)
reschedule_entry(p, i) ==
  /\ pend' = [pend EXCEPT ![p] = <<Cmd("stop", i), Cmd("change", i), Cmd("start", i)>>]
  /\ UNCHANGED <<entry, crashed>>

(* scheduler_set_callback with a delay: take the mutex, then schedule or *)
(* reschedule the entry of cb.                                           *)
scheduler_set_callback(p, c) ==
  /\ mtx = NoProc
  /\ mtx' = p
  /\ want' = [want EXCEPT ![c] = TRUE]
  /\ \E i \in {find_entry(c)} :
       IF i = NotFound THEN schedule_entry(p, c) ELSE reschedule_entry(p, i)

(* scheduler_cancel_callback: take the mutex and clear the entry of cb. *)
scheduler_cancel_callback(p, c) ==
  /\ mtx = NoProc
  /\ mtx' = p
  /\ want' = [want EXCEPT ![c] = FALSE]
  /\ \E i \in {find_entry(c)} :
       IF i = NotFound THEN UNCHANGED <<entry, pend>> ELSE clear_entry(p, i)
  /\ UNCHANGED crashed

(* A task makes the next call of its program. *)
TaskCall(t) ==
  /\ pc[t] = "idle"
  /\ step[t] <= Len(Programs[t])
  /\ \E call \in {Programs[t][step[t]]} :
       IF call[1] = "set" THEN scheduler_set_callback(t, call[2])
                          ELSE scheduler_cancel_callback(t, call[2])
  /\ pc' = [pc EXCEPT ![t] = "call"]
  /\ step' = [step EXCEPT ![t] = @ + 1]
  /\ UNCHANGED <<active, tq, widx, wcb, wret, resched>>

(* A mutex holder sends its next xTimer* command with portMAX_DELAY: it   *)
(* waits while the timer queue is full.                                   *)
TimerSend(p) ==
  /\ mtx = p
  /\ pend[p] # <<>>
  /\ Len(tq) < TimerQueueLen
  /\ tq' = Append(tq, Head(pend[p]))
  /\ pend' = [pend EXCEPT ![p] = Tail(@)]
  /\ UNCHANGED <<entry, active, mtx, pc, step, widx, wcb, wret, resched, want, crashed>>

(* xSemaphoreGive once every command is sent. callback_wrapper goes on to *)
(* the callback, a callback's own call returns into the timer service.    *)
Give(p) ==
  /\ mtx = p
  /\ pend[p] = <<>>
  /\ mtx' = NoProc
  /\ pc' = [pc EXCEPT ![p] = CASE pc[p] = "wrapper" -> "cb"
                                [] pc[p] = "cbset"   -> wret
                                [] OTHER             -> "idle"]
  /\ UNCHANGED <<entry, active, tq, step, pend, widx, wcb, wret, resched, want, crashed>>

(* callback_wrapper, from xSemaphoreTake to clear_entry: the asserts on   *)
(* the entry of the expired timer, the copy of msg, and the clear.        *)
callback_wrapper ==
  /\ pc[TmrSvc] = "wrap"
  /\ mtx = NoProc
  /\ mtx' = TmrSvc
  /\ IF entry[widx].scheduled /\ entry[widx].cb # NoCb
     THEN /\ wcb' = entry[widx].cb
          /\ want' = [want EXCEPT ![entry[widx].cb] = FALSE]
          /\ clear_entry(TmrSvc, widx)
          /\ pc' = [pc EXCEPT ![TmrSvc] = "wrapper"]
          /\ UNCHANGED crashed
     ELSE crashed' = TRUE /\ UNCHANGED <<entry, pend, wcb, want, pc>>
  /\ UNCHANGED <<active, tq, step, widx, wret, resched>>

(* The callback returns, or (change_led_state with toggles left) calls    *)
(* scheduler_set_callback on itself from the timer service task.          *)
CallbackReturn ==
  /\ pc[TmrSvc] = "cb"
  /\ pc' = [pc EXCEPT ![TmrSvc] = wret]
  /\ UNCHANGED <<entry, active, tq, mtx, step, pend, widx, wcb, wret, resched, want, crashed>>

CallbackResched ==
  /\ pc[TmrSvc] = "cb"
  /\ wcb \in SelfResched
  /\ resched < MaxResched
  /\ scheduler_set_callback(TmrSvc, wcb)
  /\ resched' = resched + 1
  /\ pc' = [pc EXCEPT ![TmrSvc] = "cbset"]
  /\ UNCHANGED <<active, tq, step, widx, wcb, wret>>

(* Without stalls, a timer (re)started by a call expires only after that  *)
(* call has sent, and the timer service applied, all its commands for it. *)
Settled(i) ==
  /\ \A k \in DOMAIN tq : tq[k].idx # i
  /\ \A p \in Procs : \A k \in DOMAIN pend[p] : pend[p][k].idx # i

(* FreeRTOS timer service: an active timer found expired at the check is  *)
(* removed from the list and its callback called; then the queue drains.  *)
TimerExpire(i) ==
  /\ pc[TmrSvc] = "check"
  /\ active[i]
  /\ Stalls \/ Settled(i)
  /\ active' = [active EXCEPT ![i] = FALSE]
  /\ widx' = i
  /\ wret' = "drain"
  /\ pc' = [pc EXCEPT ![TmrSvc] = "wrap"]
  /\ UNCHANGED <<entry, tq, mtx, step, pend, wcb, resched, want, crashed>>

NoExpiry ==
  /\ pc[TmrSvc] = "check"
  /\ pc' = [pc EXCEPT ![TmrSvc] = "drain"]
  /\ UNCHANGED <<entry, active, tq, mtx, step, pend, widx, wcb, wret, resched, want, crashed>>

QueueEmpty ==
  /\ pc[TmrSvc] = "drain"
  /\ tq = <<>>
  /\ pc' = [pc EXCEPT ![TmrSvc] = "check"]
  /\ UNCHANGED <<entry, active, tq, mtx, step, pend, widx, wcb, wret, resched, want, crashed>>

(* One command: STOP removes the timer, CHANGE_PERIOD (re)starts it from  *)
(* now, START from the time the command was sent. A START applied after   *)
(* its delay has run out (only with stalls) is not inserted: its callback *)
(* is called from the command loop, as prvInsertTimerInActiveList reports.*)
ApplyCmd ==
  /\ pc[TmrSvc] = "drain"
  /\ tq # <<>>
  /\ tq' = Tail(tq)
  /\ \E c \in {Head(tq)}, late \in IF Stalls THEN BOOLEAN ELSE {FALSE} :
       IF late /\ c.op = "start"
       THEN /\ active' = [active EXCEPT ![c.idx] = FALSE]
            /\ widx' = c.idx
            /\ pc' = [pc EXCEPT ![TmrSvc] = "wrap"]
       ELSE /\ active' = [active EXCEPT ![c.idx] = c.op # "stop"]
            /\ UNCHANGED <<widx, pc>>
  /\ wret' = "drain"
  /\ UNCHANGED <<entry, mtx, step, pend, wcb, resched, want, crashed>>

TimerSvcStep ==
  \/ \E i \in Idx : TimerExpire(i)
  \/ NoExpiry \/ QueueEmpty \/ ApplyCmd
  \/ callback_wrapper \/ CallbackReturn \/ CallbackResched

SNext ==
  /\ ~crashed
  /\ \/ \E t \in Tasks : TaskCall(t)
     \/ \E p \in Procs : TimerSend(p) \/ Give(p)
     \/ TimerSvcStep

(* FreeRTOS runs every ready task: the mutex holder and the timer service *)
(* progress, an active timer expires, and callback_wrapper gets a mutex   *)
(* that is given again and again (strong fairness: the queue and the      *)
(* mutex may be taken in between). Tasks owe no calls.                    *)
SFairness ==
  /\ SF_vars(\E p \in Procs : TimerSend(p) \/ Give(p))
  /\ SF_vars(\E i \in Idx : TimerExpire(i))
  /\ SF_vars(callback_wrapper)
  /\ WF_vars(NoExpiry \/ QueueEmpty \/ ApplyCmd \/ CallbackReturn \/ CallbackResched)

SSpec == SInit /\ [][SNext]_vars /\ SFairness

-----------------------------------------------------------------------------
(* The timer of entry i once the queued commands are applied: the last    *)
(* command for it decides, or its present state when there is none.      *)
Armed(i) ==
  LET cs == SelectSeq(tq, LAMBDA c : c.idx = i)
  IN IF cs = <<>> THEN active[i] ELSE Last(cs).op # "stop"

(* No assert of scheduler.c fails: callback_wrapper always finds its     *)
(* entry scheduled with a callback, and schedule_entry a free entry.     *)
NeverAborts == ~crashed

(* Whenever no call holds scheduler_mtx and no expired timer waits for   *)
(* it in callback_wrapper, an entry is scheduled exactly when its timer  *)
(* will be running once the timer service has applied the commands that *)
(* set, reschedule, cancel and callback_wrapper queued.                  *)
TimerMatchesEntry ==
  (mtx = NoProc /\ pc[TmrSvc] # "wrap") =>
    \A i \in Idx : entry[i].scheduled <=> Armed(i)

(* A callback that scheduler_set_callback set, and that was not          *)
(* cancelled since, is eventually called by callback_wrapper. This holds *)
(* for a callback that schedules itself again from its own run.          *)
CallbackRuns == \A c \in Cbs : want[c] ~> ~want[c]
=============================================================================
