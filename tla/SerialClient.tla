---------------------------- MODULE SerialClient ----------------------------
(***************************************************************************)
(* The em_serial_client engine as its single worker task (task.c) sees it: *)
(* the request table with its one software timer (tx.c, task.c), the      *)
(* acknowledgement of responses (rx.c) and the serial line with the       *)
(* device answering on it.  Every worker turn handles one command          *)
(* atomically, exactly as the switch in task() does; the command queue    *)
(* itself and the tasks that feed it are composed in SerialClientTasks.   *)
(*                                                                         *)
(* Bytes are abstracted to frames: the ring buffer holds whole frames and *)
(* the protocol plugin's parse function is the table StatusOf from frame  *)
(* kind to parse status.  Time is the engine's own virtual time: the      *)
(* since_last_sent counters credited when the timer is armed.             *)
(*                                                                         *)
(* Ghost variables (gen, sends, answered, acked, tx, nextGen) record       *)
(* history for the properties; the code has no counterpart for them.      *)
(***************************************************************************)
EXTENDS Integers, Sequences, SequencesExt, FiniteSets

CONSTANTS
  NumSlots,         \* CONFIG_EM_SERIAL_CLIENT_MAX_RQS
  Ids,              \* request ids the callers use (uint16 rq_id)
  INVALID,          \* EXP_RSP_INVALID: no response is awaited
  Timeouts,         \* timeouts callers pass to em_sc_send (uint32 ms)
  Retries,          \* retry budgets callers pass to em_sc_send (uint8)
  Periods,          \* periods callers pass to em_sc_send_periodic (uint32 ms)
  Replies,          \* frame kinds the device may answer a request with
  StatusOf,         \* the plugin's parse status for each frame kind
  ReportsRspId,     \* whether the plugin writes the answered id to rsp_id
  RingFrames,       \* capacity of the ring buffer, in frames
  LineLen,          \* frames that can be in flight on the serial line
  MaxAdds,          \* bound on add commands in a behaviour
  MaxSendFailures   \* bound on failed em_uart_send calls in a behaviour

FrameKinds == {"answer", "nak", "badcrc"}

ASSUME /\ NumSlots \in Nat \ {0}
       /\ Ids \subseteq 1..65534 /\ INVALID \notin Ids
       /\ Retries \subseteq 0..255 /\ \A p \in Periods : p > 1
       /\ Replies \subseteq FrameKinds
       /\ ReportsRspId \in BOOLEAN

(* parse_status_t, rx.h *)
PARSE_STATUS_UNKNOWN == 0
PARSE_STATUS_OK == 1
PARSE_STATUS_NO_PACKET == 2
PARSE_STATUS_INVALID_CRC == 3
PARSE_STATUS_RQ_REJECTED == 4
PARSE_STATUS_RSP_UNEXPECTED == 5
PARSE_STATUS_PACKET_MALFORMED == 6

ASSUME StatusOf \in [FrameKinds -> 0..65535]

(* The constants of send_rq and of the two add functions, in ms. *)
DUE_MS == 50                \* "if les then 50ms ... can be send already"
RESPONSE_DELAY_MS == 100    \* response_delay_ms
SEND_RETRY_MS == 500        \* retry after a failed em_uart_send
ONESHOT_STAGGER_MS == 100   \* timeout - idx * 100
PERIODIC_STAGGER_MS == 500  \* period - (idx + 1) * 500
PERIODIC_MAX_RETRIES == 2   \* retries > 2: give up for this period
INT32_MAX == 2147483647

U8(x) == x % 2^8
U16(x) == x % 2^16

Max2(a, b) == IF a < b THEN b ELSE a

Slots == 0..(NumSlots - 1)
NoSlot == -1

Frame == [id : Ids, gen : 1..MaxAdds, kind : FrameKinds]

(* rq_t, serial_client_priv_impl.h; payload is TRUE when allocated. *)
Rq == [payload : BOOLEAN, rq_id : Ids \cup {0}, timeout : 0..65535,
       since_last_sent : Int, retries : 0..255, max_retries : 0..255,
       active : BOOLEAN, periodic : BOOLEAN]

VARIABLES
  rq,           \* pimpl->rq[]
  last_rq_id,   \* sc->last_rq_id
  timer_armed,  \* the one-shot "Sender" timer is running
  ring,         \* frames in the ring buffer, not yet consumed
  line,         \* frames sent by the device, not yet read by the rx task
  failures,     \* failed em_uart_send calls so far (bounded)
  gen,          \* ghost: the request instance held by each slot
  nextGen,      \* ghost: instances created so far
  sends,        \* ghost: transmissions of a slot since activation or ack
  answered,     \* ghost: the slot's instance got its answer consumed
  acked,        \* ghost: [slot instance, answering instance] of the last ack
  tx,           \* ghost: slot transmitted in the last step, or NoSlot
  arg,          \* ghost: the uint32 timeout or period the caller passed
  clock         \* ghost: virtual ms credited since the slot's clock restart

vars == <<rq, last_rq_id, timer_armed, ring, line, failures,
          gen, nextGen, sends, answered, acked, tx, arg, clock>>

NoAck == [rq |-> 0, by |-> 0]

-----------------------------------------------------------------------------
(* Request table helpers *)

ActiveSlots(t) == {s \in Slots : t[s].active}

ActiveIds == {rq[s].rq_id : s \in ActiveSlots(rq)}

(* The "for (idx...) if (!active) break" scan of the add functions. *)
FreeSlot == IF ActiveSlots(rq) = Slots THEN NoSlot
            ELSE Min(Slots \ ActiveSlots(rq))

(* timeout - since_last_sent, the remaining time before a slot is due. *)
Deadline(t, s) == t[s].timeout - t[s].since_last_sent

(* A send_rq scan that forgets "if (!active) continue" and may pick a   *)
(* free slot: a mutation SendIdx must not admit.                         *)
SendIdxAllSlots(t) ==
  CHOOSE s \in Slots :
    \A o \in Slots : \/ Deadline(t, s) < Deadline(t, o)
                    \/ (Deadline(t, s) = Deadline(t, o) /\ s <= o)

(* send_idx of the minimum-deadline scan of send_rq: the active slot     *)
(* with the least deadline, the lowest index among equals ("<" keeps the *)
(* first one found).                                                     *)
SendIdx(t) ==
  CHOOSE s \in ActiveSlots(t) :
    \A o \in ActiveSlots(t) : \/ Deadline(t, s) < Deadline(t, o)
                             \/ (Deadline(t, s) = Deadline(t, o) /\ s <= o)

(* earliest_rq_delay and next_rq_delay: INT32_MAX when none is active. *)
EarliestDelay(t) ==
  IF ActiveSlots(t) = {} THEN INT32_MAX ELSE Deadline(t, SendIdx(t))

(* deactivate_rq *)
Deactivate(t, s) == [t EXCEPT ![s].active = FALSE, ![s].payload = FALSE]

(* schedule_next_timer_evt with a delay d # INT32_MAX: start_timer, and *)
(* every active slot credited with the delay in advance.                 *)
StartTimerAndCredit(t, d) ==
  /\ rq' = [s \in Slots |->
             IF t[s].active
             THEN [t[s] EXCEPT !.since_last_sent = @ + d]
             ELSE t[s]]
  /\ timer_armed' = TRUE

(* schedule_next_timer_evt restarting the timer without crediting the  *)
(* delay: a mutation under which virtual time stands still.              *)
ScheduleNextTimerEvtNoCredit(t, d, armed) ==
  /\ rq' = t
  /\ timer_armed' = IF d # INT32_MAX THEN TRUE ELSE armed

(* schedule_next_timer_evt: INT32_MAX leaves the timer as it is. *)
ScheduleNextTimerEvt(t, d, armed) ==
  IF d # INT32_MAX
  THEN StartTimerAndCredit(t, d)
  ELSE /\ rq' = t
       /\ timer_armed' = armed

(* ack_rsp on the table: reset the first active slot with the id, and   *)
(* retire it when it has a retry budget (max_retries > 0).               *)
AckSlot(t, c) ==
  LET m == {s \in ActiveSlots(t) : t[s].rq_id = c}
  IN IF m = {} THEN NoSlot ELSE Min(m)

(* ack_rsp retiring every acknowledged slot, periodic ones included,    *)
(* and ack_rsp never retiring one: two mutations of AckRsp.              *)
AckRspAlwaysRetire(t, c) ==
  LET s == AckSlot(t, c)
  IN IF s = NoSlot THEN t ELSE Deactivate(t, s)

AckRsp(t, c) ==
  LET s == AckSlot(t, c)
      r == [t EXCEPT ![s].since_last_sent = 0, ![s].retries = 0]
  IN IF s = NoSlot THEN t
     ELSE IF t[s].max_retries > 0 THEN Deactivate(r, s) ELSE r

-----------------------------------------------------------------------------
Init ==
  /\ rq = [s \in Slots |-> [payload |-> FALSE, rq_id |-> 0, timeout |-> 0,
                            since_last_sent |-> 0, retries |-> 0,
                            max_retries |-> 0, active |-> FALSE,
                            periodic |-> FALSE]]
  /\ last_rq_id = INVALID
  /\ timer_armed = FALSE
  /\ ring = <<>>
  /\ line = <<>>
  /\ failures = 0
  /\ gen = [s \in Slots |-> 0]
  /\ nextGen = 0
  /\ sends = [s \in Slots |-> 0]
  /\ answered = [s \in Slots |-> FALSE]
  /\ acked = NoAck
  /\ tx = NoSlot
  /\ arg = [s \in Slots |-> 0]
  /\ clock = [s \in Slots |-> -1]

(* Ghost: the virtual time credited by schedule_next_timer_evt, applied  *)
(* to the clocks of the slots active in t that have been restarted.      *)
CreditClock(t, d, cl) ==
  [s \in Slots |-> IF d # INT32_MAX /\ t[s].active /\ cl[s] >= 0
                   THEN cl[s] + d ELSE cl[s]]

-----------------------------------------------------------------------------
(* SC_CMD_ADD_RQ: add_rq.  The caller keeps ids of active requests       *)
(* distinct (the contract of em_sc_send); a serialize_func failure       *)
(* aborts the device (assert in rs232_2400_serialize) and is not a state.*)
AddRq(id, timeout, retries) ==
  /\ nextGen < MaxAdds
  /\ id \notin ActiveIds
  /\ nextGen' = nextGen + 1
  /\ LET idx == FreeSlot IN
     \/ /\ idx = NoSlot                 \* "No free message slots"
        /\ UNCHANGED <<rq, timer_armed, gen, sends, answered, arg, clock>>
     \/ /\ idx # NoSlot
        /\ rq' = [rq EXCEPT ![idx] =
                    [payload |-> TRUE, rq_id |-> id, timeout |-> U16(timeout),
                     since_last_sent |-> timeout - idx * ONESHOT_STAGGER_MS,
                     retries |-> 0, max_retries |-> retries,
                     active |-> TRUE, periodic |-> FALSE]]
        /\ timer_armed' = TRUE          \* start_timer(sc, 2000)
        /\ gen' = [gen EXCEPT ![idx] = nextGen + 1]
        /\ sends' = [sends EXCEPT ![idx] = 0]
        /\ answered' = [answered EXCEPT ![idx] = FALSE]
        /\ arg' = [arg EXCEPT ![idx] = timeout]
        /\ clock' = [clock EXCEPT ![idx] = -1]
  /\ tx' = NoSlot
  /\ UNCHANGED <<last_rq_id, ring, line, failures, acked>>

(* SC_CMD_ADD_RQ_PERIODIC: add_periodic_rq *)
AddPeriodicRq(id, period) ==
  /\ nextGen < MaxAdds
  /\ id \notin ActiveIds
  /\ nextGen' = nextGen + 1
  /\ LET idx == FreeSlot IN
     \/ /\ idx = NoSlot                 \* "No free periodic message slots"
        /\ UNCHANGED <<rq, timer_armed, gen, sends, answered, arg, clock>>
     \/ /\ idx # NoSlot
        /\ rq' = [rq EXCEPT ![idx] =
                    [payload |-> TRUE, rq_id |-> id, timeout |-> U16(period),
                     since_last_sent |-> period - (idx + 1) * PERIODIC_STAGGER_MS,
                     retries |-> 0, max_retries |-> 0,
                     active |-> TRUE, periodic |-> TRUE]]
        /\ timer_armed' = TRUE
        /\ gen' = [gen EXCEPT ![idx] = nextGen + 1]
        /\ sends' = [sends EXCEPT ![idx] = 0]
        /\ answered' = [answered EXCEPT ![idx] = FALSE]
        /\ arg' = [arg EXCEPT ![idx] = period]
        /\ clock' = [clock EXCEPT ![idx] = -1]
  /\ tx' = NoSlot
  /\ UNCHANGED <<last_rq_id, ring, line, failures, acked>>

(* remove_periodic_rq deleting the timer even with slots left active:   *)
(* a mutation KeepTimer must not admit.                                  *)
KeepTimerNever(t) == FALSE

(* The scan after deactivate_rq in remove_periodic_rq: the timer is kept *)
(* (as it is) while a slot is active, and deleted otherwise.             *)
KeepTimer(t) == timer_armed /\ ActiveSlots(t) # {}

(* SC_CMD_RM_PERIODIC_RQ: remove_periodic_rq.  The scan matches on the    *)
(* periodic flag and the id only, so a slot already deactivated matches  *)
(* too; the timer is deleted when no slot is left active.                *)
RemovePeriodicRq(id) ==
  LET m == {s \in Slots : rq[s].periodic /\ rq[s].rq_id = id}
      t == Deactivate(rq, Min(m))
  IN /\ \/ /\ m = {}                    \* "Periodic rq not found"
           /\ UNCHANGED <<rq, timer_armed>>
        \/ /\ m # {}
           /\ rq' = t
           /\ timer_armed' = KeepTimer(t)
     /\ tx' = NoSlot
     /\ UNCHANGED <<last_rq_id, ring, line, failures, gen, nextGen, sends,
                    answered, acked, arg, clock>>

-----------------------------------------------------------------------------
(* send_rq, run on SC_CMD_TIMER; armed is whether the timer runs when    *)
(* the command is handled.  Three outcomes: nothing due yet, the uart    *)
(* send failing, and a transmission.                                     *)

(* Two mutations of the retry policies: a one-shot give-up one          *)
(* transmission late, and a one-shot retry that keeps since_last_sent.   *)
AfterSendOffByOne(s) ==
  LET r == rq[s]
      n == U8(r.retries + 1)
  IN IF ~r.periodic
     THEN IF n > r.max_retries + 1
          THEN Deactivate([rq EXCEPT ![s].since_last_sent = 0,
                                     ![s].retries = 0], s)
          ELSE [rq EXCEPT ![s].since_last_sent = 0, ![s].retries = n]
     ELSE IF n > PERIODIC_MAX_RETRIES
          THEN [rq EXCEPT ![s].since_last_sent = 0, ![s].retries = 0]
          ELSE [rq EXCEPT ![s].since_last_sent = @ - RESPONSE_DELAY_MS,
                          ![s].retries = n]

(* The request table after transmitting slot s (the retry policies). *)
AfterSend(s) ==
  LET r == rq[s]
      n == U8(r.retries + 1)
  IN IF ~r.periodic
     THEN IF n > r.max_retries
          THEN Deactivate([rq EXCEPT ![s].since_last_sent = 0,
                                     ![s].retries = 0], s)
          ELSE [rq EXCEPT ![s].since_last_sent = 0, ![s].retries = n]
     ELSE IF n > PERIODIC_MAX_RETRIES
          THEN [rq EXCEPT ![s].since_last_sent = 0, ![s].retries = 0]
          ELSE [rq EXCEPT ![s].since_last_sent = @ - RESPONSE_DELAY_MS,
                          ![s].retries = n]

(* The clock of slot s restarts when a one-shot is sent and when a       *)
(* periodic request gives up for its period.                             *)
RestartsClock(s) ==
  ~rq[s].periodic \/ U8(rq[s].retries + 1) > PERIODIC_MAX_RETRIES

NothingDue(armed) ==
  /\ EarliestDelay(rq) > DUE_MS
  /\ ScheduleNextTimerEvt(rq, EarliestDelay(rq), armed)
  /\ clock' = CreditClock(rq, EarliestDelay(rq), clock)
  /\ tx' = NoSlot
  /\ UNCHANGED <<last_rq_id, ring, line, failures, gen, nextGen, sends,
                 answered, acked, arg>>

SendFailed(armed) ==
  /\ EarliestDelay(rq) <= DUE_MS
  /\ failures < MaxSendFailures
  /\ failures' = failures + 1
  /\ last_rq_id' = rq[SendIdx(rq)].rq_id
  /\ StartTimerAndCredit(rq, SEND_RETRY_MS)
  /\ clock' = CreditClock(rq, SEND_RETRY_MS, clock)
  /\ tx' = NoSlot
  /\ UNCHANGED <<ring, line, gen, nextGen, sends, answered, acked, arg>>

(* em_uart_send succeeds; the device may answer on the line, or not.    *)
SendOk(armed) ==
  /\ EarliestDelay(rq) <= DUE_MS
  /\ \E s \in {SendIdx(rq)} : \E t \in {AfterSend(s)} :
     \* s is send_idx, t the table after the retry policy; next_rq_delay
     \* is kept at least response_delay_ms.
     LET d == Max2(RESPONSE_DELAY_MS, EarliestDelay(t))
         cl == IF RestartsClock(s) THEN [clock EXCEPT ![s] = 0] ELSE clock
     IN /\ last_rq_id' = rq[s].rq_id
        /\ ScheduleNextTimerEvt(t, d, armed)
        /\ clock' = CreditClock(t, d, cl)
        /\ sends' = [sends EXCEPT ![s] = IF rq[s].periodic THEN 0 ELSE @ + 1]
        /\ tx' = s
        /\ \/ line' = line              \* no answer reaches the engine
           \/ /\ Len(line) < LineLen
              /\ \E k \in Replies :
                   line' = Append(line, [id |-> rq[s].rq_id, gen |-> gen[s],
                                         kind |-> k])
  /\ UNCHANGED <<ring, failures, gen, nextGen, answered, acked, arg>>

SendRq(armed) == NothingDue(armed) \/ SendFailed(armed) \/ SendOk(armed)

(* The one-shot timer expires and the worker runs send_rq. *)
TimerTick ==
  /\ timer_armed
  /\ SendRq(FALSE)

-----------------------------------------------------------------------------
(* SC_CMD_PROCESS_DATA: process_data with parse and packet_handler.      *)

(* The id the plugin reports: rs232_2400_rsp_parse leaves rsp_id as the *)
(* awaited id it was given.                                              *)
RspId(f) == IF ReportsRspId THEN f.id ELSE last_rq_id

(* parse: an OK status whose rsp_id is not the awaited one is            *)
(* "unexpected".                                                         *)
ParseStatus(f) ==
  IF StatusOf[f.kind] = PARSE_STATUS_OK /\ RspId(f) # last_rq_id
  THEN PARSE_STATUS_RSP_UNEXPECTED
  ELSE StatusOf[f.kind]

(* The two statuses that reach ack_rsp: OK via packet_handler, and       *)
(* RQ_REJECTED directly in parse.  Each clears last_rq_id, after which   *)
(* parse consumes nothing more.                                          *)
Acknowledges(f) ==
  ParseStatus(f) \in {PARSE_STATUS_OK, PARSE_STATUS_RQ_REJECTED}

(* em_ringbuf_write: the oldest frame is overwritten when full. *)
RingWrite(r, f) ==
  IF Len(r) = RingFrames THEN Append(Tail(r), f) ELSE Append(r, f)

(* Ghost: the one-shot slots whose own answer is among the consumed      *)
(* frames, consumed while that slot's id was awaited.                    *)
MarkAnswered(consumed) ==
  [s \in Slots |->
     \/ answered[s]
     \/ /\ rq[s].active /\ ~rq[s].periodic
        /\ last_rq_id = rq[s].rq_id
        /\ \E i \in DOMAIN consumed :
             consumed[i].kind = "answer" /\ consumed[i].gen = gen[s]]

(* The k of process_data's parse rounds: the first buffered frame that   *)
(* acknowledges, 0 when none does.                                       *)
AckIndex(buf) == SelectInSeq(buf, Acknowledges)

(* SC_CMD_PROCESS_DATA with the chunk f: process_data writes it to the   *)
(* ring and runs the parse rounds.                                       *)
ProcessData(f) ==
  LET buf == RingWrite(ring, f)
      k == AckIndex(buf)
      s == AckSlot(rq, last_rq_id)
  IN /\ \/ /\ last_rq_id = INVALID      \* "Last command is unknown"
           /\ ring' = buf
           /\ UNCHANGED <<rq, last_rq_id, sends, answered, acked, clock>>
        \/ /\ last_rq_id # INVALID
           /\ k = 0                     \* every frame consumed, none acked
           /\ ring' = <<>>
           /\ answered' = MarkAnswered(buf)
           /\ UNCHANGED <<rq, last_rq_id, sends, acked, clock>>
        \/ /\ last_rq_id # INVALID
           /\ k > 0                     \* ack_rsp(sc, sc->last_rq_id)
           /\ ring' = SubSeq(buf, k + 1, Len(buf))
           /\ rq' = AckRsp(rq, last_rq_id)
           /\ last_rq_id' = INVALID
           /\ answered' = MarkAnswered(SubSeq(buf, 1, k))
           /\ IF s = NoSlot
              THEN UNCHANGED <<sends, acked, clock>>
              ELSE /\ sends' = [sends EXCEPT ![s] = 0]
                   /\ acked' = [rq |-> gen[s], by |-> buf[k].gen]
                   /\ clock' = [clock EXCEPT ![s] = 0]
     /\ tx' = NoSlot
     /\ UNCHANGED <<timer_armed, failures, gen, nextGen, arg>>

(* The uart rx task reads the next frame off the line and the worker     *)
(* processes it.                                                          *)
RxProcess ==
  /\ line # <<>>
  /\ line' = Tail(line)
  /\ ProcessData(Head(line))

-----------------------------------------------------------------------------
Next ==
  \/ \E id \in Ids, to \in Timeouts, r \in Retries : AddRq(id, to, r)
  \/ \E id \in Ids, p \in Periods : AddPeriodicRq(id, p)
  \/ \E id \in Ids : RemovePeriodicRq(id)
  \/ TimerTick
  \/ RxProcess

(* The FreeRTOS timer service fires an armed timer, and the uart rx task *)
(* hands every chunk it reads to the worker: both are weakly fair.  The  *)
(* callers of the API owe nothing.                                       *)
Spec == Init /\ [][Next]_vars
FairSpec == Spec /\ WF_vars(TimerTick) /\ WF_vars(RxProcess)

-----------------------------------------------------------------------------
(* Properties *)

TypeOK ==
  /\ rq \in [Slots -> Rq]
  /\ last_rq_id \in Ids \cup {INVALID}
  /\ timer_armed \in BOOLEAN
  /\ ring \in Seq(Frame) /\ Len(ring) <= RingFrames
  /\ line \in Seq(Frame) /\ Len(line) <= LineLen
  /\ failures \in 0..MaxSendFailures
  /\ acked \in [rq : 0..MaxAdds, by : 0..MaxAdds]
  /\ tx \in Slots \cup {NoSlot}

(* No request is stranded: while any slot is active the one-shot timer  *)
(* is running, so send_rq will run again.  Breaks if remove_periodic_rq, *)
(* send_rq or schedule_next_timer_evt leaves the timer stopped while a   *)
(* request is still in the table.                                        *)
ActiveImpliesScheduled ==
  ActiveSlots(rq) # {} => timer_armed

(* A one-shot request with max_retries = r is transmitted at most r + 1  *)
(* times without a response resetting it (send_rq's give-up policy,     *)
(* spec section 8).                                                      *)
OneShotBoundedSends ==
  \A s \in Slots : ~rq[s].periodic => sends[s] <= rq[s].max_retries + 1

(* A periodic request leaves the table only through remove_periodic_rq:  *)
(* neither the retry policy of send_rq nor ack_rsp retires it.           *)
PeriodicOnlyRemovedExplicitly ==
  [][\A s \in Slots :
       (rq[s].active /\ rq[s].periodic /\ ~rq'[s].active)
         => \E id \in Ids : RemovePeriodicRq(id)]_vars

(* A one-shot request whose own answer was consumed while it was the    *)
(* awaited request is never transmitted again (ack_rsp retires it).     *)
AnsweredNotResent ==
  [][\A s \in Slots : (tx' = s /\ ~rq[s].periodic) => ~answered[s]]_vars

(* No transmission comes early: a one-shot retry, or the first          *)
(* transmission of a new period of a periodic request, happens only     *)
(* when at least its timeout or period (less the 50 ms due window) of   *)
(* the engine's time has passed since its clock last restarted (its     *)
(* previous transmission, its acknowledgement, or its give-up).         *)
NoEarlyTransmission ==
  [][\A s \in Slots :
       (/\ tx' = s /\ clock[s] >= 0
        /\ (~rq[s].periodic \/ rq[s].retries = 0))
         => clock[s] >= arg[s] - DUE_MS]_vars

(* A request is acknowledged (reset or retired by ack_rsp) only by a    *)
(* frame that answers that very request instance.                       *)
AckedByOwnResponse ==
  acked = NoAck \/ acked.rq = acked.by

(* Every request in the table is eventually transmitted or retired.     *)
EveryRequestServed ==
  \A s \in Slots : rq[s].active ~> (tx = s \/ ~rq[s].active)

=============================================================================
