-------------------------- MODULE SerialClientTasks --------------------------
(***************************************************************************)
(* The serial client's tasks around its command queue.  The worker (task  *)
(* in task.c) creates the two-slot queue, then takes one command at a time *)
(* and runs the handler SerialClient models for it.  Four producers put   *)
(* commands in, each with xQueueSend(..., portMAX_DELAY), that is, each   *)
(* waits while the queue is full:                                         *)
(*   - the application task in inv_init (em_sc_send_periodic);          *)
(*   - the FreeRTOS timer service running sender_timer_cb;               *)
(*   - the uart rx task running uart_rx_cb on every chunk it reads.      *)
(* A response handler could send too (inv_fw_ver_handler calls           *)
(* em_sc_remove_periodic), but packet_handler runs only on a frame that  *)
(* parses PARSE_STATUS_OK, which the rs232 plugin never reports          *)
(* (Rs232Status): no handler runs, and none is modelled.                 *)
(* A step of a producer that reaches the queue is split in two where the *)
(* code can wait in between: the timer expiring and its callback's send, *)
(* the uart read and the callback's send.                                 *)
(***************************************************************************)
EXTENDS SerialClient

CONSTANTS
  QueueLen,           \* length of the command queue (xQueueCreateStatic(2, ...))
  AppCalls,           \* the em_sc_send_periodic calls of inv_init, in order
  WorkerStartsFirst   \* the worker's priority is above inv_init's: it runs
                      \* its prologue before em_sc_init returns

ASSUME /\ QueueLen \in Nat \ {0}
       /\ WorkerStartsFirst \in BOOLEAN

(* sc_cmd_t, with the fields each command type uses. *)
AddCmd(id, p) == [type |-> "add_periodic", id |-> id, period |-> p]
RmCmd(id) == [type |-> "rm", id |-> id]
DataCmd(f) == [type |-> "data", frame |-> f]
TimerCmd == [type |-> "timer"]

VARIABLES
  cmdq,      \* sc->cmd_queue: the commands waiting, oldest first
  created,   \* the worker has created the queue (task.c:30)
  app,       \* the calls of inv_init not yet returned
  svc,       \* timer service: "idle", or "sending" in sender_timer_cb
  rxpend,    \* the chunk uart_rx_cb is trying to queue (<<>> or <<f>>)
  crashed    \* a producer called xQueueSend on the NULL queue handle

tvars == <<cmdq, created, app, svc, rxpend, crashed>>
allvars == <<vars, tvars>>

-----------------------------------------------------------------------------
TInit ==
  /\ Init
  /\ cmdq = <<>>
  /\ created = FALSE
  /\ app = AppCalls
  /\ svc = "idle"
  /\ rxpend = <<>>
  /\ crashed = FALSE

(* The prologue of task(): xQueueCreateStatic, the ring and pimpl. *)
WorkerStart ==
  /\ ~created
  /\ created' = TRUE
  /\ UNCHANGED <<vars, cmdq, app, svc, rxpend, crashed>>

(* em_sc_send_periodic from inv_init, once the worker has run its        *)
(* prologue if it preempts inv_init.  Before the worker has created the   *)
(* queue, sc->cmd_queue is NULL and xQueueSend's configASSERT aborts.     *)
AppSend ==
  /\ app # <<>>
  /\ WorkerStartsFirst => created
  /\ \/ /\ ~created
        /\ crashed' = TRUE
        /\ UNCHANGED <<cmdq, app>>
     \/ /\ created
        /\ Len(cmdq) < QueueLen
        /\ cmdq' = Append(cmdq, Head(app))
        /\ app' = Tail(app)
        /\ UNCHANGED crashed
  /\ UNCHANGED <<vars, created, svc, rxpend>>

(* The "Sender" timer expires; the timer service calls sender_timer_cb. *)
TimerExpire ==
  /\ timer_armed
  /\ svc = "idle"
  /\ timer_armed' = FALSE
  /\ svc' = "sending"
  /\ UNCHANGED <<rq, last_rq_id, ring, line, failures, gen, nextGen, sends,
                 answered, acked, tx, arg, clock>>
  /\ UNCHANGED <<cmdq, created, app, rxpend, crashed>>

(* A sender_timer_cb that gives up on a full queue (a zero wait) instead *)
(* of waiting: a mutation of SvcSend.                                    *)
SvcSendOrDrop ==
  /\ svc = "sending"
  /\ svc' = "idle"
  /\ cmdq' = IF Len(cmdq) < QueueLen THEN Append(cmdq, TimerCmd) ELSE cmdq
  /\ UNCHANGED <<vars, created, app, rxpend, crashed>>

(* xQueueSend of SC_CMD_TIMER in sender_timer_cb, once there is room. *)
SvcSend ==
  /\ svc = "sending"
  /\ Len(cmdq) < QueueLen
  /\ cmdq' = Append(cmdq, TimerCmd)
  /\ svc' = "idle"
  /\ UNCHANGED <<vars, created, app, rxpend, crashed>>

(* rx_task: uart_read_bytes returns a chunk, handed to uart_rx_cb. *)
UartRead ==
  /\ line # <<>>
  /\ rxpend = <<>>
  /\ rxpend' = <<Head(line)>>
  /\ line' = Tail(line)
  /\ UNCHANGED <<rq, last_rq_id, timer_armed, ring, failures, gen, nextGen,
                 sends, answered, acked, tx, arg, clock>>
  /\ UNCHANGED <<cmdq, created, app, svc, crashed>>

(* A uart_rx_cb that writes into the queue without checking for room:   *)
(* a mutation of UartSend.                                               *)
UartSendNoWait ==
  /\ rxpend # <<>>
  /\ cmdq' = Append(cmdq, DataCmd(Head(rxpend)))
  /\ rxpend' = <<>>
  /\ UNCHANGED <<vars, created, app, svc, crashed>>

(* xQueueSend of SC_CMD_PROCESS_DATA in uart_rx_cb, once there is room. *)
UartSend ==
  /\ rxpend # <<>>
  /\ Len(cmdq) < QueueLen
  /\ cmdq' = Append(cmdq, DataCmd(Head(rxpend)))
  /\ rxpend' = <<>>
  /\ UNCHANGED <<vars, created, app, svc, crashed>>

-----------------------------------------------------------------------------
(* A loop that takes the command with xQueuePeek, leaving it in the      *)
(* queue: a mutation of Received.                                         *)
ReceivedPeek(type) ==
  /\ created
  /\ cmdq # <<>>
  /\ Head(cmdq).type = type
  /\ UNCHANGED cmdq

(* The worker's loop: xQueueReceive, then the case for the command type. *)
Received(type) ==
  /\ created
  /\ cmdq # <<>>
  /\ Head(cmdq).type = type
  /\ cmdq' = Tail(cmdq)

WorkerAdd ==
  /\ Received("add_periodic")
  /\ AddPeriodicRq(Head(cmdq).id, Head(cmdq).period)
  /\ UNCHANGED <<created, app, svc, rxpend, crashed>>

WorkerRemove ==
  /\ Received("rm")
  /\ RemovePeriodicRq(Head(cmdq).id)
  /\ UNCHANGED <<created, app, svc, rxpend, crashed>>

(* SC_CMD_TIMER: send_rq, with the timer as it is now (an add may have  *)
(* restarted it since it expired).                                       *)
WorkerTimer ==
  /\ Received("timer")
  /\ SendRq(timer_armed)
  /\ UNCHANGED <<created, app, svc, rxpend, crashed>>

(* SC_CMD_PROCESS_DATA: process_data on the chunk. *)
WorkerData ==
  /\ Received("data")
  /\ ProcessData(Head(cmdq).frame)
  /\ UNCHANGED line
  /\ UNCHANGED <<created, app, svc, rxpend, crashed>>

Worker ==
  \/ WorkerStart \/ WorkerAdd \/ WorkerRemove \/ WorkerTimer \/ WorkerData

(* An abort halts every task. *)
TNext ==
  /\ ~crashed
  /\ \/ Worker
     \/ AppSend
     \/ TimerExpire \/ SvcSend
     \/ UartRead \/ UartSend

TSpec == TInit /\ [][TNext]_allvars

(* FreeRTOS runs every ready task eventually: each task's step is weakly *)
(* fair.  A send waiting on a full queue is strongly fair: each slot the *)
(* worker frees wakes a waiting sender, and the other producers cannot   *)
(* refill the queue at every turn (a tick is a period of at least 100 ms *)
(* apart, a chunk needs bytes from the line), which the untimed model    *)
(* would otherwise allow.  None is assumed of the device.                *)
TFairSpec ==
  /\ TSpec
  /\ WF_allvars(~crashed /\ Worker)
  /\ SF_allvars(~crashed /\ AppSend)
  /\ WF_allvars(~crashed /\ TimerExpire) /\ SF_allvars(~crashed /\ SvcSend)
  /\ WF_allvars(~crashed /\ UartRead) /\ SF_allvars(~crashed /\ UartSend)

-----------------------------------------------------------------------------
(* Properties *)

Cmd == {AddCmd(c.id, c.period) : c \in Range(AppCalls)}
       \cup {RmCmd(id) : id \in Ids} \cup {DataCmd(f) : f \in Frame}
       \cup {TimerCmd}

TTypeOK ==
  /\ TypeOK
  /\ cmdq \in Seq(Cmd) /\ Len(cmdq) <= QueueLen
  /\ created \in BOOLEAN
  /\ svc \in {"idle", "sending"}
  /\ rxpend \in Seq(Frame) /\ Len(rxpend) <= 1
  /\ crashed \in BOOLEAN

(* No request is stranded across the tasks: while a slot is active the   *)
(* timer runs, or its expiry is on its way to the worker (in             *)
(* sender_timer_cb or in the queue).  Breaks if sender_timer_cb could    *)
(* lose a tick, or the worker could stop the timer with slots active.    *)
TickPending ==
  ActiveSlots(rq) # {} =>
    \/ timer_armed
    \/ svc = "sending"
    \/ \E i \in 1..Len(cmdq) : cmdq[i].type = "timer"

(* inv_init never uses the command queue before the worker created it.   *)
QueueCreatedBeforeUse == ~crashed

(* Spec section 6: inbound bytes meeting a full queue are dropped, never *)
(* a stall of the receive side.                                          *)
UartRxNeverStalls ==
  ~(rxpend # <<>> /\ Len(cmdq) = QueueLen)

(* inv_init eventually returns: every one of its periodic requests gets *)
(* into the queue.                                                      *)
AppInitCompletes == <>(app = <<>>)

=============================================================================
