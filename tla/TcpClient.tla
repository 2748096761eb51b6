------------------------------ MODULE TcpClient ------------------------------
(***************************************************************************)
(* The TCP client of the device (em_tcp_client/tcp_client.c) together with *)
(* the send path of the protocol (em_tcp_protocol/sender.c, send_data) and *)
(* the ONLINE/OFFLINE glue of the event loop (main/modules/evt/sys_evt.c). *)
(*                                                                         *)
(* Three tasks share three FreeRTOS queues: producers hand a buffer to     *)
(* send_q and then a CMD_SEND to cmd_q; the tx task serves cmd_q           *)
(* (CONNECT, DISCONNECT, SEND, LONG_RECONNECTION_DELAY); the rx task is    *)
(* switched by rx_q (SUSPEND/RESUME) and polls the socket.  The socket,    *)
(* Wi-Fi, the scheduler's connect timer and the access-point handler are   *)
(* the environment.  A buffer is a number 1..NumBufs and "freed" counts    *)
(* the em_buffer_free calls on it.                                         *)
(***************************************************************************)
EXTENDS Naturals, Sequences

CONSTANTS
  NumBufs,    \* buffers the producers allocate in one behaviour
  CmdQMax,    \* CONFIG_EM_TCP_CMD_MSG_Q_MAX
  SendQMax,   \* CONFIG_EM_TCP_TX_SEND_MSG_Q_MAX
  RxQMax,     \* CONFIG_EM_TCP_RX_STATE_MSG_Q_MAX
  EvQMax,     \* CONFIG_ESP_SYSTEM_EVENT_QUEUE_SIZE of the default loop
  MaxFaults   \* failures of Wi-Fi, the link and the server in one behaviour

ASSUME NumBufs \in Nat /\ MaxFaults \in Nat
ASSUME {CmdQMax, SendQMax, RxQMax, EvQMax} \subseteq Nat \ {0}

(* The tasks that call protocol_send_*: the rx task (the dispatcher's     *)
(* status reply), the event loop (client info on ONLINE), any other task. *)
Producers == {"rx", "evt", "app"}
Bufs == 1..NumBufs
Cmds == {"connect", "disconnect", "send", "long"}
(* EM_TCP_CLIENT_EVENTs: sys_evt acts on ONLINE and OFFLINE; "other" is   *)
(* CONN_ERROR, RX_ERROR, TX_ERROR or TX_STATUS, which take a slot too.    *)
Events == {"online", "offline", "other"}
(* The tasks that call submit_tcp_client_*: the tx task, the rx task, the *)
(* event loop (wifi_disconnected_handler) and the scheduler's timer       *)
(* (connect_handler).                                                     *)
Submitters == {"tx", "rx", "evt", "tmr"}
NoSub == [cmd |-> "none", post |-> <<>>]

VARIABLES
  conn,       \* conn_state
  sock,       \* ssl_handle: "closed", "open", or "broken" by the network
  wifi,       \* em_wifi_sta_is_connected
  sched,      \* connect_handler has a scheduler entry
  longDelay,  \* tx_task's conn_delay_offset_ms is the long one
  cmdq, sendq, rxq,
  txPc,       \* "opening": the tx task is inside open_conn_handler
  rxState,    \* rx_task's task_state
  rxWait,     \* rx_task's state_duration: "forever" or a finite "timed"
  txHandler,  \* sender.c net_tx_handler is em_tcp_client_send
  evq,        \* events posted to the default event loop
  pc, buf,    \* each producer's step in send_data and its buffer
  nextBuf,    \* buffers allocated so far
  freed,      \* em_buffer_free calls per buffer
  faults,
  sub,        \* each task's submit_tcp_client_* between its xQueueReset
              \* and its xQueueSend: the command and the events it posts next
  aborted     \* an assert failed: the device aborts

vars == <<conn, sock, wifi, sched, longDelay, cmdq, sendq, rxq, txPc, rxState,
          rxWait, txHandler, evq, pc, buf, nextBuf, freed, faults, sub, aborted>>

TypeOK ==
  /\ conn \in {"disconnected", "connecting", "connected"}
  /\ sock \in {"closed", "open", "broken"}
  /\ wifi \in BOOLEAN /\ sched \in BOOLEAN /\ longDelay \in BOOLEAN
  /\ cmdq \in Seq(Cmds) /\ Len(cmdq) <= CmdQMax
  /\ sendq \in Seq(Bufs) /\ Len(sendq) <= SendQMax
  /\ rxq \in Seq({"suspend", "resume"}) /\ Len(rxq) <= RxQMax
  /\ txPc \in {"idle", "opening"}
  /\ rxState \in {"suspend", "resume"} /\ rxWait \in {"forever", "timed"}
  /\ txHandler \in BOOLEAN /\ evq \in Seq(Events) /\ Len(evq) <= EvQMax
  /\ pc \in [Producers -> {"idle", "send_q", "cmd_q"}]
  /\ buf \in [Producers -> 0..NumBufs] /\ nextBuf \in 0..NumBufs
  /\ freed \in [Bufs -> 0..2] /\ faults \in 0..MaxFaults /\ aborted \in BOOLEAN
  /\ sub \in [Submitters -> [cmd : {"none", "connect", "disconnect"}, post : Seq(Events)]]

(* em_tcp_client_init: tasks created, queues empty, nothing connected.    *)
(* This is also the state after a restart, when RAM is lost.              *)
Volatile ==
  /\ conn = "disconnected" /\ sock = "closed" /\ wifi = FALSE
  /\ sched = FALSE /\ longDelay = FALSE
  /\ cmdq = <<>> /\ sendq = <<>> /\ rxq = <<>> /\ txPc = "idle"
  /\ rxState = "suspend" /\ rxWait = "forever"
  /\ txHandler = FALSE /\ evq = <<>>
  /\ pc = [p \in Producers |-> "idle"] /\ buf = [p \in Producers |-> 0]
  /\ sub = [t \in Submitters |-> NoSub]
  /\ aborted = FALSE

Init == Volatile /\ nextBuf = 0 /\ freed = [b \in Bufs |-> 0] /\ faults = 0

-----------------------------------------------------------------------------
(* Helpers for the calls the handlers share.                               *)

em_buffer_free(b) == freed' = [freed EXCEPT ![b] = @ + 1]

(* submit_tcp_client_disconnect / submit_tcp_client_connect on task t,  *)
(* first step: xQueueReset(cmd_q).  es are the events t posts after it.  *)
submit_tcp_client(t, c, es) ==
  /\ cmdq' = <<>>
  /\ sub' = [sub EXCEPT ![t] = [cmd |-> c, post |-> es]]

(* xQueueSend(rx_q, .., 0) followed by assert(ret == pdTRUE).             *)
RxRoom == Len(rxq) < RxQMax
PushRx(s) == rxq' = IF RxRoom THEN Append(rxq, s) ELSE rxq

(* ESP_ERROR_CHECK(esp_event_post(.., 0)) of the events es, in order.     *)
EvRoom(es) == Len(evq) + Len(es) <= EvQMax
Post(es) == evq' = IF EvRoom(es) THEN evq \o es ELSE evq

(* A protocol_send_* call: buffer_dynamic_alloc and serialize, then       *)
(* send_data(buf) from task p.                                            *)
Alloc(p) ==
  /\ nextBuf < NumBufs
  /\ nextBuf' = nextBuf + 1
  /\ buf' = [buf EXCEPT ![p] = nextBuf + 1]
  /\ pc' = [pc EXCEPT ![p] = "send_q"]


-----------------------------------------------------------------------------
(* Producers: send_data (sender.c) calling em_tcp_client_send, whose two  *)
(* queue sends are two steps: another task runs between them.  A send    *)
(* with a timeout fails only on a queue that stays full; waiting and then *)
(* succeeding is the same step taken later.                               *)

(* send_data up to xQueueSend(send_q): no handler registered, send_q full *)
(* (ESP_FAIL, send_data frees the buffer), or the buffer is queued.       *)
SendData(p) ==
  /\ ~aborted /\ pc[p] = "send_q"
  /\ \/ /\ ~txHandler \/ Len(sendq) = SendQMax
        /\ em_buffer_free(buf[p])
        /\ pc' = [pc EXCEPT ![p] = "idle"]
        /\ UNCHANGED sendq
     \/ /\ txHandler /\ Len(sendq) < SendQMax
        /\ sendq' = Append(sendq, buf[p])
        /\ pc' = [pc EXCEPT ![p] = "cmd_q"]
        /\ UNCHANGED freed
  /\ UNCHANGED <<conn, sock, wifi, sched, longDelay, cmdq, rxq, txPc, rxState,
                 rxWait, txHandler, evq, buf, nextBuf, faults, aborted, sub>>

(* A CMD_SEND written without checking for room: a mutation of          *)
(* SubmitSend.                                                            *)
SubmitSendNoRoom(p) ==
  /\ ~aborted /\ pc[p] = "cmd_q"
  /\ cmdq' = Append(cmdq, "send")
  /\ pc' = [pc EXCEPT ![p] = "idle"]
  /\ UNCHANGED <<conn, sock, wifi, sched, longDelay, sendq, rxq, txPc, rxState,
                 rxWait, txHandler, evq, buf, nextBuf, freed, faults, aborted, sub>>

(* xQueueSend(cmd_q, CMD_SEND): on a full cmd_q em_tcp_client_send        *)
(* returns ESP_FAIL and send_data frees the buffer it already queued.     *)
SubmitSend(p) ==
  /\ ~aborted /\ pc[p] = "cmd_q"
  /\ \/ /\ Len(cmdq) < CmdQMax
        /\ cmdq' = Append(cmdq, "send")
        /\ UNCHANGED freed
     \/ /\ Len(cmdq) = CmdQMax
        /\ em_buffer_free(buf[p])
        /\ UNCHANGED cmdq
  /\ pc' = [pc EXCEPT ![p] = "idle"]
  /\ UNCHANGED <<conn, sock, wifi, sched, longDelay, sendq, rxq, txPc, rxState,
                 rxWait, txHandler, evq, buf, nextBuf, faults, aborted, sub>>

(* Any other task sends a message (inverter data, status, ...).           *)
AppSend ==
  /\ ~aborted /\ pc["app"] = "idle"
  /\ Alloc("app")
  /\ UNCHANGED <<conn, sock, wifi, sched, longDelay, cmdq, sendq, rxq, txPc,
                 rxState, rxWait, txHandler, evq, freed, faults, aborted, sub>>

(* The event loop runs tcp_client_event_handler on the next event: ONLINE *)
(* registers em_tcp_client_send and sends the client info, OFFLINE        *)
(* unregisters the handler.  Past NumBufs the client info is not sent.    *)
EventLoop ==
  /\ ~aborted /\ pc["evt"] = "idle" /\ sub["evt"] = NoSub /\ evq # <<>>
  /\ evq' = Tail(evq)
  /\ txHandler' = CASE Head(evq) = "online"  -> TRUE
                    [] Head(evq) = "offline" -> FALSE
                    [] OTHER                 -> txHandler
  /\ IF Head(evq) = "online" /\ nextBuf < NumBufs
       THEN Alloc("evt")
       ELSE UNCHANGED <<pc, buf, nextBuf>>
  /\ UNCHANGED <<conn, sock, wifi, sched, longDelay, cmdq, sendq, rxq, txPc,
                 rxState, rxWait, freed, faults, sub, aborted>>

-----------------------------------------------------------------------------
(* The tx task: one step per command taken from cmd_q.                    *)

TxIdle == ~aborted /\ txPc = "idle" /\ sub["tx"] = NoSub /\ cmdq # <<>>

(* CMD_CONNECT: STATE_CONNECTING, then open_conn_handler blocks.          *)
TxConnect ==
  /\ TxIdle /\ Head(cmdq) = "connect"
  /\ cmdq' = Tail(cmdq) /\ conn' = "connecting" /\ txPc' = "opening"
  /\ UNCHANGED <<sock, wifi, sched, longDelay, sendq, rxq, rxState, rxWait,
                 txHandler, evq, pc, buf, nextBuf, freed, faults, aborted, sub>>

(* open_conn_handler returns.  Success: RESUME to rx_q (asserted), short  *)
(* delay, STATE_CONNECTED, ONLINE.  Failure (no route, DNS, TLS): submit  *)
(* a disconnect; CONN_ERROR is ignored by sys_evt.                        *)
TxConnectDone ==
  /\ ~aborted /\ txPc = "opening" /\ txPc' = "idle"
  /\ \/ /\ wifi
        /\ sock' = "open" /\ PushRx("resume")
        /\ longDelay' = FALSE /\ conn' = "connected"
        /\ Post(<<"online">>)
        /\ aborted' = ~(RxRoom /\ EvRoom(<<"online">>))
        /\ UNCHANGED <<cmdq, faults, sub>>
     \/ /\ ~wifi \/ faults < MaxFaults
        /\ faults' = IF wifi THEN faults + 1 ELSE faults
        /\ submit_tcp_client("tx", "disconnect", <<"other">>)
        /\ UNCHANGED <<sock, rxq, longDelay, conn, evq, aborted>>
  /\ UNCHANGED <<wifi, sched, sendq, rxState, rxWait, txHandler, pc, buf,
                 nextBuf, freed>>

(* A DISCONNECT handler that does not reschedule connect_handler: a      *)
(* mutation of TxDisconnect.                                              *)
TxDisconnectNoReconnect ==
  /\ TxIdle /\ Head(cmdq) = "disconnect"
  /\ cmdq' = Tail(cmdq) /\ conn' = "disconnected" /\ sock' = "closed"
  /\ Post(<<"offline">>) /\ aborted' = ~EvRoom(<<"offline">>)
  /\ UNCHANGED <<wifi, sched, longDelay, sendq, rxq, txPc, rxState, rxWait,
                 txHandler, pc, buf, nextBuf, freed, faults, sub>>

(* CMD_DISCONNECT: STATE_DISCONNECTED, close, reschedule connect_handler  *)
(* when Wi-Fi is up, OFFLINE.                                             *)
TxDisconnect ==
  /\ TxIdle /\ Head(cmdq) = "disconnect"
  /\ cmdq' = Tail(cmdq) /\ conn' = "disconnected" /\ sock' = "closed"
  /\ sched' = (sched \/ wifi)
  /\ Post(<<"offline">>) /\ aborted' = ~EvRoom(<<"offline">>)
  /\ UNCHANGED <<wifi, longDelay, sendq, rxq, txPc, rxState, rxWait,
                 txHandler, pc, buf, nextBuf, freed, faults, sub>>

(* send_handler returns ESP_FAIL: it took a buffer while not connected,  *)
(* or esp_transport_write failed.  A write on a closed socket fails; one  *)
(* on a link the network broke may still be accepted by the TCP stack,   *)
(* so the failure may come only with a later write or the rx poll.       *)
SendHandlerMayFail == sendq # <<>> /\ ~(conn = "connected" /\ sock = "open")
SendHandlerMaySucceed == ~SendHandlerMayFail \/ (conn = "connected" /\ sock = "broken")

(* A tx task that reads the command with xQueuePeek, leaving a served    *)
(* CMD_SEND in cmd_q: a mutation of TxSend.                               *)
TxSendPeek ==
  /\ TxIdle /\ Head(cmdq) = "send"
  /\ \/ /\ SendHandlerMayFail
        /\ submit_tcp_client("tx", "disconnect", <<"other", "other">>)
        /\ UNCHANGED <<evq, aborted>>
     \/ /\ SendHandlerMaySucceed
        /\ cmdq' = cmdq
        /\ Post(<<"other">>) /\ aborted' = ~EvRoom(<<"other">>)
        /\ UNCHANGED sub
  /\ IF sendq = <<>>
       THEN UNCHANGED <<sendq, freed>>
       ELSE sendq' = Tail(sendq) /\ em_buffer_free(Head(sendq))
  /\ UNCHANGED <<conn, sock, wifi, sched, longDelay, rxq, txPc, rxState,
                 rxWait, txHandler, pc, buf, nextBuf, faults>>

(* CMD_SEND: send_handler takes the head of send_q and frees it; when not *)
(* connected, or when the write fails, ESP_FAIL submits a disconnect and  *)
(* posts TX_ERROR.  An empty send_q is ESP_ERR_NOT_FOUND.  TX_STATUS is   *)
(* posted in every case.                                                  *)
TxSend ==
  /\ TxIdle /\ Head(cmdq) = "send"
  /\ \/ /\ SendHandlerMayFail
        /\ submit_tcp_client("tx", "disconnect", <<"other", "other">>)
        /\ UNCHANGED <<evq, aborted>>
     \/ /\ SendHandlerMaySucceed
        /\ cmdq' = Tail(cmdq)
        /\ Post(<<"other">>) /\ aborted' = ~EvRoom(<<"other">>)
        /\ UNCHANGED sub
  /\ IF sendq = <<>>
       THEN UNCHANGED <<sendq, freed>>
       ELSE sendq' = Tail(sendq) /\ em_buffer_free(Head(sendq))
  /\ UNCHANGED <<conn, sock, wifi, sched, longDelay, rxq, txPc, rxState,
                 rxWait, txHandler, pc, buf, nextBuf, faults>>

(* CMD_LONG_RECONNECTION_DELAY.                                           *)
TxLongDelay ==
  /\ TxIdle /\ Head(cmdq) = "long"
  /\ cmdq' = Tail(cmdq) /\ longDelay' = TRUE
  /\ UNCHANGED <<conn, sock, wifi, sched, sendq, rxq, txPc, rxState, rxWait,
                 txHandler, evq, pc, buf, nextBuf, freed, faults, aborted, sub>>


-----------------------------------------------------------------------------
(* An rx task that only goes to sleep on a socket error, without        *)
(* submitting a disconnect: a mutation of RxTask.                         *)
RxTaskNoDisconnect ==
  /\ ~aborted /\ pc["rx"] = "idle" /\ sub["rx"] = NoSub
  /\ rxq # <<>> \/ rxWait = "timed"
  /\ LET st == IF rxq # <<>> THEN Head(rxq) ELSE rxState
         rest == IF rxq # <<>> THEN Tail(rxq) ELSE rxq
     IN /\ rxq' = rest /\ rxState' = st
        /\ \/ /\ st = "suspend" /\ rxWait' = "forever"
              /\ UNCHANGED <<cmdq, pc, buf, nextBuf, evq, aborted, sub>>
           \/ /\ st = "resume" /\ sock = "open" /\ rxWait' = "timed"
              /\ UNCHANGED <<cmdq, pc, buf, nextBuf, evq, aborted, sub>>
           \/ /\ st = "resume" /\ sock # "open" /\ rxWait' = "forever"
              /\ UNCHANGED <<cmdq, pc, buf, nextBuf, evq, aborted, sub>>
           \/ /\ st = "resume" /\ sock = "open" /\ rxWait' = "timed"
              /\ Alloc("rx")
              /\ \E long \in BOOLEAN :
                   cmdq' = IF long /\ Len(cmdq) < CmdQMax
                             THEN Append(cmdq, "long") ELSE cmdq
              /\ UNCHANGED <<evq, aborted, sub>>
  /\ UNCHANGED <<conn, sock, wifi, sched, longDelay, sendq, txPc, txHandler,
                 freed, faults>>

(* The rx task: one pass of its loop.  xQueueReceive(rx_q) returns the    *)
(* next state or, after a finite wait, leaves task_state as it was.  On   *)
(* RESUME it polls the socket: nothing to read (sleep), an error (submit  *)
(* a disconnect, wait for rx_q), or a message, which the dispatcher       *)
(* (receiver.c) answers through send_data from this task, possibly after  *)
(* em_tcp_client_set_long_reconnecting_delay (dispatcher.c).             *)
RxTask ==
  /\ ~aborted /\ pc["rx"] = "idle" /\ sub["rx"] = NoSub
  /\ rxq # <<>> \/ rxWait = "timed"
  /\ LET st == IF rxq # <<>> THEN Head(rxq) ELSE rxState
         rest == IF rxq # <<>> THEN Tail(rxq) ELSE rxq
     IN /\ rxq' = rest /\ rxState' = st
        /\ \/ /\ st = "suspend" /\ rxWait' = "forever"
              /\ UNCHANGED <<cmdq, pc, buf, nextBuf, evq, aborted, sub>>
           \/ /\ st = "resume" /\ sock = "open" /\ rxWait' = "timed"
              /\ UNCHANGED <<cmdq, pc, buf, nextBuf, evq, aborted, sub>>
           \/ /\ st = "resume" /\ sock # "open" /\ rxWait' = "forever"
              /\ submit_tcp_client("rx", "disconnect", <<"other">>)
              /\ UNCHANGED <<pc, buf, nextBuf, evq, aborted>>
           \/ /\ st = "resume" /\ sock = "open" /\ rxWait' = "timed"
              /\ Alloc("rx")
              /\ \E long \in BOOLEAN :
                   cmdq' = IF long /\ Len(cmdq) < CmdQMax
                             THEN Append(cmdq, "long") ELSE cmdq
              /\ UNCHANGED <<evq, aborted, sub>>
  /\ UNCHANGED <<conn, sock, wifi, sched, longDelay, sendq, txPc, txHandler,
                 freed, faults>>

-----------------------------------------------------------------------------
(* The environment.                                                       *)

(* The scheduler's timer runs connect_handler (scheduler.c               *)
(* callback_wrapper clears the entry first).                              *)
ConnectTimer ==
  /\ ~aborted /\ sched /\ sub["tmr"] = NoSub
  /\ sched' = FALSE /\ submit_tcp_client("tmr", "connect", <<>>)
  /\ UNCHANGED <<conn, sock, wifi, longDelay, sendq, rxq, txPc, rxState,
                 rxWait, txHandler, evq, pc, buf, nextBuf, freed, faults, aborted>>

(* IP_EVENT_STA_GOT_IP: ip_assigned_handler schedules connect_handler.    *)
IpAssigned ==
  /\ ~aborted /\ ~wifi
  /\ wifi' = TRUE /\ sched' = TRUE
  /\ UNCHANGED <<conn, sock, longDelay, cmdq, sendq, rxq, txPc, rxState,
                 rxWait, txHandler, evq, pc, buf, nextBuf, freed, faults, aborted, sub>>

(* The station loses the access point; an open connection breaks.  No     *)
(* handler of tcp_client.c is registered for this event.                  *)
WifiLost ==
  /\ ~aborted /\ wifi /\ faults < MaxFaults
  /\ wifi' = FALSE /\ faults' = faults + 1
  /\ sock' = IF sock = "open" THEN "broken" ELSE sock
  /\ UNCHANGED <<conn, sched, longDelay, cmdq, sendq, rxq, txPc, rxState,
                 rxWait, txHandler, evq, pc, buf, nextBuf, freed, aborted, sub>>

(* The server or the network drops an open connection.                    *)
PeerDrop ==
  /\ ~aborted /\ sock = "open" /\ faults < MaxFaults
  /\ sock' = "broken" /\ faults' = faults + 1
  /\ UNCHANGED <<conn, wifi, sched, longDelay, cmdq, sendq, rxq, txPc, rxState,
                 rxWait, txHandler, evq, pc, buf, nextBuf, freed, aborted, sub>>

(* WIFI_EVENT_AP_STADISCONNECTED: wifi_disconnected_handler, on the event *)
(* loop task, submits a disconnect and suspends the rx task unless        *)
(* already disconnected.                                                  *)
ApStaDisconnected ==
  /\ ~aborted /\ faults < MaxFaults /\ pc["evt"] = "idle" /\ sub["evt"] = NoSub
  /\ faults' = faults + 1
  /\ IF conn = "disconnected"
       THEN UNCHANGED <<cmdq, sub>>
       ELSE submit_tcp_client("evt", "disconnect", <<>>)
  /\ UNCHANGED <<rxq, aborted>>
  /\ UNCHANGED <<conn, sock, wifi, sched, longDelay, sendq, txPc, rxState,
                 rxWait, txHandler, evq, pc, buf, nextBuf, freed>>

(* submit_tcp_client_*, second step: xQueueSend(cmd_q, .., 0) and its     *)
(* assert, which fails when other tasks filled cmd_q since the reset;     *)
(* then the caller's events (ESP_ERROR_CHECK on each post) and, for       *)
(* wifi_disconnected_handler, the SUSPEND to rx_q (asserted).             *)
SubmitFinish(t) ==
  /\ ~aborted /\ sub[t] # NoSub
  /\ \/ /\ Len(cmdq) < CmdQMax
        /\ cmdq' = Append(cmdq, sub[t].cmd)
        /\ Post(sub[t].post)
        /\ IF t = "evt" THEN PushRx("suspend") ELSE UNCHANGED rxq
        /\ aborted' = ~(EvRoom(sub[t].post) /\ (t = "evt" => RxRoom))
     \/ /\ Len(cmdq) = CmdQMax
        /\ aborted' = TRUE
        /\ UNCHANGED <<cmdq, evq, rxq>>
  /\ sub' = [sub EXCEPT ![t] = NoSub]
  /\ UNCHANGED <<conn, sock, wifi, sched, longDelay, sendq, txPc, rxState,
                 rxWait, txHandler, pc, buf, nextBuf, freed, faults>>

(* A failed assert aborts and the panic handler reboots the device into   *)
(* em_tcp_client_init again.  Buffers in flight are lost with the RAM.    *)
Restart ==
  /\ aborted
  /\ conn' = "disconnected" /\ sock' = "closed" /\ wifi' = FALSE
  /\ sched' = FALSE /\ longDelay' = FALSE
  /\ cmdq' = <<>> /\ sendq' = <<>> /\ rxq' = <<>> /\ txPc' = "idle"
  /\ rxState' = "suspend" /\ rxWait' = "forever"
  /\ txHandler' = FALSE /\ evq' = <<>>
  /\ pc' = [p \in Producers |-> "idle"] /\ buf' = [p \in Producers |-> 0]
  /\ sub' = [t \in Submitters |-> NoSub]
  /\ aborted' = FALSE
  /\ UNCHANGED <<nextBuf, freed, faults>>

-----------------------------------------------------------------------------
Tx == TxConnect \/ TxConnectDone \/ TxDisconnect \/ TxSend \/ TxLongDelay

Produce == \E p \in Producers : SendData(p) \/ SubmitSend(p)

Environment == IpAssigned \/ WifiLost \/ PeerDrop \/ ApStaDisconnected

Submit == \E t \in Submitters : SubmitFinish(t)

Next == Tx \/ RxTask \/ Produce \/ AppSend \/ EventLoop \/ ConnectTimer
        \/ Submit \/ Environment \/ Restart

Spec == Init /\ [][Next]_vars

(* Every task runs when it can, and the scheduler's timer expires: weak   *)
(* fairness for the tasks and the timer, none for the environment and     *)
(* for the other tasks' decision to send.                                 *)
FairSpec ==
  /\ Spec
  /\ WF_vars(Tx) /\ WF_vars(RxTask) /\ WF_vars(Produce)
  /\ WF_vars(EventLoop) /\ WF_vars(ConnectTimer) /\ WF_vars(Restart)
  /\ WF_vars(Submit)

-----------------------------------------------------------------------------
(* Properties.                                                            *)

SendCount(q) == Len(SelectSeq(q, LAMBDA c : c = "send"))

(* em_tcp_client_send queues the buffer before its CMD_SEND, and the      *)
(* resets drop commands only: every CMD_SEND in cmd_q finds a buffer in   *)
(* send_q, so send_handler's ESP_ERR_NOT_FOUND branch is dead.            *)
SendCmdHasBuffer == SendCount(cmdq) <= Len(sendq)

(* send_q owns its buffers: no buffer still queued for the tx task has    *)
(* been freed by send_data (else send_handler reads and frees it again).  *)
QueuedBuffersLive == \A i \in 1..Len(sendq) : freed[sendq[i]] = 0

(* No assert or ESP_ERROR_CHECK of the client fails: the sends of        *)
(* submit_tcp_client_* after their xQueueReset, rx_q full on RESUME or    *)
(* SUSPEND, and the event posts of the tasks.                             *)
NoAbort == ~aborted

(* With Wi-Fi up, a disconnected client reconnects: the DISCONNECT        *)
(* handler or ip_assigned_handler schedules connect_handler, and no reset *)
(* of cmd_q loses the last CONNECT for good.                              *)
Reconnects == (wifi /\ conn = "disconnected") ~> (conn = "connected" \/ ~wifi)

(* A connection broken under a client that believes it is connected is   *)
(* eventually noticed (by the rx task's poll or a failed write) and torn  *)
(* down.                                                                  *)
BrokenLinkDetected ==
  (conn = "connected" /\ sock # "open") ~> (conn # "connected")

=============================================================================
