# TLA+ models of the ES-inverter firmware

This directory holds TLA+ models of the ES-inverter firmware and the TLC
configurations that check them. The firmware runs on an ESP32 under ESP-IDF
and FreeRTOS. It polls a solar inverter over an RS232 line at 2400 baud,
reports to a server over TCP, and is provisioned over BLE.

The centre of the firmware is `em_serial_client`, a half-duplex
request/response engine. `spec.md` describes it, and it is what the models
cover first. The TCP client that carries the reports to the server,
`em_tcp_client`, is modelled with its tasks, queues and failures, and so
are the firmware update over HTTPS and the LED scenes.

## 1. The system and how its parts interact

| Part | Source | Role |
|---|---|---|
| Serial client worker | `em_serial_client/task.c` | A single FreeRTOS task. It reads one command at a time from a 2-slot queue (`SC_CMD_ADD_RQ`, `_ADD_RQ_PERIODIC`, `_RM_PERIODIC_RQ`, `_PROCESS_DATA`, `_TIMER`). It is the only writer of the request table, the ring buffer and `last_rq_id`. |
| Request table and scheduler | `tx.c`, `task.c` (`send_rq`, `schedule_next_timer_evt`) | `rq[MAX_RQS]`, scheduled earliest deadline first. The deadline is `timeout - since_last_sent`. The one-shot "Sender" timer is re-armed for the next deadline, and the delay is credited to every active slot in advance. |
| Response path | `rx.c` (`process_data`, `parse`, `packet_handler`, `ack_rsp`) | Bytes go into the ring. The plugin's parse function decides the status of each frame. `ack_rsp` retires a one-shot or resets a periodic request. The frame is attributed through `last_rq_id`. |
| Ring buffer | `em_ringbuf/ringbuf.c` | Byte ring that overwrites the oldest byte when full. |
| rs232 2400 plugin | `main/modules/rs232/rs232_2400_protocol.c` | Frame search, CRC16-XMODEM, NAK detection, per-command decoding, serialize. |
| Inverter application | `main/modules/inverter/inverter.c`, `msg_handlers.c` | Adds four periodic polls (QVFW 10 s, QPIGS 15 s, QPIWS and QMOD 600 s). The handlers would store the measurements, and the QVFW handler would remove its own poll; none runs, because `rs232_2400_rsp_parse` never reports `PARSE_STATUS_OK`. |
| Producers | `em_uart/uart_rx.c`, the FreeRTOS timer service, API callers | They push `PROCESS_DATA`, `TIMER` and add/remove commands onto the queue. Each blocks with `portMAX_DELAY`. |
| TCP client | `em_tcp_client/tcp_client.c` | A tx task serves `cmd_q` (`CMD_CONNECT`, `_DISCONNECT`, `_SEND`, `_LONG_RECONNECTION_DELAY`) and owns the socket. An rx task, switched by `rx_q` (SUSPEND/RESUME), polls the socket and hands messages to the dispatcher. `em_tcp_client_send` puts a buffer on `send_q` and then a `CMD_SEND` on `cmd_q`. A failure anywhere submits a disconnect that empties `cmd_q` first. Reconnection is scheduled through `em_scheduler`. |
| Send path and glue | `em_tcp_protocol/sender.c`, `receiver.c`, `main/modules/evt/sys_evt.c` | `protocol_send_*` allocate and serialize a buffer. `send_data` passes it to the registered handler, and frees it when there is none or the handler fails. The event loop registers `em_tcp_client_send` on ONLINE, sends the client info, and unregisters it on OFFLINE. The dispatcher answers each server message from the rx task. |
| Receive path | `em_tcp_client/tcp_client.c` (`rx_task`), `em_slip/slip.c`, `em_tcp_protocol/receiver.c`, `parser.c` | The rx task reads at most `CONFIG_EM_TCP_RX_BUFFER_SIZE` bytes, and hands them to `slip_static_data_decoder`. That decoder is a static whose `insideOfPacket` and `escActive` flags outlive the call and the connection. A packet found goes to `protocol_receiver_dispatcher`, which runs the length checks of the message type's `parse_*_msg` and gives an accepted message to the application. |
| Dispatcher and senders | `main/modules/dispatcher/dispatcher.c`, `em_tcp_protocol/serializer.c`, `sender.c`, `receiver.c` | `dispatcher_handler` switches on the message type. A GET, a SET_POSITION or a wireless SET is answered on the rx task with a `protocol_send_*` reply. `protocol_receiver_dispatcher` then sends a STATUS with the handler's result, except after a GET. Each reply goes through `send_data` onto `send_q`, and the tx task SLIP-encodes it with `slip_static_data_encoder` and writes it. |
| App scheduler | `em_scheduler/scheduler.c` | `scheduler_set_callback` and `scheduler_cancel_callback` run on the caller's task under `scheduler_mtx`. They update `scheduler_entry[]` at once, but reach the FreeRTOS timer of the entry only through commands (stop, change period, start) on the timer queue. The timer service task applies those commands later, and runs `callback_wrapper` when a timer expires. The wrapper takes the mutex, clears the entry and calls the callback, which may schedule itself again. Callers include the LED scenes, the BLE provisioning window, the storage debounce, the reboot and update handlers and the TCP reconnect. |
| LED scenes | `em_led_scene/scene.c`, `pwm_rgb.c`, `ws2812_rgb.c`, `main/modules/evt/led_scene_evt.c` | `event_handler` on the event loop turns each event into the scenes of `scenes_list[]`. The dispatcher's IDENTIFY handler raises a scene built from the message. `scene_change_handler` runs on the raising task and writes `active_scenes` with no lock. The blink scenes and SCENE_OFF also cancel `change_led_state` and set it again. `change_led_state` runs on the timer service, drives the LED through `led_if` (one of the two drivers), and reschedules itself for the next toggle. |
| Firmware update | `em_http_ota/http_ota.c`, `main/modules/update/update.c`, `sys_evt.c` (`http_ota_event_handler`), `dispatcher.c` (`update_start_handler`, `update_apply_handler`) | The rx task checks an UPDATE_START, stores version and policy in `update_state` and queues an OTA_START for the "ota" task. That task runs `handle_ota_process` one state per pass (BEGIN, TRANSFER, DOWNLOADED, FINISHED), polling its queue between passes, and posts each step on the event loop. The event loop's handler moves `update_state.phase`, stores the ABORT error, and on FINISHED calls `update_apply(0)`, which restarts at once under the immediate policy. UPDATE_INSTALL calls `update_apply` with the server's delay, through the scheduler when the delay is not 0. `update_state` has no lock. |
| Other components | storage, BLE, Wi-Fi, utilities | Inventoried in `PROJECT.json`. They are not modelled (section 7). |

## 2. Modules

### `SerialClient.tla`

This module models the worker's view of the engine. Each worker turn, that
is one `case` of the `switch` in `task()`, is one atomic action.

**State:**
- `rq`: the request table, one record of `rq_t` per slot. `payload` is
  TRUE when the buffer is allocated. `timeout` is kept to 16 bits, as the
  field is.
- `last_rq_id`.
- `timer_armed`: whether the one-shot timer is running.
- `ring`: whole frames, not yet consumed.
- `line`: frames the device has sent that the rx task has not yet delivered.
- `failures`: a bounded count of failed `em_uart_send` calls.
- Ghost variables for the properties:
  - `gen`: the request instance in each slot;
  - `sends`: transmissions since the last activation or acknowledgement;
  - `answered`;
  - `acked`: which instance was acknowledged, by whose frame;
  - `tx`: the slot sent in the last step;
  - `arg`: the `uint32` value the caller passed;
  - `clock`: virtual ms since the slot's clock last restarted.

**Actions:**

| Action | Code |
|---|---|
| `AddRq(id, timeout, retries)` | `add_rq`, including the full-table early return |
| `AddPeriodicRq(id, period)` | `add_periodic_rq` |
| `RemovePeriodicRq(id)` | `remove_periodic_rq`, with `KeepTimer` for the timer deletion |
| `TimerTick` | `sender_timer_cb` + `send_rq`, three outcomes |
| `RxProcess` | the `SC_CMD_PROCESS_DATA` case: `ProcessData(f)`, that is `process_data` / `parse` / `packet_handler` / `ack_rsp`, on the next frame of the line |

`TimerTick` has three outcomes:
- `NothingDue`: the earliest deadline is more than 50 ms away; re-arm.
- `SendFailed`: re-arm for 500 ms.
- `SendOk`: the retry policy `AfterSend`, re-arming for at least 100 ms,
  and the device either answering with a frame of a kind in `Replies` or
  staying silent.

**Helpers:**
- `SendIdx` and `EarliestDelay`: the minimum-deadline scans.
- `ScheduleNextTimerEvt` and `StartTimerAndCredit`.
- `AckSlot` and `AckRsp`: `ack_rsp`.
- `Deactivate`: `deactivate_rq`.
- `RingWrite`: `em_ringbuf_write`, with overwrite.
- `ParseStatus` and `Acknowledges`: the status switch of `parse`.
- `AckIndex`: the parse rounds of `process_data` up to the first frame
  that acknowledges.

**Abstractions:**
- Bytes are abstracted to frames. A frame is the id of the request that
  caused it, the ghost instance `gen`, and a kind: `answer`, `nak` or
  `badcrc`.
- The plugin is the table `StatusOf` from frame kind to parse status.
  `ReportsRspId` says whether it writes the answered id back.
- Time is the engine's own virtual time, the credits of
  `schedule_next_timer_evt`. That is exactly the clock the code reasons with.

### `SerialClientTasks.tla`

This module composes the worker with the tasks that feed it. It `EXTENDS
SerialClient`, and each worker case calls the `SerialClient` action for
that command. The command queue and the producers become explicit.

**State added:**
- `cmdq`: `sc->cmd_queue`, at most `QueueLen` (2) commands.
- `created`: the worker has run `xQueueCreateStatic` (task.c:30).
- `app`: the `em_sc_send_periodic` calls of `inv_init` not yet returned.
- `svc`: the timer service is inside `sender_timer_cb`, waiting to queue.
- `rxpend`: the chunk `uart_rx_cb` is waiting to queue.
- `crashed`: `xQueueSend` was called on the NULL queue.

**Actions:**

| Action | Code |
|---|---|
| `WorkerStart` | the prologue of `task()`: queue, ring and pimpl created |
| `AppSend` | `em_sc_send_periodic` from `inv_init`: aborts before the queue exists, else waits for room |
| `TimerExpire`, `SvcSend` | the timer expiring; `sender_timer_cb`'s send once there is room |
| `UartRead`, `UartSend` | `rx_task` reading a chunk; `uart_rx_cb`'s send once there is room |
| `WorkerAdd`, `WorkerRemove`, `WorkerTimer`, `WorkerData` | `xQueueReceive` and one case of the `switch`, running `AddPeriodicRq`, `RemovePeriodicRq`, `SendRq` or `ProcessData` |

A producer's step is split in two only where the code can wait between
the halves. The timer's expiry no longer sends by itself: `WorkerTimer`
runs `send_rq` with the timer as it is when the command is taken, so an
add that restarted the timer in between is seen.

`MC_SerialClientTasks.tla` gives `inv_init`'s first two calls, QVFW every
10 s and QPIGS every 15 s, in ms. No response handler runs: the shipped
plugin, `rs232_2400_rsp_parse`, never reports `PARSE_STATUS_OK`, so
`packet_handler` and `inv_fw_ver_handler`'s `em_sc_remove_periodic` are
never reached. `WorkerStartsFirst` says whether the worker has created its
queue before `inv_init` sends. `em_sc_send` has no caller in the firmware
and is not a producer here.

### `TcpClient.tla`

This module models the TCP client and the calls into it. Each task's
step between two blocking points is one action. The data of a message is
abstracted to a buffer number in `1..NumBufs`. The ghost `freed` counts
the `em_buffer_free` calls on each buffer.

**State:**
- `conn`: `conn_state`.
- `sock`: `ssl_handle`, either closed, open, or broken by the network.
- `wifi`: the station has an IP (`em_wifi_sta_is_connected`).
- `sched`: `connect_handler` has a scheduler entry.
- `longDelay`: the tx task's `conn_delay_offset_ms` is the long one.
- `cmdq`, `sendq`, `rxq`: the three queues, bounded by Kconfig lengths.
- `txPc`: the tx task is inside `open_conn_handler`.
- `rxState`, `rxWait`: the rx task's `task_state` and `state_duration`.
- `txHandler`: `net_tx_handler` of `sender.c`.
- `evq`: events waiting in the default event loop.
- `pc`, `buf`: each producer's place in `send_data` and its buffer. The
  producers are the rx task (the dispatcher's reply), the event loop
  (client info) and any other task.
- `sub`: for each task that submits a command (tx, rx, event loop, timer
  service), a `submit_tcp_client_*` between its `xQueueReset` and its
  `xQueueSend`: the command and the events its caller posts after it.
- `aborted`: an assert or `ESP_ERROR_CHECK` failed.

**Actions:**

| Action | Code |
|---|---|
| `AppSend`, `Alloc` | a `protocol_send_*` call: allocate, serialize, call `send_data` |
| `SendData` | `send_data` up to `xQueueSend(send_q)`: no handler, `send_q` full (the buffer is freed), or queued |
| `SubmitSend` | the `CMD_SEND` half of `em_tcp_client_send`; on a full `cmd_q` `send_data` frees the buffer |
| `EventLoop` | `tcp_client_event_handler` on the next event |
| `TxConnect`, `TxConnectDone` | `CMD_CONNECT`: CONNECTING, then `open_conn_handler`'s outcome |
| `TxDisconnect`, `TxSend`, `TxLongDelay` | the other cases of `tx_task` (`send_handler` for `CMD_SEND`; a write may fail or succeed on a broken link, which lwIP reports only later) |
| `SubmitFinish(t)` | the second half of `submit_tcp_client_*`: `xQueueSend(cmd_q, .., 0)` and its assert, then the caller's posts |
| `RxTask` | one pass of `rx_task`'s loop: suspend, empty poll, poll or read error, or a message answered through `send_data` |
| `ConnectTimer`, `IpAssigned`, `ApStaDisconnected` | `connect_handler`, `ip_assigned_handler`, `wifi_disconnected_handler` |
| `WifiLost`, `PeerDrop` | the environment: the station loses its AP, or the link breaks |
| `Restart` | the reboot after an abort, back to `em_tcp_client_init` |

Every post to the event loop is counted against `EvQMax`, the TX_STATUS
and *_ERROR events that `sys_evt` ignores included, because they take
slots of the same queue. `submit_tcp_client` is the `xQueueReset`;
`SubmitFinish` the send, so another task can fill `cmd_q` in between and
the assert aborts the device (`TcpSubmitAbort.cfg`).

### `MC_SerialClient.tla`

This module holds the model values:
- `Rs232Status`: what `rs232_2400_rsp_parse` really reports. Every
  configuration uses it: the plugin is in the repository, so the
  engine is checked against what it does, not against the contract of
  spec section 4.5.
- `SafetyView`: the state without the ghosts `acked`, `clock`, `arg` and
  `answered`, which no property of `SerialClient.cfg` reads; TLC
  fingerprints states by it.
- `MCIds = {3, 9}`: the enum values of QVFW and QPIGS.

### `Rs232Frame.tla`

This module models the byte-level receive path of the rs232 plugin:
`uart_rx_cb` chunks, `em_ringbuf_write` on the ring of `2 * MAX_PACKET_LEN`
bytes (task.c:33), `process_data`'s 8 rounds over a `MAX_PACKET_LEN` window,
`parse`'s 8 plugin calls, and `em_ringbuf_clear` of the consumed bytes.
- State: the bytes on the `line`, the `ring`, `last_rq_id`, the answer
  `cur` (its body, whether it is intact, and whether a parse passed it),
  the bodies `sent` and `heard`, and the answer and fault counters.
- Actions: `Transmit` (the worker sends a request), `InverterAnswers`
  (a frame `(` body CRC `\r`), `LineFault` (one byte changed to a
  delimiter or lost), and `UartRx` (a chunk of 1 to `MaxChunk` bytes and
  the whole `process_data` that follows it).
- `rs232_2400_rsp_parse` is an operator and keeps the code's order:
  - the last `(`;
  - the first `\r` after it;
  - the length checks;
  - the CRC comparison;
  - the NAK check;
  - the `rq_id` switch.

  Its `*err = 0` on success is kept, and it is truncated to 16 bits.
- `crc16_xmodem` is the table loop of the code, `crc16tab` included.
  `CrcMatchesReference` checks it against a bitwise CRC-16/XMODEM
  (polynomial 0x1021) over every single byte, pairs of edge bytes, and
  the frame of every answer sent.

`MC_Rs232Frame.tla` gives the request ids and the bodies. Their CRC bytes
are not `(` or `\r`, except the body `9`, which `Rs232CrcDelimiter.cfg`
uses.

### `SlipRx.tla`

The receive path of the TCP client, at byte level, from the server to the
application.

State:
- `records`: the TLS records on the connection, each one SLIP frame of a
  message;
- `sentCount`, `lost`: the messages the server has written, and those
  dropped with a connection;
- `inside`, `esc`: the static decoder's `insideOfPacket` and `escActive`;
- `handled`: the messages given to the application, in order;
- `breaks`, `aborted`: connection losses, and a failed assert on the rx task.

The server writes each message with `slip_encode` as one frame in one
record. `mbedtls` returns bytes of one record per read, so a read returns
the rest of the head record, up to the buffer size.

| Definition | Code |
|---|---|
| `slip_encode`, `EncodeFrom`, `Escape` | `slip_encode`, with its capacity checks |
| `decode`, `DecodeLoop`, `Unescape`, `Decoded` | `decode`, one byte per step. On a BEGIN inside a packet the code's `--processedNum` decrements the pointer, not the count, so the BEGIN is consumed; the model does the same. |
| `slip_decode` | the 16 rounds of `slip_decode`: a cut packet is skipped, an incomplete one kept, an error cleans the decoded buffer |
| `DecoderLoop`, `slip_static_data_decoder` | the assert on `len_in`, `slip_add_data`, the `while (!done)` loop (ERR_NONE decodes on), `slip_clear`, and ESP_OK only after `ERR_PACKET_START_NOT_FOUND` |
| `parse_*_msg`, `parse_msg_type`, `parse_message` | every parser's length check and assert, and the switch of `parse_message`. Field values stay the bytes sent. |
| `protocol_receiver_dispatcher` | the `msg_buffer` size assert, then `parse_message`'s `assert(data)` |
| `RxRead` | one pass of `rx_task` after a successful poll: read, decode, and dispatch `data_out` (NULL when no packet was decoded) |
| `LinkBreak` | a read error: the rx task disconnects, the client reconnects, and the records in flight are gone. The decoder is not reset. |
| `ServerSend` | the server |

`MC_SlipRx.tla` holds the messages (used by the further configurations
`SlipSplit.cfg` and `SlipCutAbort.cfg`):
- a `RELAY_SET_PWM` whose last three bytes are a valid `RELAY_SET_STATE`;
- an `IDENTIFY` whose fields are SLIP BEGIN and ESC;
- a `RELAY_SET_STATE` cut short, which its parser rejects;
- `REBOOT`;
- a `WIRELESS_SET_CHANNEL` whose channel is SLIP END.

### `RingQueue.tla` and `RingBuf.tla`

`RingQueue` is what `ringbuf.h` promises its caller (`process_data`): a byte
queue `q` of capacity `Capacity`.
- `Write` appends and keeps the newest `Capacity` bytes.
- `Clear(k)` drops the first `k`, or all of them when `k` is the length or more.
- `Flush` empties the queue.
- `Peek(n)` is what a read returns.

A ghost `call` records the last call and its argument, so that each concrete
call must have the abstract effect of that same call, not of some other one.

`RingBuf` is `ringbuf.c` itself. Its variables are the fields of
`em_ringbuf_t`: `buffer`, `read`, `write` and `is_full`.

| `ringbuf.c` | `RingBuf` |
|---|---|
| `em_ringbuf_init` | `Init`; the storage starts with any bytes, since the serial client's array is uninitialised |
| the byte loop of `em_ringbuf_write` | the recursive `WriteLoop`, used by the action `Write` |
| `em_ringbuf_clear` | `Clear(k)`, with its empty, flush and advance branches |
| `em_ringbuf_flush` | `Flush` |
| `em_ringbuf_len` | the operator `RingLen` |
| `em_ringbuf_read` | the operator `ReadBytes`, with its copy loop `ReadLoop` |

The refinement mapping `AbsQ` takes the `RingLen` bytes from `read` on:
`Abs == INSTANCE RingQueue WITH q <- AbsQ, Capacity <- Size`.

`MC_RingBuf.tla` gives the byte values `{0, 1}`.

### `TcpProtocol.tla`

The round trip of a server message: `SlipRx`'s receive path, then the
dispatcher, the reply senders, `send_q`, the tx task's SLIP encoder and the
server's decoder. It EXTENDS `SlipRx`.

State, besides `SlipRx`'s:
- `sendQ`: the buffers in `send_q`, each tagged with the index of the
  request it answers;
- `serverRx`: the replies the server decoded, with the same tag;
- `dropped`: requests whose reply `send_data` freed because `send_q` was full;
- `overflow`: a serializer wrote past its allocation;
- `coord`: the position stored by `environment_set_position_handler`;
- `crashed`: an `assert` or `ESP_ERROR_CHECK` failed on the rx or tx task.

Field values are the bytes sent. A serialized reply is a byte sequence built
from the C struct layout: the natural alignment of each field, computed by
`SizeOf` and `FieldsEnd`, gives the allocation size, and the bytes written
are compared with it.

| Definition | Code |
|---|---|
| `protocol_send_status`, `_installed_fw`, `_update_status`, `_wireless_status`, `_wireless_credentials`, `_wireless_tx_power`, `_wireless_channel`, `_environment_position`, `_diag_logs_settings` | the `protocol_send_*` of `sender.c`: the `malloc` size, the serializer and its asserts, and `send_data` |
| `serialize_wireless_credentials_msg`, `serialize_wireless_tx_power_msg` | their serializers, with the SSID length asserts |
| `get_handler`, `GetOutcome`, `SsidLen` | the GET switch of the dispatcher. `em_wifi_sta_ssid` zeroes `ssid[31]`, so the SSID is at most 31 bytes. |
| `environment_set_position_handler`, `em_utils_decode_scaler` | the fixed-point coordinates, divided by 100000 and then range-checked |
| `connection_status_handler`, `update_start_handler`, `status_handler`, `wireless_*_handle` | the other handlers, with the results their ESP-IDF calls can return |
| `dispatcher_handler`, `StatusReply` | the switch on the message type, and the STATUS reply of `protocol_receiver_dispatcher` |
| `send_data` | the handler call and the `free` on failure, for each buffer of a handler in order |
| `RxDispatch` | `RxRead`, and on a new message the dispatcher and its replies, all on the rx task |
| `slip_static_data_encoder`, `TxSend` | the tx task's `send_handler`: the encoder's size assert, the write, and `ServerDecode` at the server |

`MC_TcpProtocol.tla` holds the messages of the run: GETs of Wi-Fi status,
credentials, meter history and position, a SET_POSITION out of range, a
CONNECTION_STATUS, an UPDATE_START, a WIRELESS_ENABLE and an IDENTIFY with
SLIP bytes. `MC_CredentialMsgs` holds a well-formed
WIRELESS_SET_CREDENTIALS and a WIRELESS_ENABLE, the messages of the
`tcp_credentials_abort` run. The further configurations use a GET of the
channel, a SET_POSITION just past the range, and a GET of a meter
measurement.

### `Scheduler.tla`

`em_scheduler` on the FreeRTOS software timers.

State:
- `entry`: `scheduler_entry[i]`, reduced to `.scheduled` and `.msg.cb`;
- `active`: whether the timer of entry `i` is in FreeRTOS's active list;
- `tq`: the timer command queue, of `TimerQueueLen` commands;
- `mtx`, `pc`, `pend`: the holder of `scheduler_mtx`, the control point of
  each task and of the timer service, and the commands a mutex holder has
  still to send;
- `widx`, `wcb`, `wret`: the timer service's expired entry, the callback
  the wrapper copied, and where the service resumes afterwards;
- `want`: the callbacks set and neither run nor cancelled since, which
  `CallbackRuns` is stated on;
- `crashed`: an assert failed.

Each call is split at its blocking points, because other tasks can run
there: the mutex, and every `xTimer*` send with `portMAX_DELAY`, which
waits while the queue is full. Between two blocking points the code touches
only state under the mutex, so each stretch is one step.

| Definition | Code |
|---|---|
| `find_entry`, `clear_entry`, `schedule_entry`, `reschedule_entry` | the static helpers, with the asserts of `schedule_entry` (a duplicate callback before the first free entry, no free entry) |
| `scheduler_set_callback`, `scheduler_cancel_callback` | the calls up to their first timer command. The `SCH_NO_DELAY` path is not modelled: no caller of the firmware passes a zero delay constant. |
| `TimerSend`, `Give` | each `xTimer*` command with `portMAX_DELAY`, and `xSemaphoreGive` |
| `callback_wrapper`, `CallbackReturn` | `callback_wrapper`: its asserts, the copy of `msg`, `clear_entry`, then the callback |
| `CallbackResched` | `change_led_state` rescheduling itself while toggles remain, at most `MaxResched` times |
| `TaskCall` | a caller making the next call of its program, as `on_blink_once` cancels and then sets |
| `TimerExpire`, `NoExpiry`, `QueueEmpty`, `ApplyCmd` | the FreeRTOS timer service loop (not in the repository): one expiry check, then the command loop. `xTimerChangePeriod` starts a dormant timer. A START applied after its delay has run out calls the callback from the command loop. |

Time is not measured. An active timer may expire at any check. The constant
`Stalls` says whether a caller holding the mutex, or the timer service, may
be held up for longer than a callback's delay. Without stalls (`Settled`),
a timer started by a call expires only after all that call's commands for
it are applied, and no START is late.

`MC_Scheduler.tla` gives each task a program of calls taken from the
firmware's callers.

### `LedScene.tla`

`scene.c` over the `Scheduler` model (`EXTENDS Scheduler`), with the LED
drivers behind `led_if`.

State, beside the scheduler's:
- `rq`, `bg`, `once`, `periodic`: `active_scenes` (`rq_led_on`, the
  background colour and brightness, and the two active scenes with their
  remaining toggles and, for the periodic one, its remaining time);
- `drv`: the driver's statics, `color` and `brightness`, and `kind`, the
  driver the build links (`pwm_rgb` or `ws2812_rgb`), chosen in `LInit`;
- `out`: the output, the duty of the red, green and blue channels;
- `param`, `wparam`: the `param` given to `scheduler_set_callback` with
  `change_led_state`, and the copy `callback_wrapper` passes on;
- `sstep`, `sphase`: each task's next scene, and whether a cancelling
  scene has made its cancel and not yet its set;
- `lstep`: `change_led_state` between its `led_if` colour and brightness
  calls and the rest of its branch (which branch, and `next_change_time`);
- `rst`: a task inside `restore_bg_color` between `set_color` and
  `set_brightness`.

| Definition | Code |
|---|---|
| `pwm_rgb_set_brightness`, `ws2812_rgb_set_brightness`, `set_brightness` | each driver's `set_brightness`: 0 or above 100 refused, else divided by `CONFIG_EM_LED_BRIGHTNESS_DIVIDER` |
| `pwm_rgb_on`, `ws2812_rgb_on`, `pwm_rgb_off`, `ws2812_rgb_off`, `rgb_on`, `rgb_off` | each driver's `rgb_on` (`(mask * brightness) / 100` per channel; the PWM driver drives only `CONFIG_EM_LED_PWM_CHANNELS` channels, the strip is cleared for black) and `rgb_off` |
| `set_color`, `set_color_brightness` | `led_if.set_color`, and it followed by `led_if.set_brightness` as the blink branches call them |
| `restore_bg_color(p, c)`, `RestoreFinish(p)` | `restore_bg_color` on task `p` in two steps: `set_color` with the background colour as the caller left it, then `set_brightness` with the background brightness as it is then, and `on()` |
| `ChangeLedOnce`, `ChangeLedPeriodic` | the test of `remaining_toggles` (and of `remaining_time`) and the `led_if` calls of the two blink branches, recording `next_change_time` in `lstep` |
| `CommitOnce`, `CommitPeriodic`, `Toggle`, `Dec32` | the rest of the branch, a separate step: the `uint32` decrement of `remaining_toggles` as it is now (`Dec32` wraps 0 to `UINT32_MAX`), the reload of a periodic sequence, `on()`/`off()` by `rq_led_on`, its flip and `SetLed` |
| `ChangeLedWait`, `ChangeLedIdle`, `change_led_state` | the waiting branch (one step up to `SetLed`), the idle branch (`restore_bg_color`), and the six steps together |
| `SceneStep` | `scene_change_handler` for SCENE_CONST_BG, the three clears and unknown types (`SceneInline`) |
| `SceneCancel`, `SceneFinish` | `on_blink_once`, `on_blink_periodic` and SCENE_OFF: the asserts and the cancel, then, once the cancel returned, the rest of the handler and its set |
| `event_handler` | the loop over `scene_list` |
| `Wrapper` | `callback_wrapper` copying `msg.param` for the callback |

A scene handler runs atomically between its scheduler calls;
`change_led_state` and `restore_bg_color` are split at their driver
calls, the points where another task writing `active_scenes` without a
lock can change what the rest of the function reads. Times are the
firmware's milliseconds. TLC's integers are 32-bit signed, so
`UINT32_MAX` is represented by 2147483647: any value the toggles can
reach without a wrap is far below it, and a wrap reaches it at once.

The constant `CancelRace` says whether a scene's cancel may be taken while
an expired LED timer waits for the mutex in `callback_wrapper`. That race is
the cancel race of `Scheduler` (section 4). The pass run excludes it so that
the other properties are checked beyond it.

`MC_LedScene.tla` holds the colours of `rgb_color_t`, `scenes_list[]` with
its 17 entries, `led_evt_identify_msg_handler`, and the scene sets of the
run and of the further configurations.

### `HttpOta.tla`

The OTA task of `http_ota.c`. `otaQ` counts the OTA_START messages in
`ota_q`; `ticks` is `ticks_to_wait` ("max" blocks, "zero" polls). `ms`,
`ctx` (`decrypt_ctx`), `progressLast` and the two handles are the statics
of `handle_ota_process`. A handle is "null", "live" or "freed": the
`esp_encrypted_img_decrypt_end` and `esp_https_ota_finish` calls release
theirs whatever they return, and the code keeps the pointer. `evq` is the
sequence of events posted to the event loop and not yet handled;
`bootSet` records that `esp_https_ota_finish` set the boot partition;
`freedUse` that a released handle went back into ESP-IDF. The calls in the
constant `Faults` may fail. The image comes in `Chunks` pieces.

- `OtaRestart` is a pass that receives an OTA_START: the restart branch,
  which aborts the handles of an OTA under way.
- `OtaBegin`, `OtaTransfer`, `OtaDownloaded` and `OtaFinished` are the
  four cases of the switch, each with the error path that follows it
  (`Fail`, which is `abort_ota_handle` and a return of `portMAX_DELAY`).
- `OtaTransfer` has the three outcomes of `esp_https_ota_perform`: ESP_OK
  once every piece is read, a connection error, or one piece through
  `ota_img_decrypt_handler`. The callback fails on data it cannot decrypt,
  rejects the installed version, or posts VALIDATED for the first piece.
  Then the pass posts the progress when it changed and is a multiple of
  `Accuracy`.
- `OReset` is the RAM of the component after `esp_restart`.

### `Update.tla`

It extends `HttpOta` with `update_state` (`us`), the index `rx` of the
next server message in the constant `ServerMsgs`, the point `rxpc` the rx
task has reached inside `update_start`, and `restartTimer`
(`update_apply_delayed` scheduled).

- `UpdateStart` is `update_start_handler` up to the return of
  `http_ota_submit_start`: the four checks in order, or the version and
  policy stored and the message queued (`UPDATE_ERROR_SW_FAULT` on a full
  queue). `UpdateStartDone` is the rest: the error is cleared and the
  message answered. The two are separate steps, because the OTA task and
  the event loop run in between.
- `UpdateInstall` is `update_apply_handler`, whatever the phase.
- `HandleEvent` and `HandleFinished` are `http_ota_event_handler` on the
  oldest event, with the `update.c` handler it calls (`OnEvent`). The
  ABORT error is cast to `uint8_t`.
- `UpdateApplyDelayed` is the scheduler's callback.
- `esp_restart` clears the RAM of both modules and runs the image
  `esp_https_ota_finish` set, if any. The server goes on with its next
  message.

`MC_Update.tla` holds the server messages: an UPDATE_INSTALL before any
update, four UPDATE_STARTs rejected by each check in turn, and two good
ones, all with the immediate policy. `MC_DelayedMsgs` makes the last one
delayed, for `UpdatePolicySwap.cfg`.

## 3. Properties

Properties that no run of the list checks are checked by the further
configurations of section 4, which name them.

| Property | Kind | What it says |
|---|---|---|
| `TypeOK` | invariant | The types. A mutant that lets `send_rq` pick a free slot breaks it: it sends rq_id 0. |
| `ActiveImpliesScheduled` | invariant | While any slot is active the timer runs. |
| `OneShotBoundedSends` | invariant | A one-shot request is transmitted at most `max_retries + 1` times without an acknowledgement (spec section 8). |
| `PeriodicOnlyRemovedExplicitly` | action | A periodic request leaves the table only through `remove_periodic_rq`. |
| `AnsweredNotResent` | action | A one-shot whose own answer was consumed while it was awaited is never transmitted again. `Rs232Answer.cfg` shows it violated. |
| `NoEarlyTransmission` | action | A one-shot retry, or the first transmission of a new period, comes only after its full timeout or period, less the 50 ms due window, of virtual time since the slot's clock restarted. `LongPeriod.cfg` shows it violated. |
| `AckedByOwnResponse` | invariant | A request is acknowledged only by a frame of that request instance. `LateNak.cfg` shows it violated. That cfg is not in the run list, whose length is capped (see `PROJECT.json` hazards). |
| `EveryRequestServed` | liveness | Every active request is eventually transmitted or retired. |
| `TTypeOK` | invariant | The types of the tasks' state, and the queue never holds more than `QueueLen` commands. |
| `TickPending` | invariant | While a slot is active the timer runs, or its expiry is in `sender_timer_cb` or in the queue. No tick is lost between the tasks, and no command taken in between stops it. |
| `AppInitCompletes` | liveness | `inv_init` gets all its requests into the queue. |
| `QueueCreatedBeforeUse` | invariant | No producer sends on the queue before the worker created it. |
| `UartRxNeverStalls` | invariant | `uart_rx_cb` never waits on a full queue (spec section 6). |
| `TcpClient!TypeOK` | invariant | The types. No queue exceeds its length. A mutant that writes `CMD_SEND` without room breaks it. |
| `SendCmdHasBuffer` | invariant | Every `CMD_SEND` in `cmd_q` finds a buffer in `send_q`. The buffer is queued before its command, and the resets drop only commands, so `send_handler`'s `ESP_ERR_NOT_FOUND` branch is dead. |
| `QueuedBuffersLive` | invariant | No buffer still in `send_q` has been freed. |
| `Reconnects` | liveness | With Wi-Fi up, a disconnected client is connected again, across resets of `cmd_q`, stale rx polls and reboots. |
| `BrokenLinkDetected` | liveness | A broken link under a client that believes it is connected is eventually torn down. |
| `Rs232Frame!TypeOK` | invariant | The types, and the ring never exceeds `2 * MAX_PACKET_LEN` bytes. A write that does not overwrite the oldest bytes breaks it. |
| `CrcMatchesReference` | invariant | The table-driven `crc16_xmodem` equals the bitwise CRC-16/XMODEM on every single byte, on pairs of edge bytes and on the frame of every answer sent, so the 16-bit truncation and the table index are right. |
| `NoPhantomFrame` | invariant | Every packet that passes the CRC check is the body of an answer the inverter sent, whatever the chunking and the line faults. |
| `KeepsPartialAnswer` | invariant | While an intact answer is only partly read, the part read is still the tail of the ring: no parse round consumes an unterminated frame. |
| `AnswerRecognised` | invariant | An intact answer read to its end has been passed by a parse. `Rs232CrcDelimiter.cfg` shows it violated. |
| `DeliveredInOrder` | invariant | What the application gets is a prefix of the messages that were sent, not lost and accepted by their parser, in order. A read that splits a frame never turns the frame's tail into a message. `SlipSplit.cfg` shows it violated. |
| `NothingLost` | invariant | Once every record is read, every such message has reached the application. The decoder state kept across reads and reconnections swallows no frame. |
| `RxNeverAborts` (SlipRx) | invariant | No assert on the rx task fails. This covers the NULL `data_out` that follows an ESP_OK without a packet, and the two size asserts. `SlipCutAbort.cfg` shows it violated. |
| `NeverAborts` (TcpProtocol) | invariant | No assert or `ESP_ERROR_CHECK` on the rx or tx task fails, the parsers' and serializers' asserts included. The tcp_credentials_abort run shows it violated. |
| `EveryRequestAnswered` | invariant | Once `send_q` is empty and nothing crashed, every message the application handled has a reply at the server or was dropped on a full `send_q`. `GetMeterUnanswered.cfg` shows it violated. |
| `NoHeapOverflow` | invariant | No serializer writes more bytes than its `malloc` gave. `TcpChannelOverflow.cfg` shows it violated. |
| `StoredPositionValid` | invariant | The stored position is within ±90° latitude and ±180° longitude. `PositionTruncation.cfg` shows it violated. |
| `Scheduler!TypeOK` | invariant | The types, the queue bound, and no callback in two scheduled entries. A `find_entry` that misses the last entry breaks the last. The led_scene run checks it as part of `LTypeOK`. |
| `NeverAborts` (Scheduler) | invariant | No assert of `scheduler.c` fails. `callback_wrapper` finds its entry scheduled, and `schedule_entry` finds a free entry. `SchedulerCancelRace.cfg` and `SchedulerStall.cfg` show it violated. |
| `TimerMatchesEntry` | invariant | Whenever no call holds the mutex and no expired timer waits for it, an entry is scheduled exactly when its timer will be running once the queued commands are applied. |
| `CallbackRuns` | liveness | A callback that was set and not cancelled since is eventually called, including one that schedules itself from its own run. |
| `LTypeOK` | invariant | The scheduler's `TypeOK`, and the types of `active_scenes` and of the driver, and the output a duty of 0 to 255 per channel. A once branch that takes a toggle at zero breaks it. |
| `PauseIsDark` | invariant | While a periodic scene waits out its period, with no blink-once pending, the LED is not lit in the periodic scene's colour. `LedPhase.cfg` shows it violated. |
| `RingBuf!TypeOK` | invariant | Indices stay in `0..size-1`. A write loop without `% size` breaks it. |
| `ReadReturnsOldest` | invariant | `em_ringbuf_read(n)` returns exactly the oldest `min(n, len)` bytes. It never returns storage that was not written, and it does not stop short on a full ring, where `read == write`. |
| `UTypeOK` | invariant | The types of both update modules. The ABORT error stays a `uint8_t`: without the cast, `ESP_FAIL` from a connection error would be stored as -1. |
| `BeginAssertsHold` | invariant | Whenever the OTA task is about to run BEGIN, both handles are NULL, so its asserts hold. A finished update leaves released handles behind, and only the restart branch of the next OTA_START clears them. |
| `OtaSettles` | liveness | Once `handle_ota_process` returns 0, the task eventually blocks on its queue again. |
| `ImmediateUpdateRuns` | liveness | An image that `esp_https_ota_finish` made the boot image while the policy is immediate eventually runs. |
| `TogglesWithinScene` | invariant | Neither scene ever has more toggles left than its blink sequence, `2 * repeats`: a `remaining_toggles` decrement never wraps. The led_toggle_wrap run shows it violated. |
| `NoAbort` (TcpClient) | invariant | No assert or `ESP_ERROR_CHECK` of the TCP client fails. `TcpSubmitAbort.cfg` shows it violated by the submit assert. |
| `NoFreedHandleUse` | invariant | No released handle is passed to ESP-IDF again. `UpdateFreedHandle.cfg` shows it violated. |
| `HeapGuardHolds` | invariant | `update_in_progress()` is true while the OTA task holds a live handle, as the 3X button's guard assumes. `UpdateHeapGuard.cfg` shows it violated. |
| `RefinesQueue` | refinement | `RingBuf` implements `RingQueue` call by call. This covers overwrite of the oldest byte when full, partial and total clear, and flush. |

## 4. Runs

The runs use these modules:
- core_safety uses `MC_SerialClient`;
- ring_refines_queue uses `MC_RingBuf`;
- tasks_liveness uses `MC_SerialClientTasks`;
- the tcp client runs use `MC_TcpClient`;
- the rs232 runs use `MC_Rs232Frame`;
- tcp_credentials_abort uses `MC_TcpProtocol`;
- the LED runs use `MC_LedScene`;
- the update runs use `MC_Update`.

The pass runs together fire every action and every disjunct.

| Run | cfg | Expect | Checks |
|---|---|---|---|
| core_safety | `SerialClient.cfg` | pass: 138 031 states, about 50 s | `TypeOK`, `ActiveImpliesScheduled`, `OneShotBoundedSends`, `PeriodicOnlyRemovedExplicitly` and `EveryRequestServed` under `FairSpec`, with the shipped plugin (`Rs232Status`). Two slots, ids {3, 9}, timeout 300, the 10 000 ms period of QVFW, retries 1, answers and NAKs, one send failure. States are fingerprinted by `SafetyView`. |
| ring_refines_queue | `RingBuf.cfg` | pass: 1 120 states, about 3 s | `TypeOK`, `ReadReturnsOldest` and `RefinesQueue` with a 4-byte ring and writes of 1 to 5 bytes. |
| tasks_liveness | `SerialClientTasksLive.cfg` | pass: 155 503 states, about 50 s | `TTypeOK`, `TickPending`, `EveryRequestServed` and `AppInitCompletes` under `TFairSpec`, with the shipped plugin and `inv_init`'s QVFW (10 s) and QPIGS (15 s) polls. |
| tcp_client | `TcpClient.cfg` | pass: 476 423 states, about 40 s | `TypeOK`, `SendCmdHasBuffer`, `Reconnects` and `BrokenLinkDetected` under `FairSpec`, with one fault, two buffers and every queue short enough to fill. |
| tcp_use_after_free | `TcpUseAfterFree.cfg` | violation | `QueuedBuffersLive` when `cmd_q` is full. |
| rs232_frame | `Rs232Frame.cfg` | pass: 22 341 states, about 20 s | `TypeOK`, `CrcMatchesReference`, `NoPhantomFrame` and `KeepsPartialAnswer`, with three answers, chunks of 1 to 3 bytes and one line fault. |
| rs232_crc_delimiter | `Rs232CrcDelimiter.cfg` | violation | `AnswerRecognised` for the body `9`, whose CRC begins with `(`. |
| led_scene | `LedScene.cfg` | pass: 222 666 states, about 15 s | `LTypeOK` and the scheduler's `TimerMatchesEntry` under `LSpec`, for both drivers, restricted to states where `TogglesWithinScene` holds (a `CONSTRAINT`; the wrap is the led_toggle_wrap run). The event loop sees a BLE deinit (a clear) and a verified OTA image (a blink at 50 % brightness). The rx task sets the reboot callback and then handles six IDENTIFY messages: a pink background, a periodic blink, a periodic clear, a clear of all, SCENE_OFF and an unknown mode. There are 2 entries, the default 10-command timer queue, and no stalls. |
| led_toggle_wrap | `LedToggleWrap.cfg` | violation | `TogglesWithinScene` with the scenes of led_scene. |
| tcp_credentials_abort | `TcpCredentialsAbort.cfg` | violation | `NeverAborts` with the messages of `MC_CredentialMsgs`. |
| update | `Update.cfg` | pass: 5 407 states, about 2 s | `UTypeOK`, `BeginAssertsHold`, `OtaSettles` and `ImmediateUpdateRuns` under `Spec`, with the messages of `MC_Msgs`, a 1-slot `ota_q`, an image of 2 pieces, and every call of BEGIN, TRANSFER and DOWNLOADED allowed to fail. |
| ota_freed_handle | `UpdateFreedHandle.cfg` | violation | `NoFreedHandleUse` with `MC_DelayedMsgs` and no failing call. |

What the violations show. Each is recorded as a finding in `PROJECT.json`.

1. **tcp_use_after_free.** `em_tcp_client_send` copies the buffer into
   `send_q` and then times out on a full `cmd_q`. It returns `ESP_FAIL`,
   and `send_data` frees the data. The copy in `send_q` still points to
   it. The next `CMD_SEND` takes that copy, and `send_handler` encodes
   and writes freed memory and frees it again. TLC finds this in 12
   steps.
2. **rs232_crc_delimiter.** The code takes the 2 bytes before the first
   `\r` after the last `(` as a raw CRC. Spec section 6 speaks of a
   2-character hex CRC. A raw CRC byte equal to `(` or `\r` moves the frame
   start or end. For the answer `(9`, the CRC is 0x2835. The parse then finds
   the frame `(5\r` and returns NO_PACKET. The three bytes stay in the ring,
   and the answer is never recognised. About 1.5 % of all answers have such
   a CRC.
3. **ota_freed_handle.** After a good update under the delayed policy the
   device keeps running, and both handle statics still point at the
   objects that `esp_encrypted_img_decrypt_end` and `esp_https_ota_finish`
   freed. When the server sends UPDATE_START again, the restart branch
   sees non-NULL handles and calls `esp_https_ota_abort` and
   `esp_encrypted_img_decrypt_abort` on freed memory, under
   `ESP_ERROR_CHECK`. The same happens under the immediate policy when
   the UPDATE_START comes before the event loop has handled FINISHED, and
   on the error path after a failing `decrypt_end` or `finish`. The model
   lets the task go on after the use; a crash there is one of the outcomes
   the code can have. TLC finds it in 17 steps.
4. **led_toggle_wrap.** `change_led_state` runs on the timer service. It
   tests `remaining_toggles` (scene.c:58, 69), calls `led_if.set_color`
   and `set_brightness`, and only then decrements the counter (lines 68,
   84). `active_scenes` has no lock. An IDENTIFY on the dispatcher, or an
   event on the event loop, that clears the periodic scene between the
   test and the decrement sets the counter to 0, and the decrement wraps
   the `uint32_t` to 4 294 967 295. The LED then blinks in the cleared
   scene's colour for 2^32 toggles instead of `2 * repeats`. TLC finds it
   in 25 steps.
5. **tcp_credentials_abort.** `parse_wireless_credentials_msg`
   (parser.c:318) asserts `sizeof(msg.network) < sizeof(msg.network_len) - 1`,
   that is 32 < 1. The assert never holds, so every WIRELESS_SET_CREDENTIALS
   of at least 7 bytes aborts the device, however well formed. TLC finds
   it on the first such message.

Further configurations are kept beside the runs. The run list is capped, so
they are not in it:
- **`Rs232Answer.cfg`** checks `AnsweredNotResent` with the shipped rs232
  plugin. `rs232_2400_rsp_parse` returns the status 0 of a successful
  `parse_rsp_*`, which is `PARSE_STATUS_UNKNOWN`, never
  `PARSE_STATUS_OK`. No valid answer is acknowledged, no handler ever
  runs, and every request is retried as if unanswered. Only NAKs
  acknowledge anything.
- **`LongPeriod.cfg`** checks `NoEarlyTransmission` with the 600 000 ms
  period of QPIWS and QMOD. It is stored in the `uint16` timeout field and
  becomes 10 176 ms, while `since_last_sent` starts at 599 500, so the two
  are polled about every 10 s instead of every 10 minutes.
- **`UpdatePolicySwap.cfg`** checks `ImmediateUpdateRuns` with
  `MC_DelayedMsgs`. An image finishes under the immediate policy, and the
  second good UPDATE_START, with the delayed policy, is accepted before the
  event loop handles FINISHED. `update_apply(0)` then reads the delayed
  policy and does not restart, so the finished image waits for some later
  reboot.
- **`TcpSubmitAbort.cfg`** checks `NoAbort`, with event and rx queues long
  enough that no other assert fires. `wifi_disconnected_handler` resets
  `cmd_q`; before its `xQueueSend` the rx task queues two
  LONG_RECONNECTION_DELAY commands, the 2-slot queue is full, and the
  submit's assert aborts the device.
- **`UpdateHeapGuard.cfg`** checks `HeapGuardHolds`. Two steps after
  BEGIN has started the decryptor and the HTTPS client, the phase is still
  IDLE: it becomes STARTED only when the event loop handles VALIDATED,
  after the first piece is decrypted. A 3X click in between starts BLE on
  the heap the update needs.
- **`SerialClientFull.cfg`** checks `EveryRequestServed` with one slot
  and three adds, so adds are rejected. Two frames can be on the line, so
  frames arrive while nothing is awaited, and CRC errors are in play. It
  passes (157 317 states).
- **`Scheduler.cfg`** checks the scheduler alone (`MC_Scheduler`): the
  event loop's `on_blink_once`, the reboot, and a storage task debouncing
  `dump_check` twice, with 3 entries. It passes (39 257 states). The
  led_scene run checks the same properties with the real LED callback.
- **`SchedulerCancelRace.cfg`** checks `NeverAborts`. A BLE client
  connects as the provisioning window closes. The timer of
  `prov_stop_wrapper` has expired, and `callback_wrapper` waits for the
  mutex. Meanwhile `em_ble_conn_hnd` cancels the callback, so the entry
  is cleared, and `assert(scheduled)` aborts. `scene.c` cancels
  `change_led_state` the same way.
- **`SchedulerStall.cfg`** checks `NeverAborts` with `Stalls = TRUE`. The
  timer started by `xTimerChangePeriod` expires before the caller's
  `xTimerStart` is applied, or a START is applied after its delay. Either
  way a cleared entry is re-armed or fired.
- **`SchedulerQueueFull.cfg`** has a 4-command timer queue.
  `change_led_state`, rescheduling itself on the timer service task,
  waits with `portMAX_DELAY` on the full queue that only that task
  drains, while it holds the mutex. TLC reports the deadlock.
- **`TasksInitRace.cfg`** checks `QueueCreatedBeforeUse`. `em_sc_init`
  starts the worker and returns, and the queue is created only when the
  worker first runs. If `inv_init`'s task keeps the CPU, its first
  `em_sc_send_periodic` passes a NULL queue to `xQueueSend`. Whether this
  happens depends on Kconfig task priorities that are not in the
  repository.
- **`TasksRxStall.cfg`** checks `UartRxNeverStalls`. `uart_rx_cb` waits on
  a full queue, while spec section 6 says the data is dropped.
- **`LateNak.cfg`** checks `AckedByOwnResponse`.
- **`SlipRx.cfg`** checks `DeliveredInOrder`, `NothingLost` and
  `RxNeverAborts` for the receive path alone, with a read buffer every
  record fits and up to two connection losses. It passes.
- **`SlipSplit.cfg`** checks `DeliveredInOrder` with a 4-byte rx buffer.
  The first read holds the start of the `RELAY_SET_PWM` frame, and
  `slip_clear` drops those bytes while `insideOfPacket` stays set. The next
  read ends with the frame's END, so its three bytes are decoded as a
  packet and accepted as a `RELAY_SET_STATE` the server never sent. Any
  frame longer than `CONFIG_EM_TCP_RX_BUFFER_SIZE` is split this way. That
  size is a Kconfig value not in the repository, and an `ENERGYPRICE_DAY`
  frame is at least 209 bytes.
- **`SlipCutAbort.cfg`** checks `RxNeverAborts` with the same buffer. A
  connection lost inside a frame leaves `insideOfPacket` set. The next
  frame's BEGIN is then a cut packet, and `--processedNum` consumes it, so
  the frame is skipped. The call returns ESP_OK with no packet, and the
  rx task dispatches NULL into `parse_message`'s `assert(data)`.

- **`TcpChannelOverflow.cfg`** checks `NoHeapOverflow`.
  `protocol_send_wireless_channel` allocates 4 bytes and calls
  `serialize_wireless_tx_power_msg`, which writes 5: a GET of the channel
  writes one byte past the buffer.
- **`PositionTruncation.cfg`** checks `StoredPositionValid`.
  `environment_set_position_handler` divides the coordinates by 100000
  with C's truncating division before the range check, so 90.5° and
  -180.9° are accepted and stored.
- **`GetMeterUnanswered.cfg`** checks `EveryRequestAnswered`. `get_handler`
  returns ESP_OK for the METER_* and ENERGY_* GETs without sending
  anything, and `protocol_receiver_dispatcher` sends no STATUS after a GET,
  so the server gets no reply at all.

- **`LedPhase.cfg`** checks `PauseIsDark` with
  `CHECK_DEADLOCK FALSE`. A TCP rx error raises a blink-once scene while an
  IDENTIFY blinks periodically. `on_blink_once` sets `rq_led_on` and
  leaves the periodic toggles as they are. If it interrupts the periodic
  sequence after an odd number of toggles, each later periodic sequence
  starts with the LED on and ends on an on toggle. The LED then stays lit in
  the periodic colour through each period and is dark while it should blink.
- **`LedQueueFull.cfg`** has the default 10-command queue and the event
  loop's TCP connection error and ONLINE scenes beside a periodic IDENTIFY.
  The cancels and sets of the two tasks and the LED callback's own
  rescheduling fill the queue, and `change_led_state` waits on it on the
  timer service task. TLC reports the deadlock.
- **`LedIdentifyAbort.cfg`** checks `NeverAborts` for an IDENTIFY with mode
  1 and count 0. `parse_identify_msg` checks neither field, so
  `on_blink_once` gets zero repeats and its assert aborts. A periodic
  IDENTIFY with count 17 or more fails the period assert the same way.
- **`LedCancelRace.cfg`** checks `NeverAborts` with `CancelRace = TRUE`.
  A scene cancels `change_led_state` while its expired timer waits for the
  mutex, and `callback_wrapper`'s `assert(scheduled)` aborts.

TLC finds each of them violated, except `SerialClientFull.cfg`,
`Scheduler.cfg` and `SlipRx.cfg`, which pass. `PROJECT.json` lists them as hazards.

Each property of each pass run has a mutant, an operator defined just
before the definition it mutates, which TLC must catch:

| Mutant | Mutates | Plausible bug |
|---|---|---|
| `SendIdxAllSlots` | `SendIdx` | the scan forgets `if (!active) continue` |
| `KeepTimerNever` | `KeepTimer` | `delete_timer` called unconditionally |
| `AfterSendOffByOne` | `AfterSend` | give up one transmission late |
| `AckRspAlwaysRetire` | `AckRsp` | retires periodic requests too |
| `ScheduleNextTimerEvtNoCredit` | `ScheduleNextTimerEvt` | re-arms without crediting the delay |
| `WriteLoopNoWrap` | `RingBuf!WriteLoop` | the write index is not taken `% size` |
| `ReadBytesNoEmptyCheck` | `RingBuf!ReadBytes` | the early return of an empty ring is lost |
| `ClearOffByOne` | `RingBuf!Clear` | a partial clear advances `read` one byte short |
| `UartSendNoWait` | `SerialClientTasks!UartSend` | the callback writes into a full queue |
| `SvcSendOrDrop` | `SerialClientTasks!SvcSend` | `sender_timer_cb` sends with a zero wait and drops the tick |
| `ReceivedPeek` | `SerialClientTasks!Received` | `xQueuePeek` instead of `xQueueReceive` |
| `SubmitSendNoRoom` | `TcpClient!SubmitSend` | `CMD_SEND` written without a room check |
| `TxSendPeek` | `TcpClient!TxSend` | the tx task peeks at the command and leaves it queued |
| `TxDisconnectNoReconnect` | `TcpClient!TxDisconnect` | the DISCONNECT handler forgets to reschedule `connect_handler` |
| `UartRxNoOverwrite` | `Rs232Frame!UartRx` | the ring grows past its capacity instead of overwriting |
| `CrcStepNoTrunc` | `Rs232Frame!CrcStep` | the CRC shift is not truncated to `uint16` |
| `rs232_2400_rsp_parseNoCrc` | `Rs232Frame!rs232_2400_rsp_parse` | the CRC comparison is dropped |
| `rs232_2400_rsp_parseDropPartial` | `Rs232Frame!rs232_2400_rsp_parse` | a frame without `\r` is consumed whole |
| `RxTaskNoDisconnect` | `TcpClient!RxTask` | a socket error only puts the rx task to sleep |
| `schedule_entry_unmarked` | `Scheduler!schedule_entry` | `scheduled = true` forgotten |
| `CommitOnce_signed` | `LedScene!CommitOnce` | `remaining_toggles` declared as a signed `int32_t`, so a decrement past 0 goes negative |
| `OnEvent_nocast` | `Update!OnEvent` | the ABORT error stored without the `uint8_t` cast |
| `OtaRestart_noabort` | `HttpOta!OtaRestart` | the restart branch does not abort the handles of an OTA under way |
| `OtaTransfer_stuck` | `HttpOta!OtaTransfer` | ESP_OK from `esp_https_ota_perform` does not move the machine on |
| `RestartsNow_inverted` | `Update!RestartsNow` | `update_apply` tests the policy the wrong way round |

The scheduler mutant `schedule_entry_unmarked` is checked under the led_scene run.

## 5. Bounds and why they are enough

- **Two slots.** That is enough for earliest-deadline-first choice, the
  stagger offsets and one slot starving or stranding another. One slot
  (`SerialClientFull.cfg`) makes the capacity early return reachable with three adds.
- **Two ids.** The callers keep the ids of active requests distinct, as
  `inv_init` does. A third id would only rename.
- **One timeout (300) and one period (10 000, QVFW's).** With the fixed 50/100/500 ms
  constants of `send_rq` these reach every branch:
  - nothing due;
  - due;
  - the periodic grace retry;
  - the give-up;
  - the delay clamp to 100 ms.

  `LongPeriod.cfg` uses 600 000, a value from `inv_init`. A second period
  in core_safety multiplies the virtual clock values past a 5-minute run;
  `VIEW SafetyView` drops the ghosts no property of the run reads, so that
  states differing only in them are one.
- **retries = 1.** This makes a one-shot retry once and then give up, which
  covers both branches of its policy. With `Retries = {255}`, TLC finds
  `OneShotBoundedSends` violated, because the `uint8` counter wraps.
  No run keeps that case, because `em_sc_send`, the only
  way to add a one-shot request, has no caller in the firmware.
- **Line and ring.** One in-flight frame and one buffered frame suffice for
  acknowledgement and attribution. `SerialClientFull.cfg` and `LateNak.cfg` use two in-flight
  frames, which is what late and unawaited frames need.
- **One send failure.** One failure exercises the 500 ms retry path; more
  failures only repeat it.
- **Ring of 4 bytes, writes of up to 5.** A ring of `2 * MAX_PACKET_LEN`
  is even, so 4 is the smallest one with a half-ring read window. A 5-byte
  write wraps past the whole ring in one call, and clears of 1 to 5 bytes
  reach the empty, flush and advance branches from every index. The index
  arithmetic is the same for any size.

- **Tasks.** The queue has its real length, 2. There are the first two
  calls of `inv_init`, one frame on the line and no send failures. That is
  enough to fill the queue from every pair of producers: the app and the
  timer, and the timer and the rx task. Adding
  answer kinds or failures multiplied the states beyond a 5-minute run
  without new interleavings of the queue.

- **TCP client.** The queue lengths are Kconfig values that are not in
  the repository. `cmd_q`, `send_q` and `rx_q` have 2 slots each and the
  event queue has 3, so every full-queue branch is reachable. Two buffers
  are enough for a full `send_q`, and a fault budget of one covers a
  failure overlapping a reconnect, a submit and a send. Wi-Fi loss,
  access-point disconnects and link drops are not counted against it.
  A budget of two, with the submits split in two steps, takes about ten
  minutes and adds no new kind of step.

- **rs232 frames.** `MaxPacketLen = 7` is the longest frame of the model,
  the NAK answer `(NAK` plus CRC and `\r`. The ring therefore holds two
  frames, as the real one does. The bodies `B`, `NAK` and `10` cover these
  cases:
  - an unhandled id;
  - a rejection;
  - a failed sub-parse.

  Chunks of 1 to 3 bytes split a frame at every position, including
  between the CRC and the `\r`. One fault, a byte changed into `(` or
  `\r` or dropped, is enough to forge a start, cut a frame or break its
  CRC. Three answers let a leftover frame meet the next answer in the
  window. The pass run leaves out bodies whose CRC contains a delimiter,
  because those are the subject of the violation run.

- **Receive path.** Five messages cover these cases:
  - an escape of each special byte, BEGIN, END and ESC;
  - a parser that accepts and one that rejects;
  - a type with no length check;
  - a frame whose tail is a message of its own.

  Two records in flight let a connection loss drop two messages at once,
  and two losses let one happen both before and after a delivery. A read
  buffer of 10 bytes holds the longest frame (9 bytes), as a buffer sized
  for the largest message would. The 4-byte buffer of the further
  configurations splits every frame but `REBOOT`'s. The decoder and
  `msg_buffer` sizes are large enough that their asserts never fire on
  these messages. The model does not fire them either.

- **Round trip.** The tcp_credentials_abort run sends one
  WIRELESS_SET_CREDENTIALS of 8 bytes, the shortest the parser takes, and
  a WIRELESS_ENABLE, with a 24-byte read buffer that holds every frame.
  The further configurations send a GET of the channel, a SET_POSITION
  just past the range and a GET of a meter measurement, each reached in a
  few steps.

- **Scheduler.** Three entries hold the three callbacks, so
  `assert(started)` is not hit by the bound. Three tasks and the timer
  service cover these cases:
  - a cancel;
  - a set of a free callback;
  - a reschedule of an armed one;
  - a callback scheduling itself from the timer service.

  Two self-reschedules let the LED callback take a different entry than
  before. The 10-command queue is the ESP-IDF default. The callers of the
  run fill at most 5 of it, and the further configuration with 4 shows
  the deadlock.

- **LED scenes.** The run's scenes reach every branch of
  `scene_change_handler` and all four branches of `change_led_state`.
  They include a periodic scene waiting out its period, a blink that
  interrupts it, a background set during a blink, and a blink at a
  brightness other than the background's. The times and repeat counts are
  the firmware's own. IDENTIFY's count is 1, because each repeat adds two
  toggles and nothing new. Both drivers are checked, the PWM one with
  three channels. `CONFIG_EM_LED_BRIGHTNESS_DIVIDER` is a Kconfig value
  not in the repository, and the run takes 1. Adding the TCP connection
  error to the event loop's scenes fills the default timer queue, which is
  `LedQueueFull.cfg`. With the blink at 50 % as well as the ONLINE scenes,
  the run reaches the same deadlock, so the pass run keeps the scenes
  above. The run's `CONSTRAINT TogglesWithinScene` stops exploring at a
  wrapped counter, which the led_toggle_wrap run reports; without it the
  wrapped counter is 2^32 toggles long.

- **Update.** A 1-slot `ota_q` lets the second good UPDATE_START meet a
  full queue (`UPDATE_ERROR_SW_FAULT`); the queue length is a Kconfig
  value not in the repository. Two pieces with an accuracy of 10 give two
  progress events and a first piece that is validated. One good image
  version and one installed version cover acceptance, rejection of the
  installed version by the server check and by the decrypt callback, and
  the restart into the new image. Two good UPDATE_STARTs let the second
  abort the first at every point, or follow a finished one. The
  UPDATE_INSTALL comes first: a later one would restart the device in
  every behaviour in which FINISHED had been handled without a restart,
  and `ImmediateUpdateRuns` could then not tell a missing restart apart.
  The pass run leaves `decrypt_end` and `finish` failures out of `Faults`,
  since both lead to the use of a freed handle that the violation run
  shows; the model lets the task go on after that use.

## 6. Fairness

`FairSpec` assumes weak fairness of `TimerTick` and `RxProcess`:
- an armed FreeRTOS timer eventually expires and its callback's command is
  handled;
- the uart rx task delivers what is on the line.

API callers owe nothing. The device is never assumed to answer, because
`SendOk` may leave the line silent.

`TFairSpec` has one fairness condition per task:
- each task's step is weakly fair, because FreeRTOS runs every ready task;
- the sends that wait on the queue (`AppSend`, `SvcSend`, `UartSend`) are
  strongly fair.

Strong fairness is justified for two reasons:
- every slot the worker frees wakes a waiting sender;
- the other producers cannot refill the queue at every turn. A tick comes
  a period, at least 100 ms, after the last, and a chunk needs new bytes
  from the line.

The untimed model would otherwise let the timer and the rx task starve
`inv_init` forever.

TcpClient's `FairSpec` makes the tx task, the rx task, the producers' steps
inside `send_data`, the event loop, the scheduler's timer and the reboot
weakly fair. FreeRTOS runs every ready task, and an armed timer expires.
`Submit`, the second half of a `submit_tcp_client_*`, is weakly fair:
the submitting task is ready. No fairness is assumed for Wi-Fi, the
network or a task's decision to send. The rx task in its timed wait is always enabled, so it keeps polling
an open socket.

`SlipRx` assumes no fairness. Its server sends a bounded number of
messages. `NothingLost` states delivery at the point where every record
has been read, so it needs no liveness form. `TcpProtocol` likewise
assumes no fairness: `EveryRequestAnswered` is stated at the point where
`send_q` is empty.

`Scheduler`'s `SSpec` has these fairness conditions:
- the mutex holder and the timer service make progress (FreeRTOS runs
  every ready task);
- an active timer expires (strong fairness, because the service also
  leaves the check for the command loop);
- `callback_wrapper` gets a mutex that is given again and again (strong
  fairness).

Tasks owe no calls.

`LedScene`'s `LSpec` keeps these, with two changes:
- every timer's expiry is strongly fair on its own, because a periodic
  scene keeps the LED timer expiring for ever and must not starve the
  reboot timer;
- a task that has made a scene's cancel eventually finishes the handler
  (`SceneFinish`, weakly fair), because the task is ready.

`change_led_state`, its commit step included, is weakly fair with the
timer service's other steps, and so is `RestoreFinish`, the second half
of `restore_bg_color`: the task inside it is ready.

`Update`'s `Spec` makes the OTA task's pass, each step of the rx task, the
event loop's handling of an event and the restart timer weakly fair:
FreeRTOS runs every ready task, and an armed timer expires. The server
owes nothing beyond its message list, and a polling OTA task may take any
number of passes, bounded by the pieces of the image. The run does not
check deadlock, because the tasks block on their queues once the server's
messages are handled and no update is under way.

## 7. Not modelled yet, and the plan

In order:

1. The postponement of transmissions by timer restarts in `add_rq` needs
   elapsed time, which the tasks model does not measure.
2. The `parse_rsp_qpigs` and `parse_rsp_qpiws` field decoding, and the
   inverter handlers, which store the measurements. `Rs232Frame` keeps only
   their length checks.
3. **Firmware update, the rest.** The GET UPDATE_STATUS and
   INSTALLEDFW replies only read `update_state`. The OTA_ABORT message is
   never sent (`http_ota_submit_abort` has no caller). The app
   descriptor found in a later piece is left out: the callback then reads
   it at the fixed offset of that later piece. The OTA LED scenes, and the
   rollback that `main.c`'s `app_confirm_wait` triggers when no TCP
   authentication follows a restart into a new image, are not modelled.
4. **Later.** The unsolicited senders (measurements, energy prices, update
   progress), the rest of the serializer, and the storage module. Its
   `dump_check` clears `dump_request` after it gives the mutex back, which
   can lose a request made in between.

Left out on purpose:
- the hardware and ESP-IDF I/O: the uart driver, NVS, Wi-Fi, BLE and HTTP,
  except as the choices they offer the modelled code;
- LED hardware timing, logging and measurement arithmetic.
