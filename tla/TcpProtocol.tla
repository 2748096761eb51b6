----------------------------- MODULE TcpProtocol -----------------------------
(***************************************************************************)
(* The request and reply path of the server protocol, on top of SlipRx:    *)
(*   - protocol_receiver_dispatcher (em_tcp_protocol/receiver.c) hands an  *)
(*     accepted message to dispatcher_handler (main/modules/dispatcher),   *)
(*     which runs the handler the mapper[] table names for its type; the   *)
(*     GET handler answers with one protocol_send_* message;               *)
(*   - every other message, and a GET whose handler failed, is answered    *)
(*     with protocol_send_status(type, ret);                               *)
(*   - each protocol_send_* (sender.c) allocates a buffer, serializes the  *)
(*     message into it (serializer.c) and send_data queues it on send_q    *)
(*     through em_tcp_client_send (tcp_client.c);                          *)
(*   - send_handler on the tx task SLIP-encodes the head of send_q with    *)
(*     slip_static_data_encoder and writes it to the server.               *)
(* The results of the Wi-Fi, BLE, event-loop and OTA calls a handler makes *)
(* are chosen from small sets.  Fields the properties do not tell apart    *)
(* (versions, IP, RSSI, SSID characters) are serialized as zero bytes.     *)
(***************************************************************************)
EXTENDS SlipRx, FiniteSets

CONSTANTS
  SendQSize,   \* CONFIG_EM_TCP_TX_SEND_MSG_Q_MAX
  SsidLens,    \* strnlen of wifi_config.sta.ssid, 0..32
  TxPowers,    \* what esp_wifi_get_max_tx_power returns, in 0.25 dBm
  Channels     \* what esp_wifi_get_channel returns

VARIABLES
  sendQ,      \* send_q: [req, alloc, data]; req is the index in handled it answers
  serverRx,   \* the messages the server decoded, in order: [req, data]
  dropped,    \* requests whose reply send_data or send_handler dropped
  overflow,   \* a serializer wrote past the length buffer_dynamic_alloc gave
  coord,      \* storage_device().perm.coord
  crashed     \* an assert or ESP_ERROR_CHECK past the parser failed

txVars == <<sendQ, serverRx, dropped, overflow, coord, crashed>>
allVars == <<vars, txVars>>

ESP_OK == 0
ESP_FAIL == -1
ESP_ERR_INVALID_ARG == 258
ESP_ERR_NOT_FOUND == 261
ESP_ERR_NOT_SUPPORTED == 262
ESP_ERR_WIFI_NOT_INIT == 12289

PROTOCOL_BLE == 1
PROTOCOL_WIFI == 2

(* Request types get_handler switches on. *)
MSGTYPE_UPDATE_INSTALLEDFW == 32
MSGTYPE_UPDATE_STATUS == 35
MSGTYPE_WIRELESS_STATUS == 49
MSGTYPE_WIRELESS_CREDENTIALS == 51
MSGTYPE_WIRELESS_TX_POWER == 53
MSGTYPE_WIRELESS_CHANNEL == 55
MSGTYPE_ENVIRONMENT_POSITION == 117
MSGTYPE_METER_MEASUREMENT == 176
MSGTYPE_METER_MEASUREMENT_HISTORY == 177
MSGTYPE_METER_CURRENT_LIMIT == 179
MSGTYPE_ENERGY_ACCUMULATED == 192
MSGTYPE_ENERGY_HISTORY == 193
MSGTYPE_DIAG_LOGS_SETTINGS == 215

COORDINATES_FIXED_FACTOR == -5

(* What the platform calls a handler makes can return. *)
WifiRets == {ESP_OK, ESP_ERR_WIFI_NOT_INIT}
BleRets == {ESP_OK, ESP_FAIL}
UpdateStartRets == {0, 8, 9, 10, 11, 12}

-----------------------------------------------------------------------------
(* The parser reads past the length it checked; the decoder's buffer is   *)
(* zeroed before each read, so those bytes are 0.                          *)
ByteAt(m, i) == IF i <= Len(m) THEN m[i] ELSE 0

parse_int16(m, i) ==
  LET v == ByteAt(m, i) + 256 * ByteAt(m, i + 1) IN IF v >= 32768 THEN v - 65536 ELSE v

(* Little-endian int64 whose upper four bytes extend the sign. *)
parse_int64(m, i) ==
  ByteAt(m, i) + 256 * ByteAt(m, i + 1) + 65536 * ByteAt(m, i + 2)
    + 16777216 * (IF ByteAt(m, i + 7) >= 128 THEN ByteAt(m, i + 3) - 256 ELSE ByteAt(m, i + 3))

(* serialize_uint16/int16/int64: two's complement, least byte first. *)
U16(v) == <<v % 256, (v \div 256) % 256>>
I64(v) == [i \in 1..8 |-> IF i <= 4 THEN (v \div (256 ^ (i - 1))) % 256
                          ELSE IF v < 0 THEN 255 ELSE 0]
Zeros(n) == [i \in 1..n |-> 0]

(* C integer division truncates toward zero. *)
CDiv(a, b) == IF a < 0 THEN -((-a) \div b) ELSE a \div b

(* sizeof of a struct of naturally aligned fields of the given sizes. *)
AlignUp(off, a) == ((off + a - 1) \div a) * a
RECURSIVE FieldsEnd(_, _)
FieldsEnd(fs, off) ==
  IF fs = <<>> THEN off ELSE FieldsEnd(Tail(fs), AlignUp(off, Head(fs)) + Head(fs))
SizeOf(fs) == AlignUp(FieldsEnd(fs, 0), Max(Range(fs)))

em_utils_decode_scaler(scaler) ==
  [multiplier |-> IF scaler > 0 THEN 10 ^ scaler ELSE 1,
   divisor    |-> IF scaler < 0 THEN 10 ^ (-scaler) ELSE 1]

-----------------------------------------------------------------------------
(* protocol_send_*: the length allocated and the bytes serialized. *)
Tx(alloc, data) == [alloc |-> alloc, data |-> data, abort |-> FALSE]

protocol_send_status(rq_type, error) ==
  Tx(SizeOf(<<2, 1, 2>>), U16(MSGTYPE_STATUS) \o <<error>> \o U16(rq_type))

protocol_send_installed_fw ==
  Tx(SizeOf(<<2, 4, 4, 1, 8>>), U16(MSGTYPE_UPDATE_INSTALLEDFW) \o Zeros(4 + 4 + 4 + 8))

protocol_send_update_status ==
  Tx(SizeOf(<<2, 4, 1, 1, 1>>), U16(MSGTYPE_UPDATE_STATUS) \o Zeros(4 + 1 + 1 + 1))

protocol_send_wireless_status(protocol, enabled) ==
  Tx(2 + 1 + 1 + 4 + 1 + 1, U16(MSGTYPE_WIRELESS_STATUS) \o <<protocol, enabled>> \o Zeros(5) \o <<255>>)

serialize_wireless_credentials_msg(protocol, network_len, password_len) ==
  U16(MSGTYPE_WIRELESS_CREDENTIALS) \o <<protocol>> \o U16(network_len) \o Zeros(network_len)
    \o U16(password_len) \o Zeros(password_len)

protocol_send_wireless_credentials(protocol, network_len, password_len) ==
  [alloc |-> 2 + 1 + 2 + network_len + 2 + password_len,
   data  |-> serialize_wireless_credentials_msg(protocol, network_len, password_len),
   abort |-> ~(network_len < 32 /\ password_len < 64)]

serialize_wireless_tx_power_msg(protocol, tx_power) ==
  U16(MSGTYPE_WIRELESS_TX_POWER) \o <<protocol>> \o U16(tx_power)

protocol_send_wireless_tx_power(protocol, tx_power) ==
  Tx(2 + 1 + 2, serialize_wireless_tx_power_msg(protocol, tx_power))

(* Allocates for a channel message, serializes a tx power message. *)
protocol_send_wireless_channel(protocol, channel) ==
  Tx(2 + 2 * 1, serialize_wireless_tx_power_msg(protocol, channel))

protocol_send_environment_position(latitude, longitude) ==
  Tx(SizeOf(<<2, 8, 8>>), U16(MSGTYPE_ENVIRONMENT_POSITION) \o I64(latitude) \o I64(longitude))

protocol_send_diag_logs_settings ==
  Tx(2 + 1 + 6 * (6 * 8), U16(MSGTYPE_DIAG_LOGS_SETTINGS) \o <<0>> \o Zeros(6 * 8))

-----------------------------------------------------------------------------
(* get_handler: the outcomes [ret, sends] for a GET message m. *)
GetOutcome(ret, sends) == [ret |-> ret, sends |-> sends]

(* em_wifi_sta_ssid: ESP_ERR_NOT_FOUND for an empty SSID; otherwise it   *)
(* copies the 32 bytes and writes the terminator at ssid[31].            *)
SsidLen(n) == IF n < 31 THEN n ELSE 31

get_handler(m) ==
  LET rq == parse_uint16(m, 3)
      param == <<ByteAt(m, 5), ByteAt(m, 6), ByteAt(m, 7), ByteAt(m, 8)>>
  IN
  CASE rq = MSGTYPE_UPDATE_INSTALLEDFW -> {GetOutcome(ESP_OK, <<protocol_send_installed_fw>>)}
    [] rq = MSGTYPE_UPDATE_STATUS -> {GetOutcome(ESP_OK, <<protocol_send_update_status>>)}
    [] rq = MSGTYPE_WIRELESS_STATUS ->
         {GetOutcome(-2, <<>>), GetOutcome(ESP_OK, <<protocol_send_wireless_status(PROTOCOL_WIFI, 1)>>)}
    [] rq = MSGTYPE_WIRELESS_CREDENTIALS ->
         {IF n = 0 THEN GetOutcome(ESP_FAIL, <<>>)
          ELSE GetOutcome(ESP_OK, <<protocol_send_wireless_credentials(PROTOCOL_WIFI, SsidLen(n), 0)>>)
          : n \in SsidLens}
    [] rq = MSGTYPE_WIRELESS_TX_POWER ->
         {GetOutcome(ESP_FAIL, <<>>)}
           \cup {GetOutcome(ESP_OK, <<protocol_send_wireless_tx_power(PROTOCOL_WIFI, 4 * p)>>) : p \in TxPowers}
    [] rq = MSGTYPE_WIRELESS_CHANNEL ->
         {GetOutcome(ESP_FAIL, <<>>)}
           \cup {GetOutcome(ESP_OK, <<protocol_send_wireless_channel(PROTOCOL_WIFI, c)>>) : c \in Channels}
    [] rq = MSGTYPE_ENVIRONMENT_POSITION ->
         {GetOutcome(ESP_OK, <<protocol_send_environment_position(coord.lat, coord.lon)>>)}
    [] rq \in {MSGTYPE_METER_MEASUREMENT, MSGTYPE_METER_CURRENT_LIMIT,
               MSGTYPE_ENERGY_ACCUMULATED, MSGTYPE_ENERGY_HISTORY} -> {GetOutcome(ESP_OK, <<>>)}
    [] rq = MSGTYPE_METER_MEASUREMENT_HISTORY ->
         {GetOutcome(IF param \in {<<0, 0, 0, 0>>, <<2, 0, 0, 0>>} THEN ESP_OK ELSE -2, <<>>)}
    [] rq = MSGTYPE_DIAG_LOGS_SETTINGS -> {GetOutcome(ESP_OK, <<protocol_send_diag_logs_settings>>)}
    [] OTHER -> {GetOutcome(ESP_ERR_NOT_FOUND, <<>>)}

(* environment_set_position_handler: the coordinates scaled by integer   *)
(* division, range-checked, stored.                                      *)
environment_set_position_handler(m) ==
  LET lat == parse_int64(m, 3)
      lon == parse_int64(m, 11)
      s == em_utils_decode_scaler(COORDINATES_FIXED_FACTOR)
      lati == CDiv(lat * s.multiplier, s.divisor)
      longi == CDiv(lon * s.multiplier, s.divisor)
  IN  IF lati < -90 \/ lati > 90 \/ longi < -180 \/ longi > 180
      THEN [ret |-> ESP_ERR_INVALID_ARG, coord |-> coord]
      ELSE [ret |-> ESP_OK, coord |-> [lat |-> lat, lon |-> lon]]

(* dispatcher_handler: the handler mapper[] names for the type, else     *)
(* ESP_ERR_NOT_SUPPORTED.  An outcome is the return value, the replies   *)
(* the handler sent, the stored coordinates and whether it aborted.      *)
Outcome(ret) == [ret |-> ret, sends |-> <<>>, coord |-> coord, abort |-> FALSE]

(* ESP_ERROR_CHECK on an esp_event_post with no wait aborts when the     *)
(* event loop queue is full.                                              *)
connection_status_handler == {Outcome(ESP_OK), [Outcome(ESP_OK) EXCEPT !.abort = TRUE]}

update_start_handler == {Outcome(r) : r \in UpdateStartRets}

status_handler == {Outcome(ESP_OK)}

wireless_enable_handle(m) ==
  CASE ByteAt(m, 3) # PROTOCOL_BLE -> {Outcome(ESP_ERR_INVALID_ARG)}
    [] ByteAt(m, 4) # 0 -> {Outcome(r) : r \in BleRets}
    [] OTHER -> {Outcome(ESP_OK)}

wireless_set_credentials_handle(m) ==
  {Outcome(IF ByteAt(m, 3) # PROTOCOL_WIFI THEN ESP_ERR_INVALID_ARG ELSE ESP_OK)}

wireless_set_tx_power_handle(m) ==
  LET p == parse_int16(m, 4) IN
  CASE ByteAt(m, 3) # PROTOCOL_WIFI -> {Outcome(ESP_ERR_INVALID_ARG)}
    [] p < 20 \/ p > 210 -> {Outcome(ESP_ERR_INVALID_ARG)}
    [] OTHER -> {Outcome(r) : r \in WifiRets}

wireless_set_channel_handle(m) ==
  IF ByteAt(m, 3) # PROTOCOL_WIFI THEN {Outcome(ESP_ERR_INVALID_ARG)} ELSE {Outcome(r) : r \in WifiRets}

dispatcher_handler(m) ==
  LET t == parse_msg_type(m) IN
  CASE t = MSGTYPE_CONNECTION_STATUS -> connection_status_handler
    [] t \in {MSGTYPE_REBOOT, MSGTYPE_FACTORY_RESET, MSGTYPE_IDENTIFY, MSGTYPE_UPDATE_INSTALL,
              MSGTYPE_ENVIRONMENT_CLOUD_COVER, MSGTYPE_DIAG_COREDUMP_CONFIRMED} -> {Outcome(ESP_OK)}
    [] t = MSGTYPE_STATUS -> status_handler
    [] t = MSGTYPE_UPDATE_START -> update_start_handler
    [] t = MSGTYPE_WIRELESS_ENABLE -> wireless_enable_handle(m)
    [] t = MSGTYPE_WIRELESS_SET_CREDENTIALS -> wireless_set_credentials_handle(m)
    [] t = MSGTYPE_WIRELESS_SET_TX_POWER -> wireless_set_tx_power_handle(m)
    [] t = MSGTYPE_WIRELESS_SET_CHANNEL -> wireless_set_channel_handle(m)
    [] t = MSGTYPE_ENVIRONMENT_SET_POSITION ->
         {[Outcome(ESP_OK) EXCEPT !.ret = environment_set_position_handler(m).ret,
                                  !.coord = environment_set_position_handler(m).coord]}
    [] t = MSGTYPE_GET ->
         {[Outcome(g.ret) EXCEPT !.sends = g.sends, !.abort = \E i \in DOMAIN g.sends : g.sends[i].abort]
          : g \in get_handler(m)}
    [] OTHER -> {Outcome(ESP_ERR_NOT_SUPPORTED)}

(* The tail of protocol_receiver_dispatcher: a status reply unless the   *)
(* message was a GET its handler answered; the int ret becomes a uint8.   *)
StatusReply(t, ret) ==
  IF t # MSGTYPE_GET \/ ret # ESP_OK THEN <<protocol_send_status(t, ret % 256)>> ELSE <<>>

(* send_data for each reply in turn: em_tcp_client_send queues it on     *)
(* send_q, or fails on a full queue and the buffer is freed.              *)
RECURSIVE send_data(_, _, _)
send_data(q, bufs, req) ==
  IF bufs = <<>> THEN [q |-> q, lost |-> FALSE]
  ELSE IF Len(q) < SendQSize
       THEN send_data(Append(q, [req |-> req, alloc |-> Head(bufs).alloc, data |-> Head(bufs).data]),
                      Tail(bufs), req)
       ELSE [send_data(q, Tail(bufs), req) EXCEPT !.lost = TRUE]

-----------------------------------------------------------------------------
TInit ==
  /\ Init
  /\ sendQ = <<>>
  /\ serverRx = <<>>
  /\ dropped = {}
  /\ overflow = FALSE
  /\ coord = [lat |-> 0, lon |-> 0]
  /\ crashed = FALSE

TServerSend == ~crashed /\ ServerSend /\ UNCHANGED txVars

TLinkBreak == ~crashed /\ LinkBreak /\ UNCHANGED txVars

(* One rx_task pass: SlipRx's read, decode and parse; an accepted message *)
(* then goes through dispatcher_handler and its replies onto send_q.      *)
RxDispatch ==
  /\ ~crashed
  /\ RxRead
  /\ IF Len(handled') = Len(handled)
     THEN UNCHANGED txVars
     ELSE \E o \in dispatcher_handler(Last(handled')) :
          \E replies \in {o.sends \o StatusReply(parse_msg_type(Last(handled')), o.ret)} :
          \E s \in {send_data(sendQ, replies, Len(handled'))} :
            /\ crashed' = o.abort
            /\ sendQ' = IF o.abort THEN sendQ ELSE s.q
            /\ dropped' = IF s.lost /\ ~o.abort THEN dropped \cup {Len(handled')} ELSE dropped
            /\ overflow' = (overflow \/ \E i \in DOMAIN replies : Len(replies[i].data) > replies[i].alloc)
            /\ coord' = o.coord
            /\ UNCHANGED serverRx

(* send_handler: take the head of send_q, slip_static_data_encoder it    *)
(* (assert on the length, ESP error if the escaped frame does not fit)    *)
(* and write the frame; the server decodes it.                            *)
ServerDecode(frame) ==
  LET r == decode(frame, [dec |-> <<>>, inside |-> FALSE, esc |-> FALSE])
  IN  IF r.err = ERR_NONE THEN r.st.dec ELSE <<>>

(* slip_static_data_encoder: assert(len_in <= ENCODED size), then        *)
(* slip_encode into the static buffer of that size.                       *)
slip_static_data_encoder(data) ==
  [abort |-> Len(data) > SlipEncodedBufSize] @@ slip_encode(data, SlipEncodedBufSize)

TxSend ==
  /\ ~crashed
  /\ ~aborted
  /\ sendQ # <<>>
  /\ sendQ' = Tail(sendQ)
  /\ \E b \in {Head(sendQ)} : \E e \in {slip_static_data_encoder(b.data)} :
       CASE e.abort ->
              crashed' = TRUE /\ UNCHANGED <<serverRx, dropped>>
         [] ~e.ok ->
              dropped' = dropped \cup {b.req} /\ UNCHANGED <<serverRx, crashed>>
         [] OTHER ->
              serverRx' = Append(serverRx, [req |-> b.req, data |-> ServerDecode(e.bytes)])
                /\ UNCHANGED <<dropped, crashed>>
  /\ UNCHANGED <<vars, overflow, coord>>

TNext == TServerSend \/ RxDispatch \/ TLinkBreak \/ TxSend

TSpec == TInit /\ [][TNext]_allVars

-----------------------------------------------------------------------------
(* Once send_q is empty, every accepted request has had its reply, or   *)
(* its reply was dropped at a full send_q or by the encoder: no handler *)
(* returns ESP_OK to a GET without sending the answer.                  *)
EveryRequestAnswered ==
  (sendQ = <<>> /\ ~crashed) =>
    \A i \in 1..Len(handled) : i \in dropped \/ \E j \in DOMAIN serverRx : serverRx[j].req = i

(* No protocol_send_* serializes more bytes than it allocated. *)
NoHeapOverflow == ~overflow

(* The coordinates storage_set_coordinates keeps are within -90..90 and *)
(* -180..180 degrees, at COORDINATES_FIXED_FACTOR.                       *)
StoredPositionValid ==
  /\ coord.lat \in -9000000..9000000
  /\ coord.lon \in -18000000..18000000

(* No assert and no ESP_ERROR_CHECK fails on the rx or the tx task. *)
NeverAborts == ~aborted /\ ~crashed
====
