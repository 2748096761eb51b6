------------------------------- MODULE SlipRx -------------------------------
(***************************************************************************)
(* The receive path from the server to the application handler:           *)
(*   - rx_task (em_tcp_client/tcp_client.c) reads the socket into a        *)
(*     buffer of CONFIG_EM_TCP_RX_BUFFER_SIZE bytes.  The transport is TLS: *)
(*     a read returns at most the rest of one record.                       *)
(*   - slip_static_data_decoder (em_slip/slip.c) decodes the bytes with a  *)
(*     static decoder whose insideOfPacket and escActive flags survive     *)
(*     from one read to the next, and across reconnections.                *)
(*   - protocol_receiver_dispatcher (em_tcp_protocol/receiver.c) takes the *)
(*     message type, runs that type's parse_*_msg length checks (parser.c) *)
(*     and hands an accepted message to the application.                   *)
(* The server writes each message as one SLIP frame in one record.  A     *)
(* message is a sequence of bytes; field values other than the type and   *)
(* the length fields are left as the bytes they are.                       *)
(***************************************************************************)
EXTENDS Integers, Sequences, SequencesExt

CONSTANTS
  Msgs,                 \* the messages the server sends, in order
  RxBufferSize,         \* CONFIG_EM_TCP_RX_BUFFER_SIZE
  SlipDecodedBufSize,   \* CONFIG_EM_SLIP_DECODED_DATA_BUF_SIZE
  SlipEncodedBufSize,   \* CONFIG_EM_SLIP_ENCODED_DATA_BUF_SIZE
  MaxInFlight,          \* records on the connection not yet read
  MaxBreaks             \* connection losses

VARIABLES
  records,     \* the records on the connection: [idx, bytes]
  sentCount,   \* messages the server has written
  lost,        \* indices of messages whose record a connection loss dropped
  inside,      \* decoder.insideOfPacket
  esc,         \* decoder.escActive
  handled,     \* messages handed to app_msg_dispatcher_cb, in order
  breaks,
  aborted      \* an assert on the rx task failed

vars == <<records, sentCount, lost, inside, esc, handled, breaks, aborted>>

Byte == 0..255

SLIP_BEGIN == 207
SLIP_END == 192
SLIP_ESC == 219
SLIP_ESC_BEGIN == 222
SLIP_ESC_END == 220
SLIP_ESC_ESC == 221

ERR_NONE == 0
ERR_INCOMPLETE_PACKET == 1
ERR_INCOMPLETE_ESC_SEQUENCE == 2
ERR_INVALID_ESC_SEQUENCE == 3
ERR_PACKET_START_NOT_FOUND == 4
ERR_PACKET_CUT == 5
ERR_NO_MEMORY == 7
ERR_UNKNOWN == 8

-----------------------------------------------------------------------------
(* slip_encode: BEGIN, the data with BEGIN, END and ESC escaped, END; each *)
(* byte is written only if it fits in the cap of the output buffer.       *)
Escape(b) ==
  CASE b = SLIP_BEGIN -> <<SLIP_ESC, SLIP_ESC_BEGIN>>
    [] b = SLIP_END   -> <<SLIP_ESC, SLIP_ESC_END>>
    [] b = SLIP_ESC   -> <<SLIP_ESC, SLIP_ESC_ESC>>
    [] OTHER          -> <<b>>

RECURSIVE EncodeFrom(_, _, _)
EncodeFrom(data, cap, out) ==
  IF data = <<>>
  THEN IF Len(out) + 1 > cap THEN [ok |-> FALSE, bytes |-> out]
       ELSE [ok |-> TRUE, bytes |-> Append(out, SLIP_END)]
  ELSE IF Len(out) + Len(Escape(Head(data))) > cap THEN [ok |-> FALSE, bytes |-> out]
       ELSE EncodeFrom(Tail(data), cap, out \o Escape(Head(data)))

slip_encode(data, cap) ==
  IF data = <<>> THEN [ok |-> FALSE, bytes |-> <<>>]
  ELSE EncodeFrom(data, cap, <<SLIP_BEGIN>>)

(* The frame the server writes for a message, with room for every escape. *)
ServerFrame(m) == slip_encode(m, 2 * Len(m) + 2).bytes

-----------------------------------------------------------------------------
(* decode(): one packet from the encoded bytes.  st is the decoder: the   *)
(* bytes decoded so far and the two flags.  n is processedNum.  On         *)
(* PACKET_CUT the code runs "--processedNum", which moves the pointer and  *)
(* leaves the count: the cutting BEGIN is consumed, not put back.         *)
Unescape(b) ==
  CASE b = SLIP_ESC_BEGIN -> SLIP_BEGIN
    [] b = SLIP_ESC_END   -> SLIP_END
    [] b = SLIP_ESC_ESC   -> SLIP_ESC

Decoded(err, n, st) == [err |-> err, n |-> n, st |-> st]

RECURSIVE DecodeLoop(_, _, _)
DecodeLoop(enc, i, st) ==
  IF i >= Len(enc)
  THEN Decoded(IF st.inside THEN ERR_INCOMPLETE_PACKET ELSE ERR_PACKET_START_NOT_FOUND, i, st)
  ELSE IF i >= SlipDecodedBufSize THEN Decoded(ERR_NO_MEMORY, i, st)
  ELSE LET b == enc[i + 1] IN
    CASE ~st.inside /\ b # SLIP_BEGIN ->
           DecodeLoop(enc, i + 1, st)
      [] b = SLIP_BEGIN /\ ~st.inside ->
           DecodeLoop(enc, i + 1, [st EXCEPT !.inside = TRUE])
      [] b = SLIP_BEGIN /\ st.inside ->
           Decoded(ERR_PACKET_CUT, i + 1, [st EXCEPT !.inside = FALSE])
      [] b = SLIP_ESC ->
           DecodeLoop(enc, i + 1, [st EXCEPT !.esc = TRUE])
      [] b \in {SLIP_ESC_BEGIN, SLIP_ESC_END, SLIP_ESC_ESC} ->
           DecodeLoop(enc, i + 1, [st EXCEPT !.esc = FALSE,
                                   !.dec = Append(@, IF st.esc THEN Unescape(b) ELSE b)])
      [] b = SLIP_END /\ st.esc ->
           Decoded(ERR_INCOMPLETE_ESC_SEQUENCE, i + 1, [st EXCEPT !.inside = FALSE, !.esc = FALSE])
      [] b = SLIP_END /\ ~st.esc ->
           Decoded(ERR_NONE, i + 1, [st EXCEPT !.inside = FALSE])
      [] b \notin {SLIP_BEGIN, SLIP_END, SLIP_ESC, SLIP_ESC_BEGIN, SLIP_ESC_END, SLIP_ESC_ESC} /\ st.esc ->
           Decoded(ERR_INVALID_ESC_SEQUENCE, i + 1, [st EXCEPT !.inside = FALSE, !.esc = FALSE])
      [] OTHER ->
           DecodeLoop(enc, i + 1, [st EXCEPT !.dec = Append(@, b)])

decode(enc, st) ==
  IF enc = <<>> THEN Decoded(ERR_PACKET_START_NOT_FOUND, 0, st) ELSE DecodeLoop(enc, 0, st)

(* buffer_pop_front *)
buffer_pop_front(s, num) == IF Len(s) <= num THEN <<>> ELSE SubSeq(s, num + 1, Len(s))

(* slip_decode: at most 16 decode() calls; a cut packet is skipped, an    *)
(* incomplete one is kept for later, an error discards what was decoded.  *)
RECURSIVE slip_decode(_, _, _)
slip_decode(enc, st, x) ==
  IF x >= 16 THEN [err |-> ERR_UNKNOWN, enc |-> enc, st |-> st]
  ELSE LET r == decode(enc, st)
           rest == buffer_pop_front(enc, r.n)
       IN  CASE r.err = ERR_PACKET_CUT -> slip_decode(rest, r.st, x + 1)
             [] r.err \in {ERR_INCOMPLETE_PACKET, ERR_NONE} ->
                  [err |-> r.err, enc |-> rest, st |-> r.st]
             [] r.err \in {ERR_INCOMPLETE_ESC_SEQUENCE, ERR_INVALID_ESC_SEQUENCE,
                           ERR_PACKET_START_NOT_FOUND, ERR_NO_MEMORY} ->
                  [err |-> r.err, enc |-> rest, st |-> [r.st EXCEPT !.dec = <<>>]]
             [] OTHER -> [err |-> ERR_UNKNOWN, enc |-> rest, st |-> [r.st EXCEPT !.dec = <<>>]]

(* The while (!done) loop of slip_static_data_decoder: ERR_NONE publishes *)
(* the decoded buffer and decodes on, without emptying it; any other     *)
(* result ends the loop.  out is data_out: ptr is FALSE while it is NULL. *)
RECURSIVE DecoderLoop(_, _, _)
DecoderLoop(enc, st, out) ==
  LET r == slip_decode(enc, st, 0) IN
  IF r.err = ERR_NONE THEN DecoderLoop(r.enc, r.st, [ptr |-> TRUE, data |-> r.st.dec])
  ELSE [abort |-> FALSE, ok |-> r.err = ERR_PACKET_START_NOT_FOUND, out |-> out,
        inside |-> r.st.inside, esc |-> r.st.esc]

(* slip_static_data_decoder: the assert on len_in, the emptied decoded   *)
(* buffer, slip_add_data into the emptied encoded buffer, the loop, and   *)
(* slip_clear.  ESP_OK only if the last slip_decode found no packet start. *)
slip_static_data_decoder(data, in, es) ==
  LET none == [ptr |-> FALSE, data |-> <<>>] IN
  CASE Len(data) > SlipDecodedBufSize ->
         [abort |-> TRUE, ok |-> FALSE, out |-> none, inside |-> in, esc |-> es]
    [] Len(data) > SlipEncodedBufSize ->
         [abort |-> FALSE, ok |-> FALSE, out |-> none, inside |-> in, esc |-> es]
    [] OTHER -> DecoderLoop(data, [dec |-> <<>>, inside |-> in, esc |-> es], none)

-----------------------------------------------------------------------------
(* Message types of messages.h that parse_message switches on. *)
MSGTYPE_CONNECTION_STATUS == 2
MSGTYPE_REBOOT == 16
MSGTYPE_FACTORY_RESET == 17
MSGTYPE_IDENTIFY == 19
MSGTYPE_UPDATE_START == 33
MSGTYPE_UPDATE_INSTALL == 34
MSGTYPE_WIRELESS_ENABLE == 48
MSGTYPE_WIRELESS_SET_CREDENTIALS == 50
MSGTYPE_WIRELESS_SET_TX_POWER == 52
MSGTYPE_WIRELESS_SET_CHANNEL == 54
MSGTYPE_ENERGYPRICE_DAY == 67
MSGTYPE_ENERGYPRICE_SET_PRICE_THRESHOLD == 70
MSGTYPE_ENERGYPRICE_SET_CHEAP_PERIOD == 72
MSGTYPE_ENERGYPRICE_SET_TARIFF == 76
MSGTYPE_RELAY_SET_MODE == 80
MSGTYPE_RELAY_SET_STATE == 82
MSGTYPE_RELAY_SET_DEFAULT_STATE == 84
MSGTYPE_RELAY_SET_PWM == 86
MSGTYPE_RELAY_SET_INVERTED_OUTPUT == 88
MSGTYPE_RELAY_SET_BUTTON_CONFIG == 90
MSGTYPE_RELAY_SET_SCHEDULE == 92
MSGTYPE_RELAY_SET_ONE_SHOT == 94
MSGTYPE_ENVIRONMENT_SET_SUNNY_TIME == 112
MSGTYPE_ENVIRONMENT_CLOUD_COVER == 115
MSGTYPE_ENVIRONMENT_SET_POSITION == 116
MSGTYPE_METER_SET_CURRENT_LIMIT == 178
MSGTYPE_METER_CLEAR_ALARMS == 180
MSGTYPE_DIAG_COREDUMP_CONFIRMED == 211
MSGTYPE_STATUS == 240
MSGTYPE_GET == 241

(* sizeof(msg_buffer) = sizeof(energy_price_day_msg_t) with a 64-bit time_t. *)
MSG_BUFFER_SIZE == 216

(* parse_uint16 at the 1-based position i: little endian. *)
parse_uint16(m, i) == m[i] + 256 * m[i + 1]

(* A parse_*_msg either returns the message or one with MSGTYPE_INVALID, *)
(* which parse_message turns into ESP_ERR_INVALID_RESPONSE; some assert  *)
(* on a field once the length check has passed.                          *)
Parsed(ok) == [ok |-> ok, abort |-> FALSE]
Asserts(ok, cond) == [ok |-> ok, abort |-> ok /\ ~cond]

parse_connection_status_msg(m) == Parsed(Len(m) = 22)
parse_identify_msg(m) == Parsed(Len(m) = 4)
parse_update_start_msg(m) ==
  Asserts(Len(m) >= 20 /\ Len(m) = 20 + parse_uint16(m, 19), parse_uint16(m, 19) < 128)
parse_update_install_msg(m) == Parsed(Len(m) = 10)
parse_meter_current_limit_msg(m) == Parsed(Len(m) = 6)
parse_meter_clear_alarms_msg(m) == Parsed(Len(m) = 10)
parse_energy_price_day_msg(m) == Parsed(Len(m) >= 207)
parse_energy_price_threshold_msg(m) == Parsed(Len(m) = 6)
parse_energy_price_cheap_period_msg(m) == Parsed(Len(m) = 3)
parse_energy_price_tariff_msg(m) == Parsed(Len(m) = 4)
(* Checks for 2 bytes and reads 4. *)
parse_wireless_enable_msg(m) == Parsed(Len(m) = 2)
(* sizeof(msg.network) = 32 < sizeof(msg.network_len) - 1 = 1 never holds. *)
parse_wireless_credentials_msg(m) == Asserts(Len(m) >= 7, 32 < 2 - 1)
parse_wireless_tx_power_msg(m) == Parsed(Len(m) = 4)
parse_wireless_channel_msg(m) == Parsed(Len(m) = 4)
parse_relay_mode_msg(m) == Parsed(Len(m) = 3)
parse_relay_state_msg(m) == Parsed(Len(m) = 3)
parse_relay_default_state_msg(m) == Parsed(Len(m) = 3)
parse_relay_pwm_msg(m) == Parsed(Len(m) = 6)
parse_relay_set_inverted_output_msg(m) == Parsed(Len(m) = 3)
parse_relay_one_shot_msg(m) == Parsed(Len(m) = 20)
(* Checks the declared mode count and reads MAX_DEFINED_MODES = 6 modes. *)
parse_relay_button_config_msg(m) ==
  Parsed(Len(m) >= 4 /\ Len(m) = 4 + parse_uint16(m, 3))
parse_relay_schedule_msg(m) == Asserts(Len(m) >= 88, parse_uint16(m, 3) = 84)
parse_environment_sunny_time_msg(m) == Parsed(Len(m) = 3)
parse_environment_cloud_cover_msg(m) == Asserts(Len(m) >= 14, parse_uint16(m, 13) = 96)
(* Checks for 2 + 2 * 4 bytes and reads 2 + 2 * 8. *)
parse_environment_position_msg(m) == Parsed(Len(m) >= 10)
parse_status_msg(m) == Parsed(Len(m) = 5)
parse_get_msg(m) == Parsed(Len(m) = 8)

parse_msg_type(m) == IF Len(m) < 2 THEN 0 ELSE parse_uint16(m, 1)

(* The switch of parse_message; an unknown type is ESP_ERR_NOT_SUPPORTED. *)
parse_message(m) ==
  LET t == parse_msg_type(m) IN
  CASE t = 0 -> Parsed(FALSE)
    [] t = MSGTYPE_CONNECTION_STATUS -> parse_connection_status_msg(m)
    [] t \in {MSGTYPE_REBOOT, MSGTYPE_FACTORY_RESET, MSGTYPE_DIAG_COREDUMP_CONFIRMED} -> Parsed(TRUE)
    [] t = MSGTYPE_IDENTIFY -> parse_identify_msg(m)
    [] t = MSGTYPE_UPDATE_START -> parse_update_start_msg(m)
    [] t = MSGTYPE_UPDATE_INSTALL -> parse_update_install_msg(m)
    [] t = MSGTYPE_WIRELESS_ENABLE -> parse_wireless_enable_msg(m)
    [] t = MSGTYPE_WIRELESS_SET_CREDENTIALS -> parse_wireless_credentials_msg(m)
    [] t = MSGTYPE_WIRELESS_SET_TX_POWER -> parse_wireless_tx_power_msg(m)
    [] t = MSGTYPE_WIRELESS_SET_CHANNEL -> parse_wireless_channel_msg(m)
    [] t = MSGTYPE_ENERGYPRICE_DAY -> parse_energy_price_day_msg(m)
    [] t = MSGTYPE_ENERGYPRICE_SET_PRICE_THRESHOLD -> parse_energy_price_threshold_msg(m)
    [] t = MSGTYPE_ENERGYPRICE_SET_CHEAP_PERIOD -> parse_energy_price_cheap_period_msg(m)
    [] t = MSGTYPE_ENERGYPRICE_SET_TARIFF -> parse_energy_price_tariff_msg(m)
    [] t = MSGTYPE_RELAY_SET_MODE -> parse_relay_mode_msg(m)
    [] t = MSGTYPE_RELAY_SET_STATE -> parse_relay_state_msg(m)
    [] t = MSGTYPE_RELAY_SET_DEFAULT_STATE -> parse_relay_default_state_msg(m)
    [] t = MSGTYPE_RELAY_SET_PWM -> parse_relay_pwm_msg(m)
    [] t = MSGTYPE_RELAY_SET_INVERTED_OUTPUT -> parse_relay_set_inverted_output_msg(m)
    [] t = MSGTYPE_RELAY_SET_BUTTON_CONFIG -> parse_relay_button_config_msg(m)
    [] t = MSGTYPE_RELAY_SET_SCHEDULE -> parse_relay_schedule_msg(m)
    [] t = MSGTYPE_RELAY_SET_ONE_SHOT -> parse_relay_one_shot_msg(m)
    [] t = MSGTYPE_ENVIRONMENT_SET_SUNNY_TIME -> parse_environment_sunny_time_msg(m)
    [] t = MSGTYPE_ENVIRONMENT_CLOUD_COVER -> parse_environment_cloud_cover_msg(m)
    [] t = MSGTYPE_ENVIRONMENT_SET_POSITION -> parse_environment_position_msg(m)
    [] t = MSGTYPE_METER_SET_CURRENT_LIMIT -> parse_meter_current_limit_msg(m)
    [] t = MSGTYPE_METER_CLEAR_ALARMS -> parse_meter_clear_alarms_msg(m)
    [] t = MSGTYPE_STATUS -> parse_status_msg(m)
    [] t = MSGTYPE_GET -> parse_get_msg(m)
    [] OTHER -> Parsed(FALSE)

(* protocol_receiver_dispatcher: assert(sizeof(msg_buffer) >= len), then *)
(* parse_message's assert(data); an accepted message goes to the app.    *)
protocol_receiver_dispatcher(out) ==
  CASE Len(out.data) > MSG_BUFFER_SIZE -> [ok |-> FALSE, abort |-> TRUE]
    [] ~out.ptr -> [ok |-> FALSE, abort |-> TRUE]
    [] OTHER -> parse_message(out.data)

-----------------------------------------------------------------------------
Init ==
  /\ records = <<>>
  /\ sentCount = 0
  /\ lost = {}
  /\ inside = FALSE
  /\ esc = FALSE
  /\ handled = <<>>
  /\ breaks = 0
  /\ aborted = FALSE

(* The server writes the next message as one frame in one record. *)
ServerSend ==
  /\ ~aborted
  /\ sentCount < Len(Msgs)
  /\ Len(records) < MaxInFlight
  /\ records' = Append(records, [idx |-> sentCount + 1, bytes |-> ServerFrame(Msgs[sentCount + 1])])
  /\ sentCount' = sentCount + 1
  /\ UNCHANGED <<lost, inside, esc, handled, breaks, aborted>>

(* One pass of rx_task: read_socket_data returns the rest of the head    *)
(* record up to the buffer size, rx_net_proto_cb decodes it, and on      *)
(* ESP_OK msg_disp_cb dispatches data_out, NULL if no packet was found.   *)
RxRead ==
  /\ ~aborted
  /\ records # <<>>
  /\ \E k \in {IF Len(Head(records).bytes) < RxBufferSize THEN Len(Head(records).bytes) ELSE RxBufferSize} :
     \E d \in {slip_static_data_decoder(SubSeq(Head(records).bytes, 1, k), inside, esc)} :
     \E r \in {IF d.ok THEN protocol_receiver_dispatcher(d.out) ELSE Parsed(FALSE)} :
       /\ records' = IF k = Len(Head(records).bytes) THEN Tail(records)
                     ELSE <<[Head(records) EXCEPT !.bytes = SubSeq(@, k + 1, Len(@))]>> \o Tail(records)
       /\ inside' = d.inside
       /\ esc' = d.esc
       /\ aborted' = (d.abort \/ r.abort)
       /\ handled' = IF r.ok /\ ~r.abort THEN Append(handled, d.out.data) ELSE handled
  /\ UNCHANGED <<sentCount, lost, breaks>>

(* The connection drops: a read fails, rx_task disconnects and the client *)
(* reconnects; the records on the old connection are gone.  The static   *)
(* decoder is not reset.                                                  *)
LinkBreak ==
  /\ ~aborted
  /\ breaks < MaxBreaks
  /\ records' = <<>>
  /\ lost' = lost \cup {records[i].idx : i \in DOMAIN records}
  /\ breaks' = breaks + 1
  /\ UNCHANGED <<sentCount, inside, esc, handled, aborted>>

Next == ServerSend \/ RxRead \/ LinkBreak

Spec == Init /\ [][Next]_vars

-----------------------------------------------------------------------------
(* The messages the application should get: those sent, not dropped with *)
(* a connection, and accepted by their parser, in the order sent.         *)
Accepted(m) == \E r \in {protocol_receiver_dispatcher([ptr |-> TRUE, data |-> m])} : r.ok /\ ~r.abort

Expected ==
  LET ix == SelectSeq([i \in 1..sentCount |-> i], LAMBDA i : i \notin lost /\ Accepted(Msgs[i]))
  IN  [j \in 1..Len(ix) |-> Msgs[ix[j]]]

(* Everything slip_static_data_decoder hands to the dispatcher and the   *)
(* parser accepts is a message the server sent, delivered in order: a    *)
(* read that splits a frame never makes a message of its tail.           *)
DeliveredInOrder == IsPrefix(handled, Expected)

(* Once every record is read, each accepted message that was not lost   *)
(* with its connection has reached the application: the decoder's state  *)
(* kept across reads and reconnections never swallows a frame.           *)
NothingLost == (records = <<>> /\ ~aborted) => handled = Expected

(* No assert on the rx task fails: neither the one on a NULL data_out    *)
(* dispatched after an ESP_OK without a packet, nor the size asserts.    *)
RxNeverAborts == ~aborted
=============================================================================
