--------------------------- MODULE MC_SerialClient ---------------------------
(* Model values for SerialClient.  Ids are the rs232 2400 command codes  *)
(* QVFW (3) and QPIGS (9) that inverter.c polls.                          *)
EXTENDS SerialClient

(* rs232_2400_rsp_parse: a decoded frame leaves *err as the 0 returned  *)
(* by the parse_rsp_* function, a NAK is 4 and a CRC mismatch 3.         *)
Rs232Status ==
  [answer |-> PARSE_STATUS_UNKNOWN, nak |-> PARSE_STATUS_RQ_REJECTED,
   badcrc |-> PARSE_STATUS_INVALID_CRC]

MCIds == {3, 9}

(* The state without the ghosts that only AckedByOwnResponse and         *)
(* NoEarlyTransmission read (acked, clock, arg, answered): none of them  *)
(* enables or disables an action.                                        *)
SafetyView == <<rq, last_rq_id, timer_armed, ring, line, failures, gen, nextGen, sends, tx>>
=============================================================================
