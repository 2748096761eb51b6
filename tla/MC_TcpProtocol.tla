---------------------------- MODULE MC_TcpProtocol ----------------------------
EXTENDS TcpProtocol

(* GET WIRELESS_STATUS; GET WIRELESS_CREDENTIALS; SET_POSITION at 91.0   *)
(* and -40.0 degrees, which the handler rejects; GET                     *)
(* METER_MEASUREMENT_HISTORY for an unsupported measurement; GET         *)
(* ENVIRONMENT_POSITION; WIRELESS_SET_CHANNEL; RELAY_SET_PWM, which no   *)
(* handler takes; RELAY_SET_STATE cut short, which its parser rejects;   *)
(* IDENTIFY whose fields are SLIP BEGIN and ESC and must be escaped.     *)
MC_Msgs == << <<241, 0, 49, 0, 0, 0, 0, 0>>,
              <<241, 0, 51, 0, 0, 0, 0, 0>>,
              <<116, 0>> \o I64(9100000) \o I64(-4000000),
              <<241, 0, 177, 0, 1, 0, 0, 0>>,
              <<241, 0, 117, 0, 0, 0, 0, 0>>,
              <<54, 0, 2, 6>>,
              <<86, 0, 1, 82, 0, 7>>,
              <<82, 0>>,
              <<19, 0, 207, 219>> >>
(* GET WIRELESS_STATUS, then WIRELESS_SET_CREDENTIALS for Wi-Fi with a  *)
(* two-byte network name and password.                                   *)
MC_CredentialMsgs == << <<241, 0, 49, 0, 0, 0, 0, 0>>,
                        <<50, 0, 2, 2, 0, 97, 98, 2, 0, 99, 100>> >>

(* GET WIRELESS_CHANNEL, then REBOOT. *)
MC_ChannelMsgs == << <<241, 0, 55, 0, 0, 0, 0, 0>>, <<16, 0>> >>

(* SET_POSITION at 90.5 and -180.9 degrees. *)
MC_PositionMsgs == << <<116, 0>> \o I64(9050000) \o I64(-18090000) >>

(* GET METER_MEASUREMENT, then REBOOT. *)
MC_MeterMsgs == << <<241, 0, 176, 0, 0, 0, 0, 0>>, <<16, 0>> >>
=============================================================================
