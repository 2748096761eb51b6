------------------------------ MODULE MC_SlipRx ------------------------------
EXTENDS SlipRx

(* RELAY_SET_PWM whose last three bytes form a RELAY_SET_STATE message;  *)
(* IDENTIFY whose fields are SLIP BEGIN and ESC and must be escaped;     *)
(* RELAY_SET_STATE cut short, which its parser rejects; REBOOT; a      *)
(* WIRELESS_SET_CHANNEL whose channel is SLIP END.                        *)
MC_Msgs == << <<86, 0, 1, 82, 0, 7>>,
              <<19, 0, 207, 219>>,
              <<82, 0>>,
              <<16, 0>>,
              <<54, 0, 1, 192>> >>
=============================================================================
