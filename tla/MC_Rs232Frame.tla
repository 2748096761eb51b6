--------------------------- MODULE MC_Rs232Frame ---------------------------
(* Answers for Rs232Frame.  "B" is a QMOD answer (one mode letter), "NAK" *)
(* the inverter's rejection, "10" a body no requested parser accepts as   *)
(* is.  Their CRCs (\hE7C9, \h7373, \h2F90) hold neither '(' nor '\r'.   *)
(* "9" has the CRC \h2835, whose MSB is '(': about 1.5% of answers have a *)
(* CRC byte equal to '(' or '\r' (17 of the 1000 three-digit bodies).    *)
EXTENDS Rs232Frame

MCRequests == {"QMOD", "QPIWS"}

MCBodies == {<<66>>, <<78, 65, 75>>, <<49, 48>>}

MCCollidingBodies == {<<57>>}

MCNoiseBytes == {LPAR, CR}
=============================================================================
