----------------------------- MODULE MC_RingBuf -----------------------------
(* Model values for RingBuf: a ring of 4 bytes (2 * MAX_PACKET_LEN with  *)
(* a 2-byte packet), two byte values, writes of up to 5 bytes so that a  *)
(* single write can wrap past the whole ring.                           *)
EXTENDS RingBuf

MCBytes == {0, 1}
=============================================================================
