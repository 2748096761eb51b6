----------------------------- MODULE Rs232Frame -----------------------------
(***************************************************************************)
(* The byte level of the serial client's receive path with the shipped    *)
(* RS232 protocol: the inverter's answer frames on the line, uart reads   *)
(* of any size, process_data and parse (em_serial_client/rx.c) running    *)
(* rs232_2400_rsp_parse (main/modules/rs232/rs232_2400_protocol.c) over   *)
(* the ring buffer, and crc16_xmodem with its table.                      *)
(*                                                                         *)
(* Bytes are the naturals 0..255.  An answer is the frame the inverter   *)
(* builds as rs232_2400_serialize builds a request: '(' and a body, the   *)
(* CRC as two raw bytes (MSB first) and '\r'.  The inverter answers one  *)
(* request at a time, after the previous answer has left the line.  A    *)
(* line fault changes a byte into one of NoiseBytes or loses it.  The    *)
(* request table is SerialClient's: here the client is last_rq_id, which *)
(* the worker sets when it transmits (task.c:120) and ack_rsp clears.    *)
(***************************************************************************)
EXTENDS Integers, Sequences, SequencesExt, Bitwise

CONSTANTS
  Requests,      \* the ids the worker transmits (inv_init's requests)
  INVALID,       \* EXP_RSP_INVALID: no answer awaited
  Bodies,        \* the answer bodies the inverter may send after '('
  MaxPacketLen,  \* CONFIG_EM_SERIAL_CLIENT_MAX_PACKET_LEN
  MaxChunk,      \* the most bytes one uart_read_bytes returns
  NoiseBytes,    \* the values a line fault may give a byte
  MaxAnswers,    \* bound on the answers the inverter sends
  MaxFaults      \* bound on line faults

VARIABLES
  line,         \* bytes sent by the inverter, not yet read by the uart
  ring,         \* the worker's ring buffer (em_ringbuf), oldest first
  last_rq_id,   \* sc->last_rq_id
  asked,        \* a transmitted request has not been answered yet
  cur,          \* ghost: the last answer, intact or not, recognised or not
  sent,         \* ghost: the bodies the inverter has sent
  heard,        \* ghost: the packets that passed rs232_2400_rsp_parse's CRC check
  answers,      \* ghost: answers sent
  faults        \* ghost: line faults so far

vars == <<line, ring, last_rq_id, asked, cur, sent, heard, answers, faults>>

Byte == 0..255
LPAR == 40            \* '('
CR == 13              \* '\r'
NAK == <<78, 65, 75>> \* "NAK"

(* parse_status_t (rx.h, rs232_2400_protocol.c) *)
PARSE_STATUS_UNKNOWN == 0
PARSE_STATUS_OK == 1
PARSE_STATUS_NO_PACKET == 2
PARSE_STATUS_INVALID_CRC == 3
PARSE_STATUS_RQ_REJECTED == 4
PARSE_STATUS_PACKET_MALFORMED == 6

(* em_ringbuf_write on the 2 * MAX_PACKET_LEN bytes of the ring (task.c:33): *)
(* past the capacity the oldest bytes are overwritten.                      *)
RingWrite(r, data) ==
  LET all == r \o data
  IN  IF Len(all) > 2 * MaxPacketLen THEN SubSeq(all, Len(all) - 2 * MaxPacketLen + 1, Len(all)) ELSE all

-----------------------------------------------------------------------------
(* crc16_xmodem: table driven, on a uint16 accumulator. *)
crc16tab == <<
  \h0000, \h1021, \h2042, \h3063, \h4084, \h50A5, \h60C6, \h70E7,
  \h8108, \h9129, \hA14A, \hB16B, \hC18C, \hD1AD, \hE1CE, \hF1EF,
  \h1231, \h0210, \h3273, \h2252, \h52B5, \h4294, \h72F7, \h62D6,
  \h9339, \h8318, \hB37B, \hA35A, \hD3BD, \hC39C, \hF3FF, \hE3DE,
  \h2462, \h3443, \h0420, \h1401, \h64E6, \h74C7, \h44A4, \h5485,
  \hA56A, \hB54B, \h8528, \h9509, \hE5EE, \hF5CF, \hC5AC, \hD58D,
  \h3653, \h2672, \h1611, \h0630, \h76D7, \h66F6, \h5695, \h46B4,
  \hB75B, \hA77A, \h9719, \h8738, \hF7DF, \hE7FE, \hD79D, \hC7BC,
  \h48C4, \h58E5, \h6886, \h78A7, \h0840, \h1861, \h2802, \h3823,
  \hC9CC, \hD9ED, \hE98E, \hF9AF, \h8948, \h9969, \hA90A, \hB92B,
  \h5AF5, \h4AD4, \h7AB7, \h6A96, \h1A71, \h0A50, \h3A33, \h2A12,
  \hDBFD, \hCBDC, \hFBBF, \hEB9E, \h9B79, \h8B58, \hBB3B, \hAB1A,
  \h6CA6, \h7C87, \h4CE4, \h5CC5, \h2C22, \h3C03, \h0C60, \h1C41,
  \hEDAE, \hFD8F, \hCDEC, \hDDCD, \hAD2A, \hBD0B, \h8D68, \h9D49,
  \h7E97, \h6EB6, \h5ED5, \h4EF4, \h3E13, \h2E32, \h1E51, \h0E70,
  \hFF9F, \hEFBE, \hDFDD, \hCFFC, \hBF1B, \hAF3A, \h9F59, \h8F78,
  \h9188, \h81A9, \hB1CA, \hA1EB, \hD10C, \hC12D, \hF14E, \hE16F,
  \h1080, \h00A1, \h30C2, \h20E3, \h5004, \h4025, \h7046, \h6067,
  \h83B9, \h9398, \hA3FB, \hB3DA, \hC33D, \hD31C, \hE37F, \hF35E,
  \h02B1, \h1290, \h22F3, \h32D2, \h4235, \h5214, \h6277, \h7256,
  \hB5EA, \hA5CB, \h95A8, \h8589, \hF56E, \hE54F, \hD52C, \hC50D,
  \h34E2, \h24C3, \h14A0, \h0481, \h7466, \h6447, \h5424, \h4405,
  \hA7DB, \hB7FA, \h8799, \h97B8, \hE75F, \hF77E, \hC71D, \hD73C,
  \h26D3, \h36F2, \h0691, \h16B0, \h6657, \h7676, \h4615, \h5634,
  \hD94C, \hC96D, \hF90E, \hE92F, \h99C8, \h89E9, \hB98A, \hA9AB,
  \h5844, \h4865, \h7806, \h6827, \h18C0, \h08E1, \h3882, \h28A3,
  \hCB7D, \hDB5C, \hEB3F, \hFB1E, \h8BF9, \h9BD8, \hABBB, \hBB9A,
  \h4A75, \h5A54, \h6A37, \h7A16, \h0AF1, \h1AD0, \h2AB3, \h3A92,
  \hFD2E, \hED0F, \hDD6C, \hCD4D, \hBDAA, \hAD8B, \h9DE8, \h8DC9,
  \h7C26, \h6C07, \h5C64, \h4C45, \h3CA2, \h2C83, \h1CE0, \h0CC1,
  \hEF1F, \hFF3E, \hCF5D, \hDF7C, \hAF9B, \hBFBA, \h8FD9, \h9FF8,
  \h6E17, \h7E36, \h4E55, \h5E74, \h2E93, \h3EB2, \h0ED1, \h1EF0
  >>

(* Mutant: crc << 8 kept in a wider accumulator. *)
CrcStepNoTrunc(crc, b) ==
  (crc * 256) ^^ crc16tab[(((crc \div 256) ^^ b) % 256) + 1]

CrcStep(crc, b) ==
  ((crc * 256) % 65536) ^^ crc16tab[(((crc \div 256) ^^ b) % 256) + 1]

RECURSIVE crc16_loop(_, _)
crc16_loop(crc, s) == IF s = <<>> THEN crc ELSE crc16_loop(CrcStep(crc, Head(s)), Tail(s))

crc16_xmodem(s) == crc16_loop(0, s)

(* The reference: CRC-16/XMODEM bit by bit, polynomial \h1021, MSB first. *)
RefShift(c) == IF c >= 32768 THEN ((2 * c) % 65536) ^^ 4129 ELSE (2 * c) % 65536

RECURSIVE RefBits(_, _)
RefBits(c, n) == IF n = 0 THEN c ELSE RefBits(RefShift(c), n - 1)

RECURSIVE RefCrcFrom(_, _)
RefCrcFrom(c, s) ==
  IF s = <<>> THEN c ELSE RefCrcFrom(RefBits(c ^^ (Head(s) * 256), 8), Tail(s))

RefCrc(s) == RefCrcFrom(0, s)

(* rs232_2400_serialize: the payload, the CRC MSB and LSB, and '\r'. *)
rs232_2400_serialize(payload) ==
  LET crc == crc16_xmodem(payload)
  IN  payload \o <<crc \div 256, crc % 256, CR>>

AnswerFrame(b) == rs232_2400_serialize(<<LPAR>> \o b)

-----------------------------------------------------------------------------
(* parse_rsp_is_nak(...) == 0 *)
parse_rsp_is_nak(p) == Len(p) >= 3 /\ SubSeq(p, 1, 3) = NAK

(* The value each parse_rsp_* of a requested id returns; the fields it *)
(* converts are left out.                                               *)
parse_rsp_qvfw(p) == IF Len(p) # 14 THEN -1 ELSE 0
parse_rsp_qpigs(p) == IF Len(p) < 106 THEN -1 ELSE 0
parse_rsp_qpiws(p) == 0
parse_rsp_qmod(p) == IF Len(p) # 1 THEN -1 ELSE 0

Handled == {"QVFW", "QPIGS", "QPIWS", "QMOD"}

SubParse(id, p) ==
  CASE id = "QVFW"  -> parse_rsp_qvfw(p)
    [] id = "QPIGS" -> parse_rsp_qpigs(p)
    [] id = "QPIWS" -> parse_rsp_qpiws(p)
    [] id = "QMOD"  -> parse_rsp_qmod(p)

(* The int a parse_rsp_* returns, stored in the uint16_t *err. *)
U16(x) == x % 65536

ParseResult(n, err, crcOk, pkt) == [n |-> n, err |-> err, crcOk |-> crcOk, pkt |-> pkt]

(* Mutant: the CRC comparison left out. *)
rs232_2400_rsp_parseNoCrc(id, d) ==
  LET len == Len(d)
      start == SelectLastInSeq(d, LAMBDA x : x = LPAR)
      end == IF start = 0 THEN 0 ELSE SelectInSubSeq(d, start, len, LAMBDA x : x = CR)
      act == d[end - 2] * 256 + d[end - 1]
      exp == crc16_xmodem(SubSeq(d, start, end - 3))
      packet == SubSeq(d, start + 1, end - 3)
  IN CASE len < 5 -> ParseResult(0, PARSE_STATUS_NO_PACKET, FALSE, <<>>)
       [] start = 0 -> ParseResult(len, PARSE_STATUS_NO_PACKET, FALSE, <<>>)
       [] end = 0 -> ParseResult(start - 1, PARSE_STATUS_NO_PACKET, FALSE, <<>>)
       [] end - start <= 2 -> ParseResult(start - 1, PARSE_STATUS_NO_PACKET, FALSE, <<>>)
       [] parse_rsp_is_nak(packet) -> ParseResult(end, PARSE_STATUS_RQ_REJECTED, TRUE, packet)
       [] id \notin Handled -> ParseResult(end, PARSE_STATUS_NO_PACKET, TRUE, packet)
       [] OTHER -> ParseResult(end, U16(SubParse(id, packet)), TRUE, packet)

(* Mutant: a frame without its '\r' yet consumed whole. *)
rs232_2400_rsp_parseDropPartial(id, d) ==
  LET len == Len(d)
      start == SelectLastInSeq(d, LAMBDA x : x = LPAR)
      end == IF start = 0 THEN 0 ELSE SelectInSubSeq(d, start, len, LAMBDA x : x = CR)
      act == d[end - 2] * 256 + d[end - 1]
      exp == crc16_xmodem(SubSeq(d, start, end - 3))
      packet == SubSeq(d, start + 1, end - 3)
  IN CASE len < 5 -> ParseResult(0, PARSE_STATUS_NO_PACKET, FALSE, <<>>)
       [] start = 0 -> ParseResult(len, PARSE_STATUS_NO_PACKET, FALSE, <<>>)
       [] end = 0 -> ParseResult(len, PARSE_STATUS_NO_PACKET, FALSE, <<>>)
       [] end - start <= 2 -> ParseResult(start - 1, PARSE_STATUS_NO_PACKET, FALSE, <<>>)
       [] exp # act -> ParseResult(end, PARSE_STATUS_INVALID_CRC, FALSE, <<>>)
       [] parse_rsp_is_nak(packet) -> ParseResult(end, PARSE_STATUS_RQ_REJECTED, TRUE, packet)
       [] id \notin Handled -> ParseResult(end, PARSE_STATUS_NO_PACKET, TRUE, packet)
       [] OTHER -> ParseResult(end, U16(SubParse(id, packet)), TRUE, packet)

(* rs232_2400_rsp_parse(rq_id, d): the bytes consumed, the status, and   *)
(* the packet between '(' and the CRC when the CRC check passed.  start *)
(* and end are 1-based: start - 1 and end are the code's offsets of the *)
(* '(' and one past the '\r'.                                           *)
rs232_2400_rsp_parse(id, d) ==
  LET len == Len(d)
      start == SelectLastInSeq(d, LAMBDA x : x = LPAR)
      end == IF start = 0 THEN 0 ELSE SelectInSubSeq(d, start, len, LAMBDA x : x = CR)
      act == d[end - 2] * 256 + d[end - 1]
      exp == crc16_xmodem(SubSeq(d, start, end - 3))
      packet == SubSeq(d, start + 1, end - 3)
  IN CASE len < 5 -> ParseResult(0, PARSE_STATUS_NO_PACKET, FALSE, <<>>)
       [] start = 0 -> ParseResult(len, PARSE_STATUS_NO_PACKET, FALSE, <<>>)
       [] end = 0 -> ParseResult(start - 1, PARSE_STATUS_NO_PACKET, FALSE, <<>>)
       [] end - start <= 2 -> ParseResult(start - 1, PARSE_STATUS_NO_PACKET, FALSE, <<>>)
       [] exp # act -> ParseResult(end, PARSE_STATUS_INVALID_CRC, FALSE, <<>>)
       [] parse_rsp_is_nak(packet) -> ParseResult(end, PARSE_STATUS_RQ_REJECTED, TRUE, packet)
       [] id \notin Handled -> ParseResult(end, PARSE_STATUS_NO_PACKET, TRUE, packet)
       [] OTHER -> ParseResult(end, U16(SubParse(id, packet)), TRUE, packet)

-----------------------------------------------------------------------------
(* parse() in rx.c: at most 8 calls of the plugin on the rest of d; it  *)
(* stops at the first status other than NO_PACKET and the unknown ones.  *)
(* r holds the bytes consumed, the last status and the packets that      *)
(* passed the CRC check.                                                  *)
Stops == {PARSE_STATUS_OK, PARSE_STATUS_INVALID_CRC,
          PARSE_STATUS_RQ_REJECTED, PARSE_STATUS_PACKET_MALFORMED}

RECURSIVE ParseRounds(_, _, _, _)
ParseRounds(id, d, i, r) ==
  IF r.n >= Len(d) \/ i >= 8 THEN r
  ELSE LET p == rs232_2400_rsp_parse(id, SubSeq(d, r.n + 1, Len(d)))
           r2 == [n |-> r.n + p.n, status |-> p.err,
                  passed |-> r.passed \cup (IF p.crcOk THEN {p.pkt} ELSE {})]
       IN  IF p.err \in Stops THEN r2 ELSE ParseRounds(id, d, i + 1, r2)

parse(id, d) ==
  LET none == [n |-> 0, status |-> PARSE_STATUS_NO_PACKET, passed |-> {}]
  IN  IF id = INVALID THEN none ELSE ParseRounds(id, d, 0, none)

(* process_data's loop: at most 8 calls of parse() on the bytes read     *)
(* from the ring.  OK runs packet_handler, whose ack_rsp clears           *)
(* last_rq_id; RQ_REJECTED is acknowledged by parse() itself.            *)
RECURSIVE ProcessRounds(_, _, _)
ProcessRounds(d, i, s) ==
  IF s.n >= Len(d) \/ i >= 8 THEN s
  ELSE LET r == parse(s.id, SubSeq(d, s.n + 1, Len(d)))
           acked == r.status \in {PARSE_STATUS_OK, PARSE_STATUS_RQ_REJECTED}
       IN  ProcessRounds(d, i + 1,
             [n |-> s.n + r.n,
              id |-> IF acked THEN INVALID ELSE s.id,
              passed |-> s.passed \cup r.passed,
              handled |-> s.handled + (IF r.status = PARSE_STATUS_OK THEN 1 ELSE 0)])

(* The ring after em_ringbuf_clear(ring, k). *)
Cleared(buf, k) == IF k >= Len(buf) THEN <<>> ELSE SubSeq(buf, k + 1, Len(buf))

-----------------------------------------------------------------------------
Init ==
  /\ line = <<>>
  /\ ring = <<>>
  /\ last_rq_id = INVALID
  /\ asked = FALSE
  /\ cur = [body |-> <<>>, intact |-> FALSE, seen |-> FALSE]
  /\ sent = {}
  /\ heard = {}
  /\ answers = 0
  /\ faults = 0

(* The worker transmits a request (task.c:111-120): the id it now awaits. *)
Transmit(id) ==
  /\ last_rq_id' = id
  /\ asked' = TRUE
  /\ UNCHANGED <<line, ring, cur, sent, heard, answers, faults>>

(* The inverter answers the request with a frame. *)
InverterAnswers(b) ==
  /\ asked
  /\ line = <<>>
  /\ answers < MaxAnswers
  /\ line' = AnswerFrame(b)
  /\ asked' = FALSE
  /\ cur' = [body |-> b, intact |-> TRUE, seen |-> FALSE]
  /\ sent' = sent \cup {b}
  /\ answers' = answers + 1
  /\ UNCHANGED <<ring, last_rq_id, heard, faults>>

(* A byte on the line is changed or lost. *)
LineFault ==
  /\ faults < MaxFaults
  /\ \E i \in 1..Len(line) :
       \/ \E v \in NoiseBytes \ {line[i]} : line' = ReplaceAt(line, i, v)
       \/ line' = RemoveAt(line, i)
  /\ cur' = [cur EXCEPT !.intact = FALSE]
  /\ faults' = faults + 1
  /\ UNCHANGED <<ring, last_rq_id, asked, sent, heard, answers>>

(* Mutant: em_ringbuf_write past the capacity instead of over the oldest bytes. *)
UartRxNoOverwrite ==
  \E k \in 1..MaxChunk :
    /\ k <= Len(line)
    /\ LET buf == ring \o SubSeq(line, 1, k)
           d == SubSeq(buf, 1, IF MaxPacketLen < Len(buf) THEN MaxPacketLen ELSE Len(buf))
       IN  \E s \in {ProcessRounds(d, 0, [n |-> 0, id |-> last_rq_id, passed |-> {}, handled |-> 0])} :
           /\ line' = SubSeq(line, k + 1, Len(line))
           /\ ring' = IF s.n > 0 THEN Cleared(buf, s.n) ELSE buf
           /\ last_rq_id' = s.id
           /\ heard' = heard \cup s.passed
           /\ cur' = [cur EXCEPT !.seen = @ \/ cur.body \in s.passed]
    /\ UNCHANGED <<asked, sent, answers, faults>>

(* The uart task reads k bytes and the worker runs process_data on them: *)
(* em_ringbuf_write, em_ringbuf_read of MAX_PACKET_LEN bytes, the parse  *)
(* rounds, em_ringbuf_clear of the bytes consumed.                       *)
UartRx ==
  \E k \in 1..MaxChunk :
    /\ k <= Len(line)
    /\ LET buf == RingWrite(ring, SubSeq(line, 1, k))
           d == SubSeq(buf, 1, IF MaxPacketLen < Len(buf) THEN MaxPacketLen ELSE Len(buf))
       IN  \E s \in {ProcessRounds(d, 0, [n |-> 0, id |-> last_rq_id, passed |-> {}, handled |-> 0])} :
           /\ line' = SubSeq(line, k + 1, Len(line))
           /\ ring' = IF s.n > 0 THEN Cleared(buf, s.n) ELSE buf
           /\ last_rq_id' = s.id
           /\ heard' = heard \cup s.passed
           /\ cur' = [cur EXCEPT !.seen = @ \/ cur.body \in s.passed]
    /\ UNCHANGED <<asked, sent, answers, faults>>

Next ==
  \/ \E id \in Requests : Transmit(id)
  \/ \E b \in Bodies : InverterAnswers(b)
  \/ LineFault
  \/ UartRx

Spec == Init /\ [][Next]_vars

-----------------------------------------------------------------------------
TypeOK ==
  /\ line \in Seq(Byte)
  /\ ring \in Seq(Byte) /\ Len(ring) <= 2 * MaxPacketLen
  /\ last_rq_id \in Requests \cup {INVALID}
  /\ asked \in BOOLEAN
  /\ cur \in [body : Bodies \cup {<<>>}, intact : BOOLEAN, seen : BOOLEAN]
  /\ sent \subseteq Bodies
  /\ answers \in 0..MaxAnswers
  /\ faults \in 0..MaxFaults

(* crc16_xmodem, its 256-entry table and the uint16 truncation of      *)
(* crc << 8 compute CRC-16/XMODEM: they agree with the bit-by-bit       *)
(* definition on every single byte, on pairs of edge bytes, and on the  *)
(* frame of every answer the inverter has sent.                          *)
CrcInputs ==
  {<<b>> : b \in Byte} \cup {<<x, y>> : x, y \in {0, LPAR, CR, 255}}

CrcAgreesOn(S) == \A s \in S : crc16_xmodem(s) = RefCrc(s)

CrcTableAgrees == CrcAgreesOn(CrcInputs)

CrcMatchesReference ==
  CrcTableAgrees /\ CrcAgreesOn({<<LPAR>> \o b : b \in sent})

(* Whatever the line does to an answer (a byte changed or lost), every  *)
(* packet rs232_2400_rsp_parse lets past its CRC check is a body the    *)
(* inverter sent: a damaged frame never reaches the NAK check or the    *)
(* per-command parsers (spec.md section 8: a corrupted frame never      *)
(* triggers a handler).                                                  *)
NoPhantomFrame == heard \subseteq sent

(* rs232_2400_rsp_parse is re-invocable on partial data (spec.md        *)
(* section 6): while an intact answer is still arriving, the bytes of   *)
(* it already read stay at the end of the ring, whatever process_data   *)
(* consumed before them.                                                 *)
KeepsPartialAnswer ==
  (cur.intact /\ line # <<>> /\ Len(line) < Len(AnswerFrame(cur.body)))
    => IsSuffix(SubSeq(AnswerFrame(cur.body), 1, Len(AnswerFrame(cur.body)) - Len(line)), ring)

(* An intact answer is recognised as a frame: once all of it has been   *)
(* read from the line, its packet has passed the CRC check.             *)
AnswerRecognised == (cur.intact /\ line = <<>>) => cur.seen

=============================================================================
