----------------------------- MODULE RingQueue -----------------------------
(***************************************************************************)
(* What em_ringbuf promises process_data (ringbuf.h): a byte queue of a    *)
(* fixed capacity.  A write appends and, past the capacity, loses the     *)
(* oldest bytes; clear(k) drops the first k bytes (all of them when k is  *)
(* the length or more); flush empties it; read(n) returns the first n     *)
(* bytes, or all when fewer, and consumes nothing.                        *)
(***************************************************************************)
EXTENDS Naturals, Sequences

CONSTANTS Capacity, Bytes, MaxChunk

VARIABLES
  q,     \* the bytes held, oldest first
  call   \* the last call made on the ring and its argument

qvars == <<q, call>>

(* The byte strings a single em_ringbuf_write may be given (len > 0). *)
WriteChunks == UNION {[1..n -> Bytes] : n \in 1..MaxChunk}

(* The last Capacity elements of s. *)
KeepNewest(s) ==
  IF Len(s) > Capacity THEN SubSeq(s, Len(s) - Capacity + 1, Len(s)) ELSE s

Init == q = <<>> /\ call = <<"init">>

Write(data) == q' = KeepNewest(q \o data) /\ call' = <<"write", data>>

Clear(k) ==
  /\ q' = IF k >= Len(q) THEN <<>> ELSE SubSeq(q, k + 1, Len(q))
  /\ call' = <<"clear", k>>

Flush == q' = <<>> /\ call' = <<"flush">>

(* em_ringbuf_read(buf, data, n): the oldest n bytes, or all of them. *)
Peek(n) == SubSeq(q, 1, IF n < Len(q) THEN n ELSE Len(q))

Next ==
  \/ \E data \in WriteChunks : Write(data)
  \/ \E k \in 1..(Capacity + 1) : Clear(k)
  \/ Flush

Spec == Init /\ [][Next]_qvars

=============================================================================
