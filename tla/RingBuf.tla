------------------------------ MODULE RingBuf ------------------------------
(***************************************************************************)
(* em_ringbuf (ringbuf.c) at byte level: the storage array, the read and  *)
(* write indices and the is_full flag, with write, clear and flush as     *)
(* actions and read and len as operators.  The storage of the serial      *)
(* client's ring is an uninitialised stack array (task.c), so Init lets   *)
(* it hold any bytes.  The module is shown to implement RingQueue under   *)
(* the mapping AbsQ.                                                       *)
(***************************************************************************)
EXTENDS Naturals, Sequences

CONSTANTS
  Size,      \* buf->size
  Bytes,     \* byte values the writes carry
  MaxChunk   \* longest single write

ASSUME Size \in Nat \ {0} /\ MaxChunk \in Nat \ {0}

VARIABLES
  buffer,    \* buf->buffer[0 .. size-1]
  read,      \* buf->read
  write,     \* buf->write
  is_full,   \* buf->is_full
  call       \* ghost: the last call made and its argument

vars == <<buffer, read, write, is_full, call>>

Idx == 0..(Size - 1)

WriteChunks == UNION {[1..n -> Bytes] : n \in 1..MaxChunk}

(* em_ringbuf_len *)
RingLen ==
  IF is_full THEN Size
  ELSE IF write >= read THEN write - read
  ELSE Size - (read - write)

-----------------------------------------------------------------------------
(* em_ringbuf_init, on storage nobody has written. *)
Init ==
  /\ buffer \in [Idx -> Bytes]
  /\ read = 0
  /\ write = 0
  /\ is_full = FALSE
  /\ call = <<"init">>

(* A write loop that forgets "% buf->size" on the write index: a         *)
(* mutation WriteLoop must not admit.                                    *)
RECURSIVE WriteLoopNoWrap(_, _)
WriteLoopNoWrap(st, data) ==
  IF data = <<>> THEN st
  ELSE LET rd == IF st.full THEN (st.rd + 1) % Size ELSE st.rd
           wr == st.wr + 1
       IN WriteLoopNoWrap([buf |-> [st.buf EXCEPT ![st.wr] = Head(data)],
                           rd |-> rd, wr |-> wr, full |-> rd = wr],
                          Tail(data))

(* The byte loop of em_ringbuf_write over st = [buf, rd, wr, full]: when *)
(* full, the oldest byte is overwritten by moving read first.            *)
RECURSIVE WriteLoop(_, _)
WriteLoop(st, data) ==
  IF data = <<>> THEN st
  ELSE LET rd == IF st.full THEN (st.rd + 1) % Size ELSE st.rd
           wr == (st.wr + 1) % Size
       IN WriteLoop([buf |-> [st.buf EXCEPT ![st.wr] = Head(data)],
                     rd |-> rd, wr |-> wr, full |-> rd = wr],
                    Tail(data))

(* em_ringbuf_write; it always returns len, so process_data goes on. *)
Write(data) ==
  LET st == WriteLoop([buf |-> buffer, rd |-> read, wr |-> write,
                       full |-> is_full], data)
  IN /\ buffer' = st.buf
     /\ read' = st.rd
     /\ write' = st.wr
     /\ is_full' = st.full
     /\ call' = <<"write", data>>

(* em_ringbuf_flush on the ring's fields. *)
FlushIdx ==
  /\ read' = 0
  /\ write' = 0
  /\ is_full' = FALSE
  /\ UNCHANGED buffer

(* em_ringbuf_flush called by the client. *)
Flush == FlushIdx /\ call' = <<"flush">>

(* A clear that moves read one byte short: a mutation of Clear. *)
ClearOffByOne(k) ==
  /\ call' = <<"clear", k>>
  /\ \/ /\ RingLen = 0
        /\ UNCHANGED <<buffer, read, write, is_full>>
     \/ /\ RingLen # 0 /\ k >= RingLen
        /\ FlushIdx
     \/ /\ RingLen # 0 /\ k < RingLen
        /\ read' = (read + k - 1) % Size
        /\ is_full' = FALSE
        /\ UNCHANGED <<buffer, write>>

(* em_ringbuf_clear(buf, k), k > 0 by its assert: nothing on an empty    *)
(* ring, a flush when k covers the length, else read moves on by k.      *)
Clear(k) ==
  /\ call' = <<"clear", k>>
  /\ \/ /\ RingLen = 0                   \* "Buf empty, nothing to clear"
        /\ UNCHANGED <<buffer, read, write, is_full>>
     \/ /\ RingLen # 0 /\ k >= RingLen
        /\ FlushIdx
     \/ /\ RingLen # 0 /\ k < RingLen
        /\ read' = (read + k) % Size
        /\ is_full' = FALSE
        /\ UNCHANGED <<buffer, write>>

(* The copy loop of em_ringbuf_read from index i, stopping at len bytes  *)
(* or when it comes back to the write index after the first byte.        *)
RECURSIVE ReadLoop(_, _)
ReadLoop(i, len) ==
  IF i >= len \/ (i > 0 /\ (read + i) % Size = write) THEN <<>>
  ELSE <<buffer[(read + i) % Size]>> \o ReadLoop(i + 1, len)

(* A read without the empty-buffer early return: a mutation of ReadBytes. *)
ReadBytesNoEmptyCheck(len) == ReadLoop(0, len)

(* em_ringbuf_read(buf, data, len): the bytes copied into data. *)
ReadBytes(len) ==
  IF read = write /\ ~is_full THEN <<>> ELSE ReadLoop(0, len)

Next ==
  \/ \E data \in WriteChunks : Write(data)
  \/ \E k \in 1..(Size + 1) : Clear(k)
  \/ Flush

Spec == Init /\ [][Next]_vars

-----------------------------------------------------------------------------
(* The queue the ring holds: RingLen bytes from the read index on. *)
AbsQ == [i \in 1..RingLen |-> buffer[(read + i - 1) % Size]]

Abs == INSTANCE RingQueue WITH q <- AbsQ, Capacity <- Size

-----------------------------------------------------------------------------
(* Properties *)

TypeOK ==
  /\ buffer \in [Idx -> Bytes]
  /\ read \in Idx
  /\ write \in Idx
  /\ is_full \in BOOLEAN
  /\ call \in {<<"init">>, <<"flush">>}
               \cup {<<"write", d>> : d \in WriteChunks}
               \cup {<<"clear", k>> : k \in 1..(Size + 1)}

(* em_ringbuf_read returns exactly the oldest min(len, em_ringbuf_len)   *)
(* bytes: it never copies storage that was not written, nor stops short, *)
(* whatever the positions of read and write and the is_full flag.        *)
ReadReturnsOldest ==
  \A n \in 1..(Size + 1) : ReadBytes(n) = Abs!Peek(n)

(* The index arithmetic of write, clear and flush implements the byte    *)
(* queue of RingQueue: every step is a queue write (losing the oldest    *)
(* bytes past the capacity), a clear, a flush, or changes nothing.       *)
RefinesQueue == Abs!Spec

=============================================================================
