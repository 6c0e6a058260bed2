----------------------------- MODULE RingBuffer -----------------------------
(***************************************************************************)
(* The octet ring buffer of sal_ring.h as pure operators on its read       *)
(* index, its write index and its size.  The buffer is empty when the two  *)
(* indices are equal, so at most size - 1 octets are ever stored.          *)
(***************************************************************************)
EXTENDS Integers

\* ring_buffer_avail_for_read
AvailForRead(rd, wr, size) == (wr - rd + size) % size

\* ring_buffer_cavail_for_read: what can be read without wrapping around
CavailForRead(rd, wr, size) == IF wr >= rd THEN wr - rd ELSE size - rd

\* ring_buffer_avail_for_write
AvailForWrite(rd, wr, size) ==
    IF rd = wr THEN size - 1 ELSE (rd - wr - 1 + size) % size

\* Faulty variant: the octet a ring leaves open is forgotten.
OpenOctetForgotten(rd, wr, size) ==
    IF rd > wr THEN AvailForWrite(rd, wr, size) ELSE size - wr

\* ring_buffer_cavail_for_write: what can be written without wrapping around
CavailForWrite(rd, wr, size) ==
    IF rd > wr THEN AvailForWrite(rd, wr, size)
    ELSE IF rd = 0 THEN size - wr - 1
    ELSE size - wr

\* Faulty variant: the index does not wrap around.
AdvanceUnwrapped(idx, n, size) == idx + n

\* ring_buffer_move_read and ring_buffer_move_write
Advance(idx, n, size) == (idx + n) % size
=============================================================================
