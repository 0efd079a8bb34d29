------------------------------- MODULE Buffer -------------------------------
(***************************************************************************)
(* base/buffer.h: the two positions of a buffer in its block.  `bytes' are *)
(* those below write_pos_, so write_pos_ is their number; sizes are        *)
(* size_t and wrap at Wrap.                                                *)
(***************************************************************************)
EXTENDS Integers, Sequences

CONSTANTS MinBufferSize,  \* min_buffer_size
          Wrap            \* 2^64

Least(a, b) == IF a < b THEN a ELSE b
Most(a, b) == IF a > b THEN a ELSE b

NewBuffer(size) == [bytes |-> <<>>, read |-> 0, size |-> Most(size, MinBufferSize)]

Length(b) == (Len(b.bytes) - b.read) % Wrap
WriteValidCount(b) == (b.size - Len(b.bytes)) % Wrap
Held(b) == SubSeq(b.bytes, b.read + 1, Len(b.bytes))

RemoveLength(b, n) == IF b.read + n <= b.size THEN [b EXCEPT !.read = @ + n] ELSE b
\* add_write_pos behind the bytes that a read has put there.
AddWritePos(b, new) ==
    IF Len(b.bytes) + Len(new) <= b.size THEN [b EXCEPT !.bytes = @ \o new] ELSE b
\* add_write_pos(size_t(-1)).
AddWritePosMinusOne(b) ==
    IF b.bytes = <<>> THEN b ELSE [b EXCEPT !.bytes = SubSeq(@, 1, Len(@) - 1)]
AdjustToHead(b) == [b EXCEPT !.bytes = Held(b), !.read = 0]
\* The block gets n bytes more; all bytes below write_pos_ are copied.
Grow(b, n) == [b EXCEPT !.size = (@ + n) % Wrap]
Overrun(b) == Len(b.bytes) > b.size

\* write: in place, after moving to the head, or after growing by what lacks.
Write(b, new) ==
    LET left == b.size - Length(b)
        wide == IF left < Len(new) THEN Grow(b, Len(new) - left) ELSE b
    IN IF WriteValidCount(wide) >= Len(new) THEN AddWritePos(wide, new)
       ELSE AddWritePos(AdjustToHead(wide), new)
=============================================================================
