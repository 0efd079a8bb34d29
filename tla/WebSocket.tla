----------------------------- MODULE WebSocket -----------------------------
(***************************************************************************)
(* net/http/websocket_parser.h: the text of a frame (to_string) and how a  *)
(* frame is read back (try_parse_frame).  A byte is a number below Radix;  *)
(* its high bit is the FIN or MASK bit.                                    *)
(***************************************************************************)
EXTENDS Naturals, Sequences

CONSTANTS Radix,     \* 256
          Short,     \* 125, the longest payload whose length fits the second byte
          Long,      \* 0xFFFF, the longest whose length fits 16 bits
          XorByte(_, _)  \* bit by bit, of two bytes

HighBit == Radix \div 2

ASSUME ByteAssumption ==
    /\ Radix \in Nat \ {0} /\ Radix % 32 = 0
    /\ \A a, b \in 0 .. Radix - 1 :
          XorByte(a, b) \in 0 .. Radix - 1 /\ XorByte(XorByte(a, b), b) = a
ASSUME LengthAssumption ==
    /\ Short \in Nat /\ Long \in Nat
    /\ Short + 2 < HighBit /\ Short <= Long /\ Long < Radix * Radix

op_continuation_frame == 0
op_text_frame == 1
op_handshake_req == 11
op_handshake_ack == 12
op_unknow == 13

\* websocket_frame::reset
NoFrame == [opcode |-> op_unknow, payload |-> <<>>, fin |-> TRUE, mask |-> TRUE]

\* host_to_net_16/64 and back, for a number of k bytes.
Shifted(num, k) == LET shifted[i \in 0..k] == IF i = 0 THEN num ELSE shifted[i - 1] \div Radix
                   IN shifted
HostToNet(num, k) == [i \in 1..k |-> Shifted(num, k)[k - i] % Radix]
NetToHost(bytes) == LET num[i \in 0..Len(bytes)] ==
                            IF i = 0 THEN 0 ELSE num[i - 1] * Radix + bytes[i]
                    IN num[Len(bytes)]

XorKey(bytes, key) == [i \in DOMAIN bytes |-> XorByte(bytes[i], key[((i - 1) % 4) + 1])]

-----------------------------------------------------------------------------
\* websocket_frame::to_string, with the key that the random generator gives.
LengthBytes(n, flag) ==
    IF n <= Short THEN <<n + flag>>
    ELSE IF n <= Long THEN <<Short + 1 + flag>> \o HostToNet(n, 2)
    ELSE <<Short + 2 + flag>> \o HostToNet(n, 8)
\* A masked frame moves pos behind the payload and then adds its length again:
\* as many bytes, all zero, follow the frame.
Body(f, key) ==
    IF f.mask THEN key \o XorKey(f.payload, key) \o [i \in DOMAIN f.payload |-> 0]
    ELSE f.payload
FrameString(f, key) ==
    <<f.opcode + (IF f.fin THEN HighBit ELSE 0)>>
        \o LengthBytes(Len(f.payload), IF f.mask THEN HighBit ELSE 0) \o Body(f, key)

-----------------------------------------------------------------------------
\* try_parse_frame: `ok' is its return value, `size' is frame_size; or the
\* length_error that std::string throws at it, which nothing catches.
NotYet == [ok |-> FALSE, thrown |-> FALSE, size |-> 0, fin |-> FALSE, opcode |-> op_unknow,
           payload |-> <<>>]
LengthError == [NotYet EXCEPT !.thrown = TRUE]
ExtendedLength(data) == CASE data[2] % HighBit = Short + 1 -> 2
                          [] data[2] % HighBit = Short + 2 -> 8
                          [] OTHER -> 0
KeyLength(data) == IF data[2] >= HighBit THEN 4 ELSE 0
PayloadLength(data, ext) ==
    IF ext = 0 THEN data[2] % HighBit ELSE NetToHost(SubSeq(data, 3, 2 + ext))

ParsePayload(data, pos, n) ==
    LET bytes == SubSeq(data, pos + 1, pos + n)
    IN CASE Shifted(pos + n, 8)[8] # 0 -> LengthError   \* the sum wraps and passes the test
         [] Shifted(pos + n, 8)[8] = 0 /\ Len(data) < pos + n -> NotYet
         [] OTHER -> [ok |-> TRUE, thrown |-> FALSE, size |-> pos + n,
                      fin |-> data[1] >= HighBit, opcode |-> data[1] % 16,
                      payload |-> IF KeyLength(data) = 0 THEN bytes
                                  ELSE XorKey(bytes, SubSeq(data, pos - 3, pos))]
TryParseFrame(data) ==
    IF Len(data) < 2 THEN NotYet
    ELSE LET ext == ExtendedLength(data)
             pos == 2 + ext + KeyLength(data)
         IN CASE Len(data) < 2 + ext /\ ext = 8 ->      \* `return len', which is true
                   [NotYet EXCEPT !.ok = TRUE, !.fin = data[1] >= HighBit,
                                  !.opcode = data[1] % 16]
              [] Len(data) < 2 + ext /\ ext # 8 -> NotYet
              [] Len(data) >= 2 + ext /\ Len(data) < pos -> NotYet
              [] OTHER -> ParsePayload(data, pos, PayloadLength(data, ext))

\* One round of the loop of try_ws_parse: frame_ after the frame f was read.
Gathered_LastOpcode(frame, f) ==
    [frame EXCEPT !.payload = @ \o f.payload, !.opcode = f.opcode]
Gathered(frame, f) ==
    [frame EXCEPT !.payload = @ \o f.payload,
                  !.opcode = IF f.opcode # op_continuation_frame THEN f.opcode ELSE @]
=============================================================================
