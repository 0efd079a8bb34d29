--------------------------- MODULE MCHttpSession ---------------------------
(***************************************************************************)
(* Bytes of five bits and lengths on a smaller scale: at most 2 fit the     *)
(* second byte, at most 5 the two bytes behind it.                          *)
(***************************************************************************)
EXTENDS HttpSession, Bitwise

NoFrames == [s \in Side |-> <<>>]
Text(payload, mask, fin) == [opcode |-> op_text_frame, payload |-> payload, fin |-> fin, mask |-> mask]
Rest(payload, mask) ==
    [opcode |-> op_continuation_frame, payload |-> payload, fin |-> TRUE, mask |-> mask]

Http(requests, bye) == [requests |-> requests, websocket |-> FALSE, frames |-> NoFrames, bye |-> bye]
Socket(client, server) ==
    [requests |-> <<>>, websocket |-> TRUE, bye |-> FALSE,
     frames |-> [s \in Side |-> IF s = "client" THEN client ELSE server]]

MCPlans ==
    {Http(<<"keep", "keep", "close">>, FALSE), Http(<<"keep", "keep">>, TRUE),
     [Socket(<<Text(<<7>>, FALSE, TRUE)>>, <<>>) EXCEPT !.requests = <<"keep">>, !.bye = TRUE],
     Socket(<<Text(<<20, 1>>, TRUE, TRUE)>>, <<Text(<<9>>, FALSE, TRUE), Text(<<>>, FALSE, TRUE)>>),
     Socket(<<Text(<<3, 31>>, TRUE, FALSE), Rest(<<8, 2, 1>>, TRUE)>>, <<>>),
     Socket(<<Text(<<20>>, TRUE, TRUE), Text(<<7, 1>>, FALSE, TRUE), Text(<<17, 0>>, FALSE, TRUE)>>, <<>>),
     Socket(<<Text(<<20>>, TRUE, TRUE), Text(<<28, 0>>, FALSE, FALSE)>>, <<>>),
     Socket(<<>>, <<Text(<<0, 1, 2, 3, 4, 5>>, FALSE, TRUE), Text(<<30, 1, 17>>, FALSE, TRUE)>>),
     Socket(<<Text(<<16, 2, 3, 4>>, TRUE, TRUE)>>, <<Text(<<5, 6, 7>>, FALSE, FALSE), Rest(<<1>>, FALSE)>>)}
MCXorByte(a, b) == a ^^ b
MCMaskKeys == {<<1, 2, 19, 4>>, <<31, 0, 5, 16>>}
=============================================================================
