------------------------------ MODULE HttpCuts ------------------------------
(***************************************************************************)
(* The same bytes given to the parser twice: in one piece, then, to a new  *)
(* parser, in pieces.  The inputs need not be HTTP.                        *)
(***************************************************************************)
EXTENDS HttpParser

VARIABLES whole,     \* history: the outcome of the bytes in one piece
          begun      \* history: the first symbol of the block that is read

NotYet == [failed |-> FALSE, seen |-> <<>>, rest |-> <<>>]
Idle == ~running /\ p > Len(wire)
\* After an error, what the parser has is not looked at any more.
Outcome == LET failed == parser.http_errno # "HPE_OK"
           IN [failed |-> failed,
               seen |-> <<api.delivered, api.handshake, api.ws>>,
               rest |-> IF failed THEN <<>> ELSE <<parser, api>>]

\* A block is what has to fit into max_header_size: what comes before a first
\* line, the line and its headers; the line of a chunk's size; or trailers, with
\* the block after them.  It ends with the headers, or with the line of a size,
\* and the next one begins behind the body, or where another protocol does.
EndsBlock ==
    /\ running /\ p < end
    /\ parser.state \in {"s_headers_done", "s_chunk_size_almost_done"} \cup BodyStates
    /\ "F_TRAILING" \notin parser.flags \/ parser.state # "s_message_done"
Observe ==
    /\ begun' = IF /\ parser'.http_errno = "HPE_OK"
                   /\ EndsBlock \/ (parser'.upgrade /\ ~running')
                THEN p' ELSE begun
    /\ UNCHANGED whole

CutsInit == Init /\ whole = NotYet /\ begun = 1
InOnePiece == /\ whole = NotYet
              /\ Execute \/ EndOfBuffer \/ (p = 1 /\ TryParse(Len(wire)))
              /\ Observe
Again == /\ whole = NotYet /\ Idle
         /\ whole' = Outcome /\ begun' = 1
         /\ p' = 1 /\ end' = 1 /\ parser' = NewParser(input.type) /\ api' = NewApi
         /\ redo' = FALSE /\ start' = 0 /\ UNCHANGED <<input, running, mark>>
InPieces == whole # NotYet /\ Next /\ Observe
CutsNext == InOnePiece \/ Again \/ InPieces
CutsSpec == CutsInit /\ [][CutsNext]_<<vars, whole, begun>>

(* It does not matter how the bytes are cut (of messages that switch protocols
   those without a body are tried): the same messages are delivered,
   an error is found in the same inputs, and without one the parser ends in
   the same state, down to the index in a word it is matching and the part of
   a header it has collected. *)
CutsDoNotMatter == whole # NotYet /\ Idle => Outcome = whole

(* An error is final: after it no message is delivered and nothing reaches
   the websocket parser, however much is still received.  This leaves out an
   error in the body of a request that switches protocols: there `upgrade' is
   set with the headers, and try_parse tests it first. *)
ErrorsAreFinal ==
    [][parser.http_errno # "HPE_OK" /\ ~parser.upgrade /\ parser' # NewParser(input.type) =>
           /\ parser'.http_errno = parser.http_errno
           /\ api' = api]_<<vars, whole>>

(* "Don't allow the total size of the HTTP headers (including the status
   line) to exceed max_header_size" (line 562): between two pieces no block
   that is still open is longer, however it was cut, and what is refused as
   too long is too long. *)
BlocksAreBounded ==
    /\ ~running /\ parser.http_errno = "HPE_OK" /\ parser.state \notin BodyStates
           => p - begun <= MaxHeaderSize
    /\ parser.http_errno = "HPE_HEADER_OVERFLOW" => end - begun > MaxHeaderSize
=============================================================================
