---------------------------- MODULE HttpSession ----------------------------
(***************************************************************************)
(* Two http_sessions on one connection: that of an http_connector and that *)
(* of an http_server.  HTTP messages are two elements of the stream each,  *)
(* their first byte and their end; frames are the bytes of WebSocket.  The *)
(* tcp_session below is its order of packets and what closes it; each side *)
(* handles its stream, its writes and their callbacks on one IO thread.    *)
(***************************************************************************)
EXTENDS WebSocket, SequencesExt

CONSTANTS Plans,           \* what the applications do: [requests, websocket, frames, bye]
          Pieces,          \* how many elements one readv or writev takes, beside all
          MaskKeys,        \* what the random generator gives
          MaxOutstanding   \* bound: requests that the client has not seen answered

ASSUME PieceAssumption == Pieces \subseteq Nat
ASSUME RequestAssumption == \A p \in Plans : p.requests \in Seq({"keep", "close"})

\* A client that asks for the connection to be closed sends no more requests:
\* the parser is dead then.
ASSUME CloseIsLast ==
    \A p \in Plans : \A i \in DOMAIN p.requests :
        p.requests[i] = "close" => i = Len(p.requests) /\ ~p.websocket

Side == {"client", "server"}
\* The applications leave the opcodes of the handshake alone, and a length is
\* a size_t.
ASSUME FrameAssumption ==
    \A p \in Plans : \A s \in Side :
        /\ p.frames[s] \in Seq([opcode : (0 .. 15) \ {op_handshake_req, op_handshake_ack},
                                payload : Seq(0 .. Radix - 1), fin : BOOLEAN, mask : BOOLEAN])
        /\ \A i \in DOMAIN p.frames[s] : Shifted(Len(p.frames[s][i].payload), 8)[8] = 0
ASSUME KeyAssumption == \A key \in MaskKeys : key \in Seq(0 .. Radix - 1) /\ Len(key) = 4

Other(s) == IF s = "client" THEN "server" ELSE "client"

VARIABLES
    plan,
    session,    \* session_ is set
    open,       \* the socket is open
    can_write,  \* is_can_write_, false after a shutdown
    wire,       \* elements on the way to a side
    eof,        \* the other side's FIN is behind them
    data,       \* what the data callback is given: the receive buffer and more
    pc,         \* where the IO thread is in try_parse
    upgrade,    \* parser_.upgrade
    keep_alive, \* request_.keep_alive_ of the server
    ws,         \* the websocket_parser: sec_websocket_key_, _accept_, frame_
    send_list,  \* packets not yet written: elements and completion callback
    started,    \* requests, handshakes and frames that the applications began
    owed,       \* requests the server's application has not answered
    answered,   \* history: responses the client has parsed; each is called back twice
    success,    \* history: calls of handshake_success_callback_
    got,        \* history: messages given to the websocket callbacks
    fault,      \* the assertion on frame_size failed
    begun,      \* history: requests that the server's parser has begun
    written,    \* history: answers whose completion callback has run on the server
    overtaken   \* history: one ran when the parser had begun a later request

turns == <<begun, written, overtaken>>
vars == <<plan, session, open, can_write, wire, eof, data, pc, upgrade, keep_alive, ws,
          send_list, started, owed, answered, success, got, fault, turns>>
tcp == <<session, open, can_write, eof>>

Byte(b) == [kind |-> "byte", value |-> b, half |-> 2]
Bytes(bs) == [i \in DOMAIN bs |-> Byte(bs[i])]
Values(es) == [i \in DOMAIN es |-> es[i].value]
\* A message whose value is its keep-alive or upgrade property.
Message(kind, value) == [h \in 1..2 |-> [kind |-> kind, value |-> value, half |-> h]]

\* tcp_session::send, unless session_ is null.
Send(s, elements, callback) ==
    send_list' = IF ~session[s] THEN send_list
                 ELSE [send_list EXCEPT ![s] = Append(@, [rest |-> elements, callback |-> callback])]

\* post_shutdown, run on the IO thread: what is not written yet never will be.
Shutdown(s) == /\ can_write' = [can_write EXCEPT ![s] = FALSE]
               /\ eof' = [eof EXCEPT ![Other(s)] = TRUE]

-----------------------------------------------------------------------------
\* What the applications do.
SendRequest ==
    LET n == started["client"].requests + 1
    IN /\ n <= Len(plan.requests) /\ n <= answered + MaxOutstanding
       /\ Send("client", Message("request", plan.requests[n]), "none")
       /\ started' = [started EXCEPT !["client"].requests = n]
       /\ UNCHANGED <<plan, tcp, wire, data, pc, upgrade, keep_alive, ws, owed, answered,
                      success, got, fault, turns>>
StartWsHandshake ==
    /\ plan.websocket /\ ~started["client"].handshake /\ answered = Len(plan.requests)
    /\ Send("client", Message("request", "upgrade"), "none")
    /\ started' = [started EXCEPT !["client"].handshake = TRUE]
    /\ UNCHANGED <<plan, tcp, wire, data, pc, upgrade, keep_alive, ws, owed, answered,
                   success, got, fault, turns>>
SendWsFrame(s) ==
    LET n == started[s].frames + 1
    IN /\ success[s] > 0 /\ n <= Len(plan.frames[s])
       /\ \E key \in MaskKeys : Send(s, Bytes(FrameString(plan.frames[s][n], key)), "none")
       /\ started' = [started EXCEPT ![s].frames = n]
       /\ UNCHANGED <<plan, tcp, wire, data, pc, upgrade, keep_alive, ws, owed, answered,
                      success, got, fault, turns>>
SendResponse ==
    /\ owed > 0 /\ owed' = owed - 1
    /\ Send("server", Message("response", "plain"), "response")
    /\ UNCHANGED <<plan, tcp, wire, data, pc, upgrade, keep_alive, ws, started, answered,
                   success, got, fault, turns>>
\* http_session::shutdown, called while session_ is set.
Bye == /\ plan.bye /\ session["client"] /\ open["client"] /\ can_write["client"]
       /\ pc["client"] = "idle"
       /\ Shutdown("client")
       /\ UNCHANGED <<plan, session, open, wire, data, pc, upgrade, keep_alive, ws, send_list,
                      started, owed, answered, success, got, fault, turns>>

-----------------------------------------------------------------------------
\* The tcp_session: packets are written in parts and complete in order.
Completion(s, callback) ==
    CASE callback = "response" ->
           /\ IF keep_alive THEN UNCHANGED <<can_write, eof>> ELSE Shutdown(s)
           /\ written' = written + 1
           /\ overtaken' = (overtaken \/ begun > written + 1)
           /\ UNCHANGED success
      [] callback = "ack" -> /\ success' = [success EXCEPT ![s] = @ + 1]
                             /\ UNCHANGED <<can_write, eof, written, overtaken>>
      [] OTHER -> UNCHANGED <<can_write, eof, success, written, overtaken>>
Flush(s) ==
    /\ pc[s] = "idle" /\ open[s] /\ can_write[s] /\ send_list[s] # <<>>
    /\ LET packet == Head(send_list[s])
       IN \E n \in Pieces \cup {Len(packet.rest)} :
             /\ n <= Len(packet.rest)
             /\ wire' = [wire EXCEPT ![Other(s)] = @ \o SubSeq(packet.rest, 1, n)]
             /\ IF n = Len(packet.rest)
                THEN /\ send_list' = [send_list EXCEPT ![s] = Tail(@)]
                     /\ Completion(s, packet.callback)
                ELSE /\ send_list' = [send_list EXCEPT ![s][1].rest =
                                                           SubSeq(@, n + 1, Len(@))]
                     /\ UNCHANGED <<can_write, eof, success, written, overtaken>>
    /\ UNCHANGED <<plan, session, open, data, pc, upgrade, keep_alive, ws, started, owed,
                   answered, got, fault, begun>>

\* The data callback: try_parse of what the last call left and what came since.
Receive(s) ==
    /\ pc[s] = "idle" /\ open[s] /\ wire[s] # <<>>
    /\ \E n \in Pieces \cup {Len(wire[s])} :
          /\ n <= Len(wire[s])
          /\ data' = [data EXCEPT ![s] = @ \o SubSeq(wire[s], 1, n)]
          /\ wire' = [wire EXCEPT ![s] = SubSeq(@, n + 1, Len(@))]
    /\ pc' = [pc EXCEPT ![s] = IF upgrade[s] THEN "try_ws_parse" ELSE "execute"]
    /\ UNCHANGED <<plan, tcp, upgrade, keep_alive, ws, send_list, started, owed, answered,
                   success, got, fault, turns>>

\* The other side has closed: only the connector's callback resets session_.
OnDisconnect(s) ==
    /\ pc[s] = "idle" /\ open[s] /\ wire[s] = <<>> /\ eof[s]
    /\ open' = [open EXCEPT ![s] = FALSE]
    /\ Shutdown(s)
    /\ session' = [session EXCEPT !["client"] = @ /\ s # "client"]
    /\ UNCHANGED <<plan, wire, data, pc, upgrade, keep_alive, ws, send_list, started, owed,
                   answered, success, got, fault, turns>>

-----------------------------------------------------------------------------
\* http_parser_execute, one element at a time, with the callbacks.
Execute(s, e) ==
    /\ pc[s] = "execute" /\ data[s] # <<>> /\ e = Head(data[s])
    /\ data' = [data EXCEPT ![s] = Tail(@)]
    /\ UNCHANGED <<plan, tcp, wire, started, success, got, fault, written, overtaken>>
Goes(s) == pc' = [pc EXCEPT ![s] = IF Len(data[s]) = 1 THEN "idle" ELSE @]

MessageBegin(s, e) ==
    /\ Execute(s, e) /\ e.half = 1 /\ Goes(s)
    /\ keep_alive' = (keep_alive /\ s # "server")
    /\ begun' = IF s = "server" THEN begun + 1 ELSE begun
    /\ UNCHANGED <<upgrade, ws, send_list, owed, answered>>
\* The application answers in the callback, or later on a thread of its own.
RequestComplete_NoKeepAlive(e) ==
    /\ Execute("server", e) /\ e.kind = "request" /\ e.half = 2 /\ e.value # "upgrade"
    /\ keep_alive' = FALSE /\ Goes("server")
    /\ \/ owed' = owed + 1 /\ UNCHANGED send_list
       \/ owed = 0 /\ Send("server", Message("response", "plain"), "response") /\ UNCHANGED owed
    /\ UNCHANGED <<upgrade, ws, answered, begun>>
RequestComplete(e) ==
    /\ Execute("server", e) /\ e.kind = "request" /\ e.half = 2 /\ e.value # "upgrade"
    /\ keep_alive' = (e.value = "keep") /\ Goes("server")
    /\ \/ owed' = owed + 1 /\ UNCHANGED send_list
       \/ owed = 0 /\ Send("server", Message("response", "plain"), "response") /\ UNCHANGED owed
    /\ UNCHANGED <<upgrade, ws, answered, begun>>
ResponseComplete(e) ==
    /\ Execute("client", e) /\ e.kind = "response" /\ e.half = 2 /\ e.value = "plain"
    /\ answered' = answered + 1 /\ Goes("client")
    /\ UNCHANGED <<upgrade, keep_alive, ws, send_list, owed, begun>>
\* The rest of the piece, even if it is empty, is the websocket parser's.
UpgradeComplete(s, e) ==
    /\ Execute(s, e) /\ e.half = 2 /\ e.value \in {"upgrade", "switch"}
    /\ upgrade' = [upgrade EXCEPT ![s] = TRUE]
    /\ ws' = [ws EXCEPT ![s].key = s = "server", ![s].accept = s = "client"]
    /\ keep_alive' = (keep_alive /\ s # "server")
    /\ pc' = [pc EXCEPT ![s] = "try_ws_parse"]
    /\ UNCHANGED <<send_list, owed, answered, begun>>

-----------------------------------------------------------------------------
\* try_ws_parse: the handshake that is due, then frame after frame.
WsIn(s, from, to) ==
    /\ pc[s] = from /\ pc' = [pc EXCEPT ![s] = to]
    /\ UNCHANGED <<plan, tcp, wire, upgrade, keep_alive, started, owed, answered, turns>>
WsHandshake_KeepsAccept(s) ==
    /\ WsIn(s, "try_ws_parse", "frames")
    /\ UNCHANGED <<data, got, fault>>
    /\ ws' = [ws EXCEPT ![s].key = FALSE, ![s].frame = NoFrame]
    /\ CASE ws[s].key -> Send(s, Message("response", "switch"), "ack") /\ UNCHANGED success
         [] ~ws[s].key /\ ws[s].accept ->
              success' = [success EXCEPT ![s] = @ + 1] /\ UNCHANGED send_list
         [] OTHER -> UNCHANGED <<send_list, success>>
WsHandshake(s) ==
    /\ WsIn(s, "try_ws_parse", "frames")
    /\ UNCHANGED <<data, got, fault>>
    /\ ws' = [ws EXCEPT ![s].key = FALSE, ![s].accept = FALSE,
                        ![s].frame = IF ws[s].key \/ ws[s].accept THEN NoFrame ELSE @]
    /\ CASE ws[s].key -> Send(s, Message("response", "switch"), "ack") /\ UNCHANGED success
         [] ~ws[s].key /\ ws[s].accept ->
              success' = [success EXCEPT ![s] = @ + 1] /\ UNCHANGED send_list
         [] OTHER -> UNCHANGED <<send_list, success>>

\* The callback of set_ws_frame_enter_callback; the application takes any
\* opcode but those of the handshake.
FrameEntered(s, frame) ==
    CASE frame.opcode = op_handshake_req ->
           Send(s, Message("response", "switch"), "ack") /\ UNCHANGED <<success, got>>
      [] frame.opcode = op_handshake_ack ->
           success' = [success EXCEPT ![s] = @ + 1] /\ UNCHANGED <<send_list, got>>
      [] OTHER -> /\ got' = [got EXCEPT ![s] = Append(@, <<frame.opcode, frame.payload>>)]
                  /\ UNCHANGED <<send_list, success>>
WsFrame(s) ==
    LET f == TryParseFrame(Values(data[s]))
        frame == Gathered(ws[s].frame, f)
    IN /\ WsIn(s, "frames", "frames")
       /\ f.ok /\ f.size > 0
       /\ data' = [data EXCEPT ![s] = SubSeq(@, f.size + 1, Len(@))]
       /\ ws' = [ws EXCEPT ![s].frame = IF f.fin THEN NoFrame ELSE frame]
       /\ IF f.fin THEN FrameEntered(s, frame) ELSE UNCHANGED <<send_list, success, got>>
       /\ UNCHANGED fault
\* "assert(frame_size > 0)": a debug build ends here, a release build loops.
WsFrameEmpty(s) ==
    LET f == TryParseFrame(Values(data[s]))
    IN /\ WsIn(s, "frames", "stuck") /\ f.ok /\ f.size = 0
       /\ fault' = TRUE
       /\ UNCHANGED <<data, ws, send_list, success, got>>
WsReturn(s) ==
    LET f == TryParseFrame(Values(data[s]))
    IN /\ WsIn(s, "frames", "idle") /\ ~f.ok /\ ~f.thrown
       /\ UNCHANGED <<data, ws, send_list, success, got, fault>>

-----------------------------------------------------------------------------
\* Both enter callbacks have run: sessions made, callbacks set.
Init ==
    /\ plan \in Plans
    /\ session = [s \in Side |-> TRUE] /\ open = [s \in Side |-> TRUE]
    /\ can_write = [s \in Side |-> TRUE] /\ eof = [s \in Side |-> FALSE]
    /\ wire = [s \in Side |-> <<>>] /\ data = [s \in Side |-> <<>>]
    /\ pc = [s \in Side |-> "idle"]
    /\ upgrade = [s \in Side |-> FALSE] /\ keep_alive = FALSE
    /\ ws = [s \in Side |-> [key |-> FALSE, accept |-> FALSE, frame |-> NoFrame]]
    /\ send_list = [s \in Side |-> <<>>]
    /\ started = [s \in Side |-> [requests |-> 0, handshake |-> FALSE, frames |-> 0]]
    /\ owed = 0 /\ answered = 0 /\ success = [s \in Side |-> 0]
    /\ got = [s \in Side |-> <<>>] /\ fault = FALSE
    /\ begun = 0 /\ written = 0 /\ overtaken = FALSE

Next ==
    \/ SendRequest \/ StartWsHandshake \/ SendResponse \/ Bye
    \/ \E s \in Side :
          \/ SendWsFrame(s) \/ Flush(s) \/ Receive(s) \/ OnDisconnect(s)
          \/ \E e \in {data[s][i] : i \in DOMAIN data[s] \cap {1}} :
                MessageBegin(s, e) \/ UpgradeComplete(s, e)
          \/ WsHandshake(s) \/ WsFrame(s) \/ WsFrameEmpty(s) \/ WsReturn(s)
    \/ \E e \in {data["server"][i] : i \in DOMAIN data["server"] \cap {1}} : RequestComplete(e)
    \/ \E e \in {data["client"][i] : i \in DOMAIN data["client"] \cap {1}} : ResponseComplete(e)
Spec == Init /\ [][Next]_vars

-----------------------------------------------------------------------------
\* Properties.

\* Everything sent to side s has been parsed, and nothing was sent too late.
Drained(s) == /\ open[Other(s)] /\ send_list[Other(s)] = <<>> /\ wire[s] = <<>> /\ data[s] = <<>>
              /\ pc[s] = "idle"
\* What the first frames of a sequence make up: messages, and one under way.
Joined(frames) ==
    LET acc[n \in 0 .. Len(frames)] ==
            IF n = 0 THEN [done |-> <<>>, payload |-> <<>>, opcode |-> op_unknow]
            ELSE LET f == frames[n]
                     payload == acc[n - 1].payload \o f.payload
                     opcode == IF f.opcode = op_continuation_frame THEN acc[n - 1].opcode
                               ELSE f.opcode
                 IN IF f.fin THEN [done |-> Append(acc[n - 1].done, <<opcode, payload>>),
                                   payload |-> <<>>, opcode |-> op_unknow]
                    ELSE [done |-> acc[n - 1].done, payload |-> payload, opcode |-> opcode]
    IN acc

\* No side has sent a frame behind a masked one of odd length: to_string counts
\* a masked payload twice and leaves as many zeros behind it, which the reader
\* takes, two by two, for empty frames.  An odd zero begins the next frame.
InStep ==
    \A s \in Side : \A i \in 1 .. started[s].frames - 1 :
        plan.frames[s][i].mask => Len(plan.frames[s][i].payload) % 2 = 0

\* The frames of one side reach the callback of the other as sent, in order
\* and joined from their fragments, wherever reads and writes cut the stream
\* and with masks and long lengths: to_string against try_parse_frame and the
\* rest that try_ws_parse leaves in the buffer.  It holds up to and with the
\* first masked frame of odd length; of what is sent behind it nothing is said.
FramesAsSent ==
    InStep => \A s \in Side :
        LET sent == Joined(plan.frames[Other(s)])[started[Other(s)].frames].done
        IN /\ IsPrefix(got[s], sent)
           /\ Drained(s) /\ ~fault => got[s] = sent

\* handshake_success_callback_ runs once on each side and before any frame is
\* handed over, on the server (when the 101 is written) before the client;
\* a frame out of step may be read as one more.
HandshakeOnce == InStep =>
    /\ \A s \in Side : success[s] <= 1 /\ (got[s] # <<>> => success[s] = 1)
    /\ success["client"] <= success["server"]
    /\ (started["client"].handshake /\ (\A s \in Side : Drained(s)) /\ ~fault)
          => \A s \in Side : success[s] = 1

\* The server shuts an open connection down after the answer to the request
\* that was not keep-alive, when that and every other answer is written, and
\* does so then.  It may do so before only if the completion of an answer ran
\* when the parser had begun a later request, whose keep-alive it then reads.
KeepAliveRespected ==
    LET closing == plan.requests # <<>> /\ Last(plan.requests) = "close"
        all == closing /\ started["client"].requests = Len(plan.requests)
    IN /\ open["server"] /\ ~can_write["server"] /\ ~overtaken
             => all /\ owed = 0 /\ send_list["server"] = <<>>
       /\ all /\ owed = 0 /\ (\A s \in Side : Drained(s)) => ~can_write["server"]

\* websocket_parser.h:183, "assert(frame_size > 0)".
FrameSizeIsPositive == ~fault
=============================================================================
