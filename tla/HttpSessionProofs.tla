-------------------------- MODULE HttpSessionProofs --------------------------
(***************************************************************************)
(* HttpSession for any plans and any cuts of the streams: a server closes a*)
(* connection after the answer that is the last, with any number of        *)
(* requests under way; the handshake is completed once on each side, the   *)
(* server first; and the frames of either side arrive as sent, up to and   *)
(* with a first masked one of odd length.                                  *)
(***************************************************************************)
EXTENDS WebSocketProofs

Sent == started["client"].requests
Upgrades == started["client"].handshake

\* What the proof needs of the types.
TypesOK ==
    /\ plan \in Plans
    /\ session \in [Side -> BOOLEAN] /\ open \in [Side -> BOOLEAN]
    /\ can_write \in [Side -> BOOLEAN] /\ eof \in [Side -> BOOLEAN]
    /\ DOMAIN wire = Side /\ DOMAIN data = Side /\ DOMAIN send_list = Side
    /\ DOMAIN pc = Side /\ upgrade \in [Side -> BOOLEAN] /\ keep_alive \in BOOLEAN
    /\ started \in [Side -> [requests : Nat, handshake : BOOLEAN, frames : Nat]]
    /\ owed \in Nat /\ answered \in Nat /\ DOMAIN success = Side

Plain ==
    /\ TypesOK /\ session["server"]
    /\ Sent <= Len(plan.requests)
    /\ Upgrades => plan.websocket

\* The packets of a list have their completion callback in C.
PacketIn(p, C) == p = [rest |-> p.rest, callback |-> p.callback] /\ p.callback \in C
Packed(list, C) == list \in Seq({p \in {list[i] : i \in DOMAIN list} : PacketIn(p, C)})
\* A list of such packets.
LEMMA PackedIf ==
    ASSUME NEW S, NEW list \in Seq(S), NEW C, \A p \in S : PacketIn(p, C)
    PROVE  Packed(list, C)
<1> DEFINE T == {p \in {list[i] : i \in DOMAIN list} : PacketIn(p, C)}
<1>1. list \in [1 .. Len(list) -> S] /\ DOMAIN list = 1 .. Len(list) /\ Len(list) \in Nat
    BY LenProperties
<1>2. \A i \in 1 .. Len(list) : list[i] \in T
    BY <1>1
<1>3. list \in [1 .. Len(list) -> T]
    BY <1>1, <1>2
<1> HIDE DEF T
<1>4. list \in Seq(T)
    BY <1>1, <1>3
<1> QED
    BY <1>4 DEF Packed, T

\* There are none in an empty list.
LEMMA PackedNothing == \A C : Packed(<<>>, C)
BY DEF Packed

\* Such a packet is appended.
LEMMA PackedJoined ==
    ASSUME NEW list, NEW C, Packed(list, C), NEW rest, NEW callback \in C
    PROVE  LET longer == Append(list, [rest |-> rest, callback |-> callback])
           IN Packed(longer, C) /\ Len(longer) = Len(list) + 1 /\ Len(list) \in Nat
<1> DEFINE p == [rest |-> rest, callback |-> callback]
           S == {q \in {list[i] : i \in DOMAIN list} : PacketIn(q, C)}
           T == S \cup {p}
<1>0. PacketIn(p, C)
    BY DEF PacketIn
<1>1. list \in Seq(S) /\ \A q \in S : PacketIn(q, C)
    BY DEF Packed
<1> HIDE DEF S, p
<1>2. list \in Seq(T) /\ \A q \in T : PacketIn(q, C)
    BY <1>0, <1>1, SeqMonotonic
<1>3. Append(list, p) \in Seq(T) /\ Len(Append(list, p)) = Len(list) + 1 /\ Len(list) \in Nat
    BY <1>2, AppendProperties
<1>4. Packed(Append(list, p), C)
    BY <1>2, <1>3, PackedIf
<1> QED
    BY <1>3, <1>4 DEF p

\* The first packet, or a part of it, is written.
LEMMA PackedLeft ==
    ASSUME NEW list, NEW C, Packed(list, C), list # <<>>, NEW left
    PROVE  /\ Head(list).callback \in C
           /\ Packed(Tail(list), C) /\ Len(Tail(list)) = Len(list) - 1
           /\ Packed([list EXCEPT ![1].rest = left], C)
           /\ Len([list EXCEPT ![1].rest = left]) = Len(list)
           /\ Len(list) \in Nat \ {0}
<1> DEFINE S == {q \in {list[i] : i \in DOMAIN list} : PacketIn(q, C)}
<1>0. list \in Seq(S) /\ \A q \in S : PacketIn(q, C)
    BY DEF Packed
<1> HIDE DEF S
<1>1. Head(list) \in S /\ Tail(list) \in Seq(S) /\ Len(Tail(list)) = Len(list) - 1
    BY <1>0, HeadTailProperties
<1>2. Packed(Tail(list), C)
    BY <1>0, <1>1, PackedIf
<1>3. 1 \in 1 .. Len(list) /\ Head(list) = list[1] /\ list[1] \in S /\ Len(list) \in Nat \ {0}
    BY <1>0, <1>1, EmptySeq
<1> DEFINE q == [rest |-> left, callback |-> list[1].callback]
           T == S \cup {q}
<1>4. list[1] = [rest |-> list[1].rest, callback |-> list[1].callback]
      /\ list[1].callback \in C
    BY <1>0, <1>3 DEF PacketIn
<1>5. [list EXCEPT ![1].rest = left] = [list EXCEPT ![1] = q]
    <2> DEFINE first == list[1]
    <2>1. first \in [rest : {first.rest}, callback : {first.callback}]
        BY <1>4
    <2>2. [first EXCEPT !.rest = left] \in [rest : {left}, callback : {first.callback}]
        <3> HIDE DEF first
        <3> QED  BY <2>1
    <2>3. [first EXCEPT !.rest = left] = q
        <3>1. q = [rest |-> left, callback |-> first.callback]
            OBVIOUS
        <3> HIDE DEF first, q
        <3> QED  BY <2>2, <3>1
    <2> HIDE DEF q
    <2> QED
        BY <2>3
<1>6. PacketIn(q, C)
    BY <1>4 DEF PacketIn
<1> HIDE DEF q
<1>7. list \in Seq(T) /\ \A r \in T : PacketIn(r, C)
    BY <1>0, <1>6, SeqMonotonic
<1>8. [list EXCEPT ![1] = q] \in Seq(T) /\ Len([list EXCEPT ![1] = q]) = Len(list)
    BY <1>3, <1>7, ExceptSeq
<1>9. Packed([list EXCEPT ![1] = q], C)
    BY <1>7, <1>8, PackedIf
<1> QED
    BY <1>1, <1>2, <1>3, <1>4, <1>5, <1>8, <1>9

-----------------------------------------------------------------------------
(* Types.                                                                    *)

\* The requests of a plan are counted.
LEMMA PlansAreLists ==
    ASSUME plan \in Plans
    PROVE  /\ plan.requests \in Seq({"keep", "close"}) /\ Len(plan.requests) \in Nat
           /\ DOMAIN plan.requests = 1 .. Len(plan.requests)
           /\ \A n \in 1 .. Len(plan.requests) :
                 /\ plan.requests[n] \in {"keep", "close"}
                 /\ plan.requests[n] = "close" => n = Len(plan.requests) /\ ~plan.websocket
<1>1. plan.requests \in Seq({"keep", "close"})
    BY RequestAssumption
<1>2. /\ Len(plan.requests) \in Nat /\ DOMAIN plan.requests = 1 .. Len(plan.requests)
      /\ \A n \in 1 .. Len(plan.requests) : plan.requests[n] \in {"keep", "close"}
    BY <1>1, LenProperties, ElementOfSeq
<1> QED
    BY <1>1, <1>2, CloseIsLast

\* What tcp_session::send does to the lists.
LEMMA SendTypes ==
    ASSUME NEW s \in Side, NEW elements, NEW callback, DOMAIN send_list = Side,
           Send(s, elements, callback)
    PROVE  /\ DOMAIN send_list' = Side
           /\ \A r \in Side : r # s => send_list'[r] = send_list[r]
           /\ session[s] => send_list'[s]
                                = Append(send_list[s], [rest |-> elements, callback |-> callback])
BY DEF Send

\* Each side has another.
LEMMA OtherSide == \A s \in Side : Other(s) \in Side /\ Other(s) # s /\ Other(Other(s)) = s
BY DEF Side, Other

\* A completion shuts down, calls back, or does nothing.
LEMMA CompletionTypes ==
    ASSUME TypesOK, NEW s \in Side, NEW callback, Completion(s, callback)
    PROVE  /\ can_write' \in [Side -> BOOLEAN] /\ eof' \in [Side -> BOOLEAN]
           /\ DOMAIN success' = Side
           /\ callback \notin {"response", "ack"} => UNCHANGED <<can_write, eof, success>>
           /\ callback # "response" \/ keep_alive => UNCHANGED <<can_write, eof>>
           /\ callback # "ack" => UNCHANGED success
           /\ callback = "response" /\ ~keep_alive => Shutdown(s)
           /\ callback # "response" => UNCHANGED <<written, overtaken>>
           /\ callback = "response" => /\ written' = written + 1
                                       /\ overtaken' = (overtaken \/ begun > written + 1)
<1> USE OtherSide DEF TypesOK
<1>1. CASE callback = "response" /\ ~keep_alive
    <2>1. /\ Shutdown(s) /\ UNCHANGED success /\ written' = written + 1
          /\ overtaken' = (overtaken \/ begun > written + 1)
        BY <1>1 DEF Completion
    <2>2. can_write' \in [Side -> BOOLEAN] /\ eof' \in [Side -> BOOLEAN]
        BY <2>1 DEF Shutdown
    <2> QED
        BY <1>1, <2>1, <2>2
<1>2. CASE callback = "ack"
    <2>1. /\ success' = [success EXCEPT ![s] = @ + 1]
          /\ UNCHANGED <<can_write, eof, written, overtaken>>
        BY <1>2 DEF Completion
    <2> QED
        BY <1>2, <2>1
<1>3. CASE ~(callback = "response" /\ ~keep_alive) /\ callback # "ack"
    <2>1. /\ UNCHANGED <<can_write, eof, success>>
          /\ callback # "response" => UNCHANGED <<written, overtaken>>
          /\ callback = "response" => /\ written' = written + 1
                                      /\ overtaken' = (overtaken \/ begun > written + 1)
        BY <1>3 DEF Completion
    <2> QED
        BY <1>3, <2>1
<1> QED
    BY <1>1, <1>2, <1>3

\* What the frame callback does to the rest of the state.
LEMMA FrameEnteredTypes ==
    ASSUME TypesOK, NEW s \in Side, NEW frame, FrameEntered(s, frame)
    PROVE  /\ DOMAIN success' = Side
           /\ \/ UNCHANGED send_list
              \/ Send(s, Message("response", "switch"), "ack")
<1> USE DEF TypesOK
<1>1. CASE frame.opcode = op_handshake_req
    BY <1>1 DEF FrameEntered
<1>2. CASE frame.opcode = op_handshake_ack
    BY <1>2 DEF FrameEntered, op_handshake_req, op_handshake_ack
<1>3. CASE frame.opcode # op_handshake_req /\ frame.opcode # op_handshake_ack
    BY <1>3 DEF FrameEntered
<1> QED
    BY <1>1, <1>2, <1>3

\* What the handshake does to the lists.
LEMMA WsHandshakeTypes ==
    ASSUME TypesOK, NEW s \in Side, WsHandshake(s)
    PROVE  /\ DOMAIN success' = Side
           /\ \/ UNCHANGED send_list
              \/ Send(s, Message("response", "switch"), "ack")
<1> USE DEF TypesOK
<1>1. CASE ws[s].key
    BY <1>1 DEF WsHandshake
<1>2. CASE ~ws[s].key /\ ws[s].accept
    BY <1>2 DEF WsHandshake
<1>3. CASE ~ws[s].key /\ ~ws[s].accept
    BY <1>3 DEF WsHandshake
<1> QED
    BY <1>1, <1>2, <1>3

\* What the parser does, and what the websocket parser does, to the rest.
LEMMA HttpStepTypes ==
    ASSUME TypesOK, NEW s \in Side, NEW e,
           \/ MessageBegin(s, e) \/ UpgradeComplete(s, e)
           \/ s = "server" /\ RequestComplete(e)
           \/ s = "client" /\ ResponseComplete(e)
    PROVE  /\ Execute(s, e)
           /\ DOMAIN data' = Side /\ DOMAIN send_list' = Side /\ DOMAIN pc' = Side
           /\ upgrade' \in [Side -> BOOLEAN] /\ keep_alive' \in BOOLEAN
           /\ owed' \in Nat /\ answered' \in Nat
<1> USE DEF TypesOK, Goes
<1>1. CASE MessageBegin(s, e)
    BY <1>1 DEF MessageBegin, Execute
<1>2. CASE UpgradeComplete(s, e)
    BY <1>2 DEF UpgradeComplete, Execute
<1>3. CASE s = "server" /\ RequestComplete(e)
    <2>1. "server" \in Side
        BY DEF Side
    <2>2. Send("server", Message("response", "plain"), "response") => DOMAIN send_list' = Side
        BY <2>1, SendTypes
    <2> QED
        BY <1>3, <2>1, <2>2 DEF RequestComplete, Execute
<1>4. CASE s = "client" /\ ResponseComplete(e)
    BY <1>4 DEF ResponseComplete, Execute
<1> QED
    BY <1>1, <1>2, <1>3, <1>4

\* What the websocket parser leaves alone.
LEMMA WsStepTypes ==
    ASSUME TypesOK, NEW s \in Side,
           WsHandshake(s) \/ WsFrame(s) \/ WsFrameEmpty(s) \/ WsReturn(s)
    PROVE  /\ pc[s] \in {"try_ws_parse", "frames"}
           /\ \E to \in {"frames", "stuck", "idle"} : pc' = [pc EXCEPT ![s] = to]
           /\ UNCHANGED <<plan, tcp, wire, upgrade, keep_alive, started, owed, answered, turns>>
           /\ DOMAIN data' = Side /\ DOMAIN send_list' = Side /\ DOMAIN success' = Side
           /\ \/ UNCHANGED send_list
              \/ Send(s, Message("response", "switch"), "ack")
<1> USE DEF TypesOK, WsIn
<1>1. Send(s, Message("response", "switch"), "ack") => DOMAIN send_list' = Side
    BY SendTypes
<1>2. CASE WsHandshake(s)
    <2>1. WsIn(s, "try_ws_parse", "frames") /\ UNCHANGED data
        BY <1>2 DEF WsHandshake
    <2> QED
        BY <1>1, <1>2, <2>1, WsHandshakeTypes
<1>3. CASE WsFrame(s)
    <2>1. /\ WsIn(s, "frames", "frames") /\ DOMAIN data' = Side
          /\ \/ \E frame : FrameEntered(s, frame)
             \/ UNCHANGED <<send_list, success>>
        BY <1>3 DEF WsFrame
    <2> QED
        BY <1>1, <2>1, FrameEnteredTypes
<1>4. CASE WsFrameEmpty(s) \/ WsReturn(s)
    BY <1>4 DEF WsFrameEmpty, WsReturn
<1> QED
    BY <1>2, <1>3, <1>4

\* The steps of the parser, by the element they take.
HttpStep(s, e) ==
    \/ MessageBegin(s, e) \/ UpgradeComplete(s, e)
    \/ s = "server" /\ RequestComplete(e)
    \/ s = "client" /\ ResponseComplete(e)
WsStep(s) == WsHandshake(s) \/ WsFrame(s) \/ WsFrameEmpty(s) \/ WsReturn(s)

\* The steps, by what they are about.
LEMMA NextCases ==
    ASSUME Next
    PROVE  \/ SendRequest \/ StartWsHandshake \/ SendResponse \/ Bye
           \/ \E s \in Side : \/ SendWsFrame(s) \/ Flush(s) \/ Receive(s) \/ OnDisconnect(s)
                              \/ WsStep(s) \/ \E e : HttpStep(s, e)
BY DEF Next, HttpStep, WsStep, Side

\* What a write does to the types.
LEMMA FlushTypes ==
    ASSUME TypesOK, NEW s \in Side, Flush(s)
    PROVE  /\ DOMAIN wire' = Side /\ DOMAIN send_list' = Side /\ DOMAIN success' = Side
           /\ can_write' \in [Side -> BOOLEAN] /\ eof' \in [Side -> BOOLEAN]
<1>1. /\ DOMAIN wire' = Side /\ DOMAIN send_list' = Side
      /\ Completion(s, Head(send_list[s]).callback) \/ UNCHANGED <<can_write, eof, success>>
    BY DEF Flush, TypesOK
<1> QED
    BY <1>1, CompletionTypes DEF TypesOK

Begun == [requests : Nat, handshake : BOOLEAN, frames : Nat]

\* A frame is begun: requests and handshake are as before.
LEMMA FrameBegins ==
    ASSUME TypesOK, NEW s \in Side, NEW n, started' = [started EXCEPT ![s].frames = n]
    PROVE  /\ Sent' = Sent /\ Upgrades' = Upgrades
           /\ n \in Nat => started' \in [Side -> Begun]
<1> DEFINE r == [started[s] EXCEPT !.frames = n]
<1>1. /\ r.requests = started[s].requests /\ r.handshake = started[s].handshake
      /\ n \in Nat => r \in Begun
    BY DEF TypesOK, Begun
<1>2. started' = [started EXCEPT ![s] = r]
    OBVIOUS
<1> HIDE DEF r
<1>3. DOMAIN started = Side /\ started \in [Side -> Begun] /\ "client" \in Side
    BY DEF TypesOK, Begun, Side
<1>4. started'["client"] = IF s = "client" THEN r ELSE started["client"]
    BY <1>2, <1>3
<1>5. started'["client"].requests = started["client"].requests
      /\ started'["client"].handshake = started["client"].handshake
    BY <1>1, <1>4
<1> QED
    BY <1>1, <1>2, <1>3, <1>5 DEF Sent, Upgrades

\* The handshake is begun.
LEMMA HandshakeBegins ==
    ASSUME TypesOK, started' = [started EXCEPT !["client"].handshake = TRUE]
    PROVE  Sent' = Sent /\ Upgrades' /\ started' \in [Side -> Begun]
<1> DEFINE r == [started["client"] EXCEPT !.handshake = TRUE]
<1>1. DOMAIN started = Side /\ started \in [Side -> Begun] /\ "client" \in Side
    BY DEF TypesOK, Begun, Side
<1>2. r.requests = started["client"].requests /\ r.handshake /\ r \in Begun
    BY <1>1 DEF Begun
<1>3. started' = [started EXCEPT !["client"] = r]
    OBVIOUS
<1> HIDE DEF r
<1>4. started'["client"] = r
    BY <1>1, <1>3
<1> QED
    BY <1>1, <1>2, <1>3, <1>4 DEF Sent, Upgrades

\* Every step keeps the types and the bounds.
LEMMA PlainStep ==
    ASSUME Plain, [Next]_vars
    PROVE  Plain'
<1> USE DEF Plain, TypesOK, Side, Sent, Upgrades
<1>1. CASE SendRequest
    <2>1. /\ DOMAIN send_list' = Side /\ Sent' = Sent + 1 /\ Sent + 1 <= Len(plan.requests)
          /\ UNCHANGED Upgrades
          /\ started' \in [Side -> [requests : Nat, handshake : BOOLEAN, frames : Nat]]
        BY <1>1 DEF SendRequest, Send
    <2>2. UNCHANGED <<plan, tcp, wire, data, pc, upgrade, keep_alive, owed, answered, success>>
        BY <1>1 DEF SendRequest
    <2>3. /\ plan' = plan /\ DOMAIN success' = Side /\ keep_alive' \in BOOLEAN
          /\ DOMAIN wire' = Side /\ DOMAIN data' = Side /\ DOMAIN pc' = Side
          /\ upgrade' \in [Side -> BOOLEAN] /\ owed' \in Nat /\ answered' \in Nat
          /\ session' = session /\ open' = open /\ can_write' = can_write /\ eof' = eof
        BY <2>2 DEF tcp
    <2> QED
        BY <2>1, <2>3
<1>2. CASE StartWsHandshake
    <2>1. /\ started' = [started EXCEPT !["client"].handshake = TRUE] /\ plan.websocket
          /\ Send("client", Message("request", "upgrade"), "none")
        BY <1>2 DEF StartWsHandshake
    <2>2. DOMAIN send_list' = Side
        BY <2>1 DEF Send
    <2>3. Sent' = Sent /\ Upgrades' /\ started' \in [Side -> Begun]
        BY <2>1, HandshakeBegins
    <2> QED
        BY <1>2, <2>1, <2>2, <2>3 DEF StartWsHandshake, tcp, Begun
<1>3. CASE SendResponse
    <2>1. DOMAIN send_list' = Side /\ owed' \in Nat
        BY <1>3 DEF SendResponse, Send
    <2> QED
        BY <1>3, <2>1 DEF SendResponse, tcp
<1>4. CASE Bye
    BY <1>4 DEF Bye, Shutdown, Other
<1>5. ASSUME NEW s \in Side, SendWsFrame(s) PROVE Plain'
    <2> DEFINE n == started[s].frames + 1
    <2>1. DOMAIN send_list' = Side /\ started' = [started EXCEPT ![s].frames = n] /\ n \in Nat
        BY <1>5 DEF SendWsFrame, Send
    <2> HIDE DEF n
    <2>2. Sent' = Sent /\ Upgrades' = Upgrades /\ started' \in [Side -> Begun]
        BY <2>1, FrameBegins
    <2> QED
        BY <1>5, <2>1, <2>2 DEF SendWsFrame, tcp, Begun
<1>6. ASSUME NEW s \in Side, Flush(s) PROVE Plain'
    BY <1>6, FlushTypes DEF Flush
<1>7. ASSUME NEW s \in Side, Receive(s) PROVE Plain'
    BY <1>7 DEF Receive, tcp
<1>8. ASSUME NEW s \in Side, OnDisconnect(s) PROVE Plain'
    BY <1>8 DEF OnDisconnect, Shutdown, Other
<1>9. ASSUME NEW s \in Side, WsStep(s) PROVE Plain'
    BY <1>9, WsStepTypes DEF WsStep, tcp
<1>10. ASSUME NEW s \in Side, NEW e, HttpStep(s, e) PROVE Plain'
    <2>1. /\ Execute(s, e) /\ DOMAIN data' = Side /\ DOMAIN send_list' = Side /\ DOMAIN pc' = Side
          /\ upgrade' \in [Side -> BOOLEAN] /\ keep_alive' \in BOOLEAN
          /\ owed' \in Nat /\ answered' \in Nat
        BY <1>10, HttpStepTypes DEF HttpStep
    <2> QED
        BY <2>1 DEF Execute, tcp
<1>11. CASE UNCHANGED vars
    BY <1>11 DEF vars
<1> QED
    BY <1>1, <1>2, <1>3, <1>4, <1>5, <1>6, <1>7, <1>8, <1>9, <1>10, <1>11, NextCases

\* They hold at first.
LEMMA PlainInit ==
    ASSUME Init
    PROVE  Plain
<1>1. TypesOK
    BY DEF Init, TypesOK, Side
<1>2. Sent = 0 /\ ~Upgrades /\ Len(plan.requests) \in Nat
    BY PlansAreLists DEF Init, Sent, Upgrades, Side
<1> QED
    BY <1>1, <1>2 DEF Plain, Init, Side

\* The stream to side s, in the state.
StreamTo(s, x) ==
    Stream(x, s, plan.frames[Other(s)], data[s], wire[s], send_list[Other(s)],
           upgrade[s], ws[s], got[s])

\* The requests and answers: x is the stream to the server, y that to the
\* client.
Asked(x, y) ==
    /\ Upgrades => /\ Sent = Len(plan.requests) /\ owed = 0
                   /\ IF x.u THEN x.B[0] <= x.a + 2 ELSE x.B[0] <= x.a
    /\ ~Upgrades => /\ 2 * answered <= y.a /\ 2 * owed + y.B[0] <= x.a /\ x.B[0] <= 2 * Sent
                    /\ ~x.u
    /\ Upgrades /\ session["client"] => x.u
\* The handshake, on the server and then on the client.
Switched(y) ==
    /\ y.u <=> upgrade["server"] /\ ~ws["server"].key
    /\ ~ws["server"].accept /\ ~ws["client"].key
    /\ success["client"] = IF upgrade["client"] /\ ~ws["client"].accept THEN 1 ELSE 0
    /\ success["server"] = IF y.u /\ Past(y) THEN 1 ELSE 0
\* Where the IO thread of s is.
Doing(s) ==
    /\ pc[s] = "execute" => ~upgrade[s]
    /\ pc[s] \in {"try_ws_parse", "frames"} => upgrade[s]
    /\ ws[s].key \/ ws[s].accept => pc[s] = "try_ws_parse"
\* The frames of s that are in the stream.
Counted(s, m) ==
    /\ m <= started[s].frames /\ started[s].frames <= Len(plan.frames[s])
    /\ session[s] => m = started[s].frames
    /\ m > 0 => success[s] = 1

\* What the proof needs of the types of the websocket.
WsState == [key : BOOLEAN, accept : BOOLEAN, frame : Opened]
WsTypes == ws \in [Side -> WsState] /\ DOMAIN got = Side
\* x is the stream to the server, y that to the client, and they tell one story.
Linked(x, y) ==
    /\ StreamTo("server", x) /\ StreamTo("client", y)
    /\ Asked(x, y) /\ Switched(y) /\ Counted("client", x.m) /\ Counted("server", y.m)

-----------------------------------------------------------------------------
(* The streams of both sides.                                                *)

\* The frames of a plan are frames.
LEMMA PlanFrames ==
    ASSUME plan \in Plans, NEW s \in Side
    PROVE  /\ plan.frames[s] \in Seq(Frame)
           /\ \A i \in 1 .. Len(plan.frames[s]) : Shifted(Len(plan.frames[s][i].payload), 8)[8] = 0
           /\ \A m \in Nat : InStep /\ m <= started[s].frames /\ started[s].frames \in Nat
                             => Aligned(plan.frames[s], m)
<1>1. /\ plan.frames[s] \in Seq(Frame)
      /\ \A i \in DOMAIN plan.frames[s] : Shifted(Len(plan.frames[s][i].payload), 8)[8] = 0
    BY FrameAssumption DEF Frame
<1>2. PICK frames \in Seq(Frame) : frames = plan.frames[s]
    BY <1>1
<1>3. DOMAIN frames = 1 .. Len(frames)
    OBVIOUS
<1>4. ASSUME NEW m \in Nat, InStep, NEW n \in Nat, n = started[s].frames, m <= n
      PROVE  Aligned(plan.frames[s], m)
    <2>1. \A i \in 1 .. n - 1 : plan.frames[s][i].mask => Len(plan.frames[s][i].payload) % 2 = 0
        BY ONLY <1>4, s \in Side DEF InStep
    <2>2. \A i \in 1 .. m - 1 : i \in 1 .. n - 1
        BY ONLY <1>4
    <2> QED
        BY ONLY <1>1, <1>2, <1>3, <2>1, <2>2 DEF Aligned
<1> QED
    BY ONLY <1>1, <1>2, <1>3, <1>4

\* What one knows of a stream.
Known(s, x) ==
    /\ x.a \in Nat /\ x.B[0] \in Nat /\ x.B[0] % 2 = 0 /\ x.m \in Nat /\ x.u \in BOOLEAN
    /\ upgrade[s] => x.u /\ x.B[0] <= x.a /\ Past(x)
    /\ ~upgrade[s] => /\ x.a <= x.B[0] /\ (x.u => x.a < x.B[0]) /\ got[s] = <<>>
                      /\ ws[s].frame.payload = <<>> /\ ~ws[s].key /\ ~ws[s].accept
    /\ x.m > 0 => x.u
    /\ ~x.u => x.a <= x.B[0] /\ x.m = 0
\* It follows from the stream.
LEMMA StreamKnown ==
    ASSUME NEW s \in Side, NEW x, StreamTo(s, x), plan \in Plans, upgrade \in [Side -> BOOLEAN]
    PROVE  Known(s, x)
<1> DEFINE frames == plan.frames[Other(s)]
<1>0. frames \in Seq(Frame)
    BY PlanFrames, OtherSide
<1> HIDE DEF frames
<1>1. /\ Layout(x, data[s], wire[s], send_list[Other(s)]) /\ Messages(x, s)
      /\ Texts(x, frames) /\ Ends(x, s) /\ Reader(x, frames, upgrade[s], ws[s], got[s])
    BY DEF StreamTo, Stream, Content, frames
<1>2. PICK a \in Nat : a = x.a
    BY <1>1 DEF Layout
<1>3. PICK d \in Nat : d = x.B[0] /\ d % 2 = 0
    BY <1>1 DEF Messages
<1>4. PICK m \in Nat : m = x.m
    BY <1>0, <1>1, TextsRise
<1>5. x.u \in BOOLEAN /\ (m > 0 => x.u)
    BY ONLY <1>1, <1>4 DEF Messages, Texts
<1>6. PICK e \in Nat : e = x.E[x.p] /\ e <= x.E[x.q] /\ x.E[x.q] \in Nat
    BY <1>1, EndsRise
<1>7. x.E[x.q] = x.B[m]
    BY ONLY <1>1, <1>4 DEF Ends
<1>8. a <= e
    BY <1>1, <1>2, <1>6 DEF Layout
<1>9. upgrade[s] => x.u /\ d <= a
    <2>1. upgrade[s] => x.u /\ x.a >= x.B[0]
        BY ONLY <1>1 DEF Reader, ReadsFrames
    <2> QED
        BY ONLY <1>2, <1>3, <2>1
<1>10. ~upgrade[s] => /\ a <= d /\ (x.u => a < d) /\ got[s] = <<>>
                      /\ ws[s].frame.payload = <<>> /\ ~ws[s].key /\ ~ws[s].accept
    BY ONLY <1>1, <1>2, <1>3 DEF Reader, ReadsMessages
<1>11. upgrade[s] => Past(x)
    <2>1. upgrade[s] => e >= d
        BY <1>8, <1>9
    <2> QED
        BY ONLY <2>1, <1>3, <1>6 DEF Past
<1>12. ~x.u => a <= d /\ m = 0
    <2>1. ~x.u => m = 0
        BY <1>5
    <2>2. m = 0 => a <= d
        <3>1. m = 0 => e <= d
            BY ONLY <1>3, <1>6, <1>7
        <3> QED
            BY <1>8, <3>1
    <2> QED
        BY <2>1, <2>2
<1> QED
    BY ONLY <1>2, <1>3, <1>4, <1>5, <1>9, <1>10, <1>11, <1>12 DEF Known

\* Nothing of a stream, or not what reads it, changes.
Still(s) == plan' = plan /\ upgrade'[s] = upgrade[s] /\ ws'[s] = ws[s] /\ got'[s] = got[s]
\* The stream of a side whose reader and whose elements stay.
LEMMA StreamStays ==
    ASSUME NEW s, NEW x, StreamTo(s, x), Still(s), data'[s] = data[s], wire'[s] = wire[s],
           send_list'[Other(s)] = send_list[Other(s)]
    PROVE  StreamTo(s, x)'
BY DEF StreamTo, Still

-----------------------------------------------------------------------------
(* What is handed to tcp_session::send.                                      *)
MessageAdded(z, x, value) ==
    /\ z.B[0] = x.B[0] + 2 /\ z.a = x.a /\ z.m = 0 /\ (z.u <=> value \in Switches) /\ z.u \in BOOLEAN
    /\ ~Past(z)
    /\ \A i \in 1 .. x.B[0] : z.T[i] = x.T[i]
    /\ \A i \in 1 .. 2 : z.T[x.B[0] + i].value = value
\* A message sent to the other side lengthens the stream to it.
LEMMA MessageTo ==
    ASSUME TypesOK, NEW s \in Side, session[s], NEW r \in Side, r = Other(s),
           NEW x, StreamTo(r, x), ~x.u,
           NEW kind, NEW value, NEW callback, r = "server" => value # "switch",
           callback = "ack" <=> r = "client" /\ value \in Switches,
           Send(s, Message(kind, value), callback),
           Still(r), data'[r] = data[r], wire'[r] = wire[r]
    PROVE  \E z : StreamTo(r, z)' /\ MessageAdded(z, x, value)
<1>1. Other(r) = s
    BY OtherSide
<1>2. PICK es : es = Message(kind, value)
    OBVIOUS
<1>3. send_list'[s] = Append(send_list[s], [rest |-> es, callback |-> callback])
    BY <1>2, SendTypes DEF TypesOK
<1>4. Stream(x, r, plan.frames[s], data[r], wire[r], send_list[s], upgrade[r], ws[r], got[r])
    BY ONLY StreamTo(r, x), <1>1 DEF StreamTo
<1>5. PICK z : z = SentMessage(x, es, callback, value)
    OBVIOUS
<1>6. /\ Stream(z, r, plan.frames[s], data[r], wire[r], send_list'[s], upgrade[r], ws[r], got[r])
      /\ ~Past(z)
    <2>1. AddsMessage(z, send_list'[s], x, send_list[s], r, kind, value, callback)
        BY <1>2, <1>3, <1>5 DEF AddsMessage
    <2> QED
        BY <1>4, <2>1, StreamMessageSent
<1>7. Stream(z, r, plan'.frames[s], data'[r], wire'[r], send_list'[s],
             upgrade'[r], ws'[r], got'[r])
    BY ONLY <1>6, Still(r), data'[r] = data[r], wire'[r] = wire[r] DEF Still
<1>8. StreamTo(r, z)'
    BY ONLY <1>1, <1>7 DEF StreamTo
<1>9. MessageAdded(z, x, value)
    <2>1. /\ z.B = [i \in Nat |-> x.B[0] + 2] /\ z.m = 0 /\ z.u = IsLast(value)
          /\ z.a = x.a
        BY ONLY <1>5 DEF SentMessage, Flow
    <2>2. z.B[0] = x.B[0] + 2
        BY <2>1
    <2>3. PICK d \in Nat : d = x.B[0] /\ x.E[x.q] = d
        <3>1. Known(r, x)
            BY StreamKnown DEF TypesOK
        <3>2. x.m = 0 /\ x.B[0] \in Nat
            BY ONLY <3>1, ~x.u DEF Known
        <3>3. x.E[x.q] = x.B[x.m]
            BY ONLY <1>4 DEF Stream, Content, Ends
        <3> QED
            BY <3>2, <3>3
    <2>4. z.T = [i \in Nat |-> IF i <= d THEN x.T[i] ELSE es[i - d]]
        BY ONLY <1>5, <2>3 DEF SentMessage, Flow, Longer
    <2>5. \A i \in 1 .. d : z.T[i] = x.T[i]
        BY <2>4
    <2>6. ASSUME NEW i \in 1 .. 2 PROVE z.T[d + i].value = value
        <3>1. d + i \in Nat /\ ~(d + i <= d) /\ d + i - d = i
            OBVIOUS
        <3>2. z.T[d + i] = es[i]
            BY <2>4, <3>1
        <3>3. es[i].value = value
            BY <1>2 DEF Message
        <3> QED
            BY <3>2, <3>3
    <2>7. /\ \A i \in 1 .. x.B[0] : z.T[i] = x.T[i]
          /\ \A i \in 1 .. 2 : z.T[x.B[0] + i].value = value
        BY ONLY <2>3, <2>5, <2>6
    <2> QED
        BY ONLY <1>5, <1>6, <2>1, <2>2, <2>7 DEF MessageAdded, IsLast
<1> QED
    BY <1>8, <1>9

\* The stream x after a frame.
FrameAdded(z, x) ==
    /\ z.B[0] = x.B[0] /\ z.a = x.a /\ z.m = x.m + 1 /\ z.u = x.u /\ (Past(z) <=> Past(x))
\* A frame sent to the other side lengthens the stream to it.
LEMMA FrameTo ==
    ASSUME TypesOK, NEW s \in Side, session[s], NEW r \in Side, r = Other(s),
           NEW x, StreamTo(r, x), x.u, NEW n, n = x.m + 1, n <= Len(plan.frames[s]),
           NEW key \in MaskKeys, Send(s, Bytes(FrameString(plan.frames[s][n], key)), "none"),
           Still(r), data'[r] = data[r], wire'[r] = wire[r]
    PROVE  \E z : StreamTo(r, z)' /\ FrameAdded(z, x)
<1>1. Other(r) = s
    BY OtherSide
<1>2. PICK frames \in Seq(Frame) :
          /\ frames = plan.frames[s]
          /\ \A i \in 1 .. Len(frames) : Shifted(Len(frames[i].payload), 8)[8] = 0
    BY PlanFrames DEF TypesOK
<1>3. Stream(x, r, frames, data[r], wire[r], send_list[s], upgrade[r], ws[r], got[r])
    BY ONLY StreamTo(r, x), <1>1, <1>2 DEF StreamTo
<1>4. PICK m \in Nat : m = x.m
    <2>1. Known(r, x)
        BY StreamKnown DEF TypesOK
    <2> QED
        BY <2>1 DEF Known
<1>5. PICK f : f = frames[n]
    OBVIOUS
<1>6. PICK es : es = Bytes(FrameString(f, key))
    OBVIOUS
<1>7. send_list'[s] = Append(send_list[s], [rest |-> es, callback |-> "none"])
    BY <1>2, <1>5, <1>6, SendTypes DEF TypesOK
<1>8. n \in 1 .. Len(frames) /\ m < Len(frames) /\ Shifted(Len(f.payload), 8)[8] = 0
    <2>1. n \in 1 .. Len(frames) /\ m < Len(frames)
        BY <1>2, <1>4
    <2> QED
        BY <1>2, <1>5, <2>1
<1>9. key \in Key
    BY KeyAssumption DEF Key
<1>10. PICK z : z = SentFrame(x, es)
    OBVIOUS
<1>11. /\ Stream(z, r, frames, data[r], wire[r], send_list'[s], upgrade[r], ws[r], got[r])
       /\ Past(z) <=> Past(x)
    <2>1. upgrade[r] \in BOOLEAN
        BY DEF TypesOK
    <2>2. x.m < Len(frames) /\ f = frames[x.m + 1]
        BY <1>4, <1>5, <1>8
    <2> QED
        <3>1. AddsFrame(z, send_list'[s], x, send_list[s], frames, f, key)
            BY <1>6, <1>7, <1>8, <1>10, <2>2 DEF AddsFrame
        <3> QED
            BY ONLY <1>3, <1>9, <3>1, frames \in Seq(Frame), key \in Key,
                    StreamFrameSent
<1>12. Stream(z, r, plan'.frames[s], data'[r], wire'[r], send_list'[s],
              upgrade'[r], ws'[r], got'[r])
    BY ONLY <1>2, <1>11, Still(r), data'[r] = data[r], wire'[r] = wire[r] DEF Still
<1>13. StreamTo(r, z)'
    BY ONLY <1>1, <1>12 DEF StreamTo
<1>14. FrameAdded(z, x)
    <2>1. /\ z.B = More(x.B, x.m, x.E[x.q] + Len(es)) /\ z.m = x.m + 1 /\ z.u = x.u /\ z.a = x.a
        BY ONLY <1>10 DEF SentFrame, Flow
    <2>2. z.B[0] = x.B[0]
        BY <1>4, <2>1 DEF More
    <2> QED
        BY ONLY <1>10, <1>11, <2>1, <2>2 DEF FrameAdded
<1> QED
    BY <1>13, <1>14

\* A step that leaves the elements parsed as they are.
Kept(z, x) == z.T = x.T /\ z.B = x.B /\ z.a = x.a /\ z.m = x.m /\ z.u = x.u

\* writev takes the whole of the first packet, or the first part of it.
Handed(r, z, x) ==
    IF r = "client" /\ x.u /\ ~Past(x) /\ Past(z)
    THEN success' = [success EXCEPT !["server"] = @ + 1]
    ELSE success' = success /\ (r = "client" /\ x.u => (Past(z) <=> Past(x)))
\* A flush moves the stream to the other side and calls back for the handshake.
LEMMA Written ==
    ASSUME TypesOK, NEW s \in Side, NEW r \in Side, r = Other(s),
           NEW x, StreamTo(r, x), Flush(s)
    PROVE  /\ \E z : StreamTo(r, z)' /\ Kept(z, x) /\ Handed(r, z, x)
           /\ wire'[s] = wire[s] /\ send_list'[r] = send_list[r]
<1>1. Other(r) = s /\ r # s /\ (r = "client" <=> s = "server")
    BY OtherSide DEF Side
<1>2. PICK list : list = send_list[s]
    OBVIOUS
<1>3. PICK packet : packet = Head(list)
    OBVIOUS
<1>4. PICK rest : rest = packet.rest
    OBVIOUS
<1>5. Stream(x, r, plan.frames[s], data[r], wire[r], list, upgrade[r], ws[r], got[r])
    BY ONLY StreamTo(r, x), <1>1, <1>2 DEF StreamTo
<1>6. list # <<>>
    BY <1>2 DEF Flush
<1>7. Len(rest) \in Nat /\ \E S : rest \in Seq(S)
    <2>1. Layout(x, data[r], wire[r], list)
        BY ONLY <1>5 DEF Stream
    <2>2. /\ x.p < x.q /\ x.E[x.p] < x.E[x.p + 1]
          /\ Len(rest) = x.E[x.p + 1] - x.E[x.p] /\ rest = Part(x.T, x.E[x.p], x.E[x.p + 1])
        BY <1>3, <1>4, <1>6, <2>1, NextPacket
    <2>3. x.p \in Nat /\ x.q \in Nat
        BY <2>1 DEF Layout
    <2>4. x.p + 1 \in x.p .. x.q /\ x.p \in x.p .. x.q
        BY <2>2, <2>3
    <2>5. x.E[x.p] \in Nat /\ x.E[x.p + 1] \in Nat
        BY <2>1, <2>4, EndsRise
    <2>6. x.E[x.p] <= x.E[x.p + 1] /\ x.E[x.p + 1] - x.E[x.p] \in Nat
        BY ONLY <2>2, <2>5
    <2>7. Shows(rest, x.T, x.E[x.p], x.E[x.p + 1])
        BY ONLY <2>2, <2>5, <2>6, PartShape
    <2> QED
        BY ONLY <2>2, <2>6, <2>7 DEF Shows
<1>8. PICK n \in Pieces \cup {Len(rest)} :
          /\ n <= Len(rest)
          /\ wire' = [wire EXCEPT ![r] = @ \o SubSeq(rest, 1, n)]
          /\ IF n = Len(rest)
             THEN /\ send_list' = [send_list EXCEPT ![s] = Tail(@)]
                  /\ Completion(s, packet.callback)
             ELSE /\ send_list' = [send_list EXCEPT ![s][1].rest = SubSeq(@, n + 1, Len(@))]
                  /\ UNCHANGED <<can_write, eof, success>>
    BY <1>2, <1>3, <1>4 DEF Flush
<1>9. n \in Nat
    BY <1>7, <1>8, PieceAssumption
<1>10. Still(r) /\ data'[r] = data[r]
    BY DEF Flush, Still
<1>11. wire'[r] = wire[r] \o SubSeq(rest, 1, n) /\ wire'[s] = wire[s]
    BY <1>1, <1>8 DEF TypesOK
<1>12. ASSUME NEW z, Stream(z, r, plan.frames[s], data[r], wire'[r], send_list'[s],
                            upgrade[r], ws[r], got[r])
       PROVE  StreamTo(r, z)'
    <2>1. Stream(z, r, plan'.frames[s], data'[r], wire'[r], send_list'[s],
                 upgrade'[r], ws'[r], got'[r])
        BY ONLY <1>10, <1>12 DEF Still
    <2> QED
        BY ONLY <1>1, <2>1 DEF StreamTo
<1>13. CASE n = Len(rest)
    <2>1. send_list'[s] = Tail(list) /\ send_list'[r] = send_list[r] /\ Completion(s, packet.callback)
        BY <1>1, <1>2, <1>8, <1>13 DEF TypesOK
    <2>2. PICK z : z = WroteAll(x)
        OBVIOUS
    <2>3. /\ Stream(z, r, plan.frames[s], data[r], wire[r] \o rest, Tail(list),
                    upgrade[r], ws[r], got[r])
          /\ packet.callback = "ack" => r = "client" /\ x.u /\ ~Past(x) /\ Past(z)
          /\ r = "client" /\ x.u /\ packet.callback # "ack" => (Past(z) <=> Past(x))
        BY <1>3, <1>4, <1>5, <1>6, <2>2, StreamWrittenAll
    <2>4. SubSeq(rest, 1, n) = rest
        BY ONLY <1>7, <1>13
    <2>5. StreamTo(r, z)'
        BY ONLY <1>11, <1>12, <2>1, <2>3, <2>4
    <2>6. Kept(z, x)
        BY <2>2 DEF WroteAll, Flow, Kept
    <2>7. Handed(r, z, x)
        <3>1. CASE packet.callback = "ack"
            BY <1>1, <2>1, <2>3, <3>1 DEF Completion, Handed, Side
        <3>2. CASE packet.callback # "ack"
            BY <2>1, <2>3, <3>2, CompletionTypes DEF Handed
        <3> QED
            BY <3>1, <3>2
    <2> QED
        BY ONLY <1>11, <2>1, <2>5, <2>6, <2>7
<1>14. CASE n # Len(rest)
    <2>0. n < Len(rest)
        BY <1>7, <1>8, <1>9, <1>14
    <2>1. PICK less : less = [list EXCEPT ![1].rest = SubSeq(@, n + 1, Len(@))]
        OBVIOUS
    <2>2. send_list' = [send_list EXCEPT ![s] = less] /\ UNCHANGED success
        BY <1>2, <1>8, <1>14, <2>1
    <2>3. send_list'[s] = less /\ send_list'[r] = send_list[r]
        BY <1>1, <2>2 DEF TypesOK
    <2>4. PICK z : z = WrotePart(x, n)
        OBVIOUS
    <2>5. Lessened(less, list, n)
        BY <2>1 DEF Lessened
    <2>6. /\ Stream(z, r, plan.frames[s], data[r], wire[r] \o SubSeq(rest, 1, n), less,
                    upgrade[r], ws[r], got[r])
          /\ Past(z) <=> Past(x)
        BY <1>3, <1>4, <1>5, <1>6, <1>9, <2>0, <2>4, <2>5, StreamWrittenPart
    <2>7. StreamTo(r, z)'
        BY ONLY <1>11, <1>12, <2>3, <2>6
    <2>8. Kept(z, x)
        BY <2>4 DEF WrotePart, Flow, Kept
    <2>9. Handed(r, z, x)
        BY <2>2, <2>6 DEF Handed
    <2> QED
        BY ONLY <1>11, <2>3, <2>7, <2>8, <2>9
<1> QED
    BY <1>13, <1>14

\* A read moves the stream to its side.
LEMMA Arrived ==
    ASSUME TypesOK, NEW s \in Side, NEW x, StreamTo(s, x), Receive(s)
    PROVE  \E z : StreamTo(s, z)' /\ Kept(z, x) /\ (Past(z) <=> Past(x))
<1>1. Stream(x, s, plan.frames[Other(s)], data[s], wire[s], send_list[Other(s)],
             upgrade[s], ws[s], got[s])
    BY DEF StreamTo
<1>2. PICK n \in Pieces \cup {Len(wire[s])} :
          /\ n <= Len(wire[s])
          /\ data' = [data EXCEPT ![s] = @ \o SubSeq(wire[s], 1, n)]
          /\ wire' = [wire EXCEPT ![s] = SubSeq(@, n + 1, Len(@))]
    BY DEF Receive
<1>3. n \in Nat
    <2>1. Layout(x, data[s], wire[s], send_list[Other(s)])
        BY ONLY <1>1 DEF Stream
    <2>2. /\ x.b \in Nat /\ x.E[x.p] \in Nat /\ x.b <= x.E[x.p]
          /\ wire[s] = Part(x.T, x.b, x.E[x.p])
        BY <2>1, EndsRise DEF Layout
    <2>3. Shows(wire[s], x.T, x.b, x.E[x.p])
        BY <2>2, PartShape
    <2>4. Len(wire[s]) \in Nat
        BY <2>2, <2>3 DEF Shows
    <2> QED
        BY <1>2, <2>4, PieceAssumption
<1>4. PICK z : z = Took(x, n)
    OBVIOUS
<1>5. Stream(z, s, plan.frames[Other(s)], data[s] \o SubSeq(wire[s], 1, n),
             SubSeq(wire[s], n + 1, Len(wire[s])), send_list[Other(s)],
             upgrade[s], ws[s], got[s])
    BY <1>1, <1>2, <1>3, <1>4, StreamReceived
<1>6. /\ data'[s] = data[s] \o SubSeq(wire[s], 1, n)
      /\ wire'[s] = SubSeq(wire[s], n + 1, Len(wire[s]))
    BY <1>2 DEF TypesOK
<1>7. Still(s) /\ send_list' = send_list
    BY DEF Receive, Still
<1>8. StreamTo(s, z)'
    BY ONLY <1>5, <1>6, <1>7 DEF Still, StreamTo
<1>9. Kept(z, x) /\ z.E = x.E /\ z.p = x.p
    BY <1>4 DEF Took, Flow, Kept
<1> QED
    BY ONLY <1>8, <1>9 DEF Past, Kept

\* The stream after n more elements have been parsed.
Stepped(z, x, n) ==
    /\ z.T = x.T /\ z.B = x.B /\ z.m = x.m /\ z.u = x.u /\ z.a = x.a + n
    /\ Past(z) <=> Past(x)
\* Reading n elements is such a step.
LEMMA ReadSteps ==
    ASSUME NEW x, NEW n \in Nat, NEW z, z = Read(x, n)
    PROVE  Stepped(z, x, n)
BY DEF Read, Flow, Stepped, Past

\* The element e of a message that the parser takes.
Placed(s, x, e) ==
    /\ x.a < x.B[0] /\ e = x.T[x.a + 1] /\ e.half = (IF (x.a + 1) % 2 = 1 THEN 1 ELSE 2)
    /\ e.value \in Switches <=> x.u /\ x.B[0] < x.a + 1 + 2
    /\ s = "server" => e.value # "switch"
\* What http_parser_execute takes next.
LEMMA ElementPlaced ==
    ASSUME TypesOK, NEW s \in Side, NEW x, StreamTo(s, x), ~upgrade[s], NEW e, Execute(s, e)
    PROVE  /\ Placed(s, x, e) /\ data[s] # <<>> /\ e = Head(data[s]) /\ data'[s] = Tail(data[s])
           /\ Stream(x, s, plan.frames[Other(s)], data[s], wire[s], send_list[Other(s)],
                     FALSE, ws[s], got[s])
<1>1. upgrade[s] = FALSE
    BY DEF TypesOK
<1>2. Stream(x, s, plan.frames[Other(s)], data[s], wire[s], send_list[Other(s)],
             FALSE, ws[s], got[s])
    BY ONLY StreamTo(s, x), <1>1 DEF StreamTo
<1>3. data[s] # <<>> /\ e = Head(data[s]) /\ data'[s] = Tail(data[s])
    BY DEF Execute, TypesOK
<1>4. /\ x.a \in Nat /\ x.B[0] \in Nat /\ x.a < x.B[0] /\ x.B[0] % 2 = 0 /\ x.u \in BOOLEAN
      /\ e = x.T[x.a + 1]
      /\ e.half = (IF (x.a + 1) % 2 = 1 THEN 1 ELSE 2)
      /\ e.value \in Switches <=> x.u /\ x.a + 1 > x.B[0] - 2
      /\ s = "server" => e.value # "switch"
    <2>1. IsPlace(x, s, e, data[s])
        BY <1>2, <1>3, PlaceIsRead
    <2> QED
        BY ONLY <2>1 DEF IsPlace
<1>5. x.a + 1 > x.B[0] - 2 <=> x.B[0] < x.a + 1 + 2
    BY <1>4
<1> QED
    BY ONLY <1>2, <1>3, <1>4, <1>5 DEF Placed

\* An element that is not the end of the handshake is parsed.
LEMMA MessageParsed ==
    ASSUME TypesOK, NEW s \in Side, NEW x, StreamTo(s, x), ~upgrade[s], NEW e, Execute(s, e),
           e.half = 1 \/ e.value \notin Switches, Still(s),
           send_list'[Other(s)] = send_list[Other(s)]
    PROVE  \E z : StreamTo(s, z)' /\ Stepped(z, x, 1)
<1>1. /\ data[s] # <<>> /\ e = Head(data[s]) /\ data'[s] = Tail(data[s])
      /\ Stream(x, s, plan.frames[Other(s)], data[s], wire[s], send_list[Other(s)],
                FALSE, ws[s], got[s])
    BY ElementPlaced
<1>2. PICK z : z = Read(x, 1)
    OBVIOUS
<1>3. Stream(z, s, plan.frames[Other(s)], Tail(data[s]), wire[s], send_list[Other(s)],
             FALSE, ws[s], got[s])
    BY <1>1, <1>2, StreamHttp
<1>4. wire' = wire /\ upgrade[s] = FALSE
    BY DEF Execute, TypesOK
<1>5. StreamTo(s, z)'
    BY ONLY <1>1, <1>3, <1>4, Still(s), send_list'[Other(s)] = send_list[Other(s)]
       DEF StreamTo, Still
<1> QED
    BY <1>2, <1>5, ReadSteps

\* The end of the handshake is parsed.
LEMMA UpgradeParsed ==
    ASSUME TypesOK, WsTypes, NEW s \in Side, NEW x, StreamTo(s, x), ~upgrade[s], NEW e,
           UpgradeComplete(s, e)
    PROVE  /\ \E z : StreamTo(s, z)' /\ Stepped(z, x, 1)
           /\ x.u /\ x.a + 1 = x.B[0] /\ upgrade'[s] /\ Placed(s, x, e)
<1>1. Execute(s, e) /\ e.half = 2 /\ e.value \in Switches
    BY DEF UpgradeComplete, Switches
<1>2. /\ data[s] # <<>> /\ e = Head(data[s]) /\ data'[s] = Tail(data[s]) /\ Placed(s, x, e)
      /\ Stream(x, s, plan.frames[Other(s)], data[s], wire[s], send_list[Other(s)],
                FALSE, ws[s], got[s])
    BY <1>1, ElementPlaced
<1>3. plan.frames[Other(s)] \in Seq(Frame)
    BY PlanFrames, OtherSide DEF TypesOK
<1>4. upgrade'[s] = TRUE /\ ws'[s].frame = ws[s].frame
    BY DEF UpgradeComplete, TypesOK, WsTypes, WsState
<1>5. /\ Stream(Read(x, 1), s, plan.frames[Other(s)], Tail(data[s]), wire[s], send_list[Other(s)],
                TRUE, ws'[s], got[s])
      /\ x.u /\ x.a + 1 = x.B[0]
    BY <1>1, <1>2, <1>3, <1>4, StreamUpgrade
<1>6. PICK z : z = Read(x, 1)
    OBVIOUS
<1>7. wire' = wire /\ got' = got /\ plan' = plan /\ send_list' = send_list
    BY DEF UpgradeComplete, Execute
<1>8. Stream(z, s, plan.frames[Other(s)], Tail(data[s]), wire[s], send_list[Other(s)],
             TRUE, ws'[s], got[s])
    BY ONLY <1>5, <1>6
<1>9. StreamTo(s, z)'
    BY ONLY <1>2, <1>4, <1>7, <1>8 DEF StreamTo
<1> QED
    BY <1>2, <1>4, <1>5, <1>6, <1>9, ReadSteps

\* Nothing has been read of the frames when the handshake is due.
LEMMA HandshakeRead ==
    ASSUME TypesOK, WsTypes, NEW s \in Side, NEW x, StreamTo(s, x), upgrade[s], WsHandshake(s),
           send_list'[Other(s)] = send_list[Other(s)]
    PROVE  /\ StreamTo(s, x)' /\ ws' \in [Side -> WsState]
           /\ ws' = [ws EXCEPT ![s] = ws'[s]] /\ ~ws'[s].key /\ ~ws'[s].accept
<1> DEFINE frames == plan.frames[Other(s)]
           list == send_list[Other(s)]
<1>0. frames \in Seq(Frame)
    BY PlanFrames, OtherSide DEF TypesOK
<1>1. upgrade[s] = TRUE /\ upgrade' = upgrade /\ plan' = plan /\ wire' = wire /\ data' = data
      /\ got' = got
    BY DEF WsHandshake, WsIn, TypesOK
<1>2. NoFrame \in Opened
    <2>1. <<>> \in Payloads /\ op_unknow \in Opcodes
        BY DEF Payloads, Opcodes, op_unknow, op_handshake_req, op_handshake_ack
    <2> QED
        BY <2>1 DEF NoFrame, Opened
<1>3. PICK w \in WsState : w = ws[s]
    BY DEF WsTypes
<1>4. PICK w2 : w2 = [key |-> FALSE, accept |-> FALSE,
                      frame |-> IF w.key \/ w.accept THEN NoFrame ELSE w.frame]
    OBVIOUS
<1>5. w2 \in WsState
    BY <1>2, <1>4 DEF WsState
<1>6. ws' = [ws EXCEPT ![s] = w2]
    <2>1. ws' = [ws EXCEPT ![s].key = FALSE, ![s].accept = FALSE,
                           ![s].frame = IF ws[s].key \/ ws[s].accept THEN NoFrame ELSE @]
        BY DEF WsHandshake
    <2>2. ws' = [ws EXCEPT ![s] = [w EXCEPT !.key = FALSE, !.accept = FALSE,
                     !.frame = IF w.key \/ w.accept THEN NoFrame ELSE @]]
        BY <1>3, <2>1 DEF WsTypes
    <2>3. [w EXCEPT !.key = FALSE, !.accept = FALSE,
              !.frame = IF w.key \/ w.accept THEN NoFrame ELSE @] = w2
        <3>1. PICK last \in Opened : last = IF w.key \/ w.accept THEN NoFrame ELSE w.frame
            BY <1>2 DEF WsState
        <3>2. PICK y : y = [w EXCEPT !.key = FALSE, !.accept = FALSE, !.frame = last]
            OBVIOUS
        <3>3. y \in WsState /\ ~y.key /\ ~y.accept /\ y.frame = last
            BY <3>2 DEF WsState
        <3>4. y = w2
            BY <1>4, <3>1, <3>3 DEF WsState
        <3> QED
            BY ONLY <3>1, <3>2, <3>4
    <2> QED
        BY <2>2, <2>3
<1>7. ws'[s] = w2 /\ ws' \in [Side -> WsState] /\ ws' = [ws EXCEPT ![s] = ws'[s]]
    BY <1>5, <1>6 DEF WsTypes
<1>8. Stream(x, s, frames, data[s], wire[s], list, TRUE, w, got[s])
    BY ONLY StreamTo(s, x), <1>1, <1>3 DEF StreamTo
<1> HIDE DEF frames, list
<1>9. x.u /\ x.a >= x.B[0] /\ \E k \in 0 .. x.m : Reads(x, frames, w, got[s], k)
    BY ONLY <1>8 DEF Stream, Content, Reader, ReadsFrames
<1>10. PICK k \in 0 .. x.m : Reads(x, frames, w, got[s], k)
    BY <1>9
<1>11. w2.frame.payload = w.frame.payload /\ w2.frame.opcode = w.frame.opcode
    <2>1. CASE w.key \/ w.accept
        <3>1. k = 0 /\ w.frame.payload = Joined(frames)[0].payload
              /\ w.frame.opcode = Joined(frames)[0].opcode
            BY ONLY <1>10, <2>1 DEF Reads
        <3>2. Joined(frames)[0] = Nothing
            BY <1>0, JoinedIs
        <3>3. w2.frame = NoFrame
            BY ONLY <1>4, <2>1
        <3> QED
            BY ONLY <3>1, <3>2, <3>3 DEF Nothing, NoFrame
    <2>2. CASE ~(w.key \/ w.accept)
        BY ONLY <1>4, <2>2
    <2> QED
        BY <2>1, <2>2
<1>12. ~w2.key /\ ~w2.accept
    BY ONLY <1>4
<1>13. Reads(x, frames, w2, got[s], k)
    BY ONLY <1>10, <1>11, <1>12 DEF Reads
<1>14. Reader(x, frames, TRUE, w2, got[s])
    BY ONLY <1>9, <1>13, k \in 0 .. x.m DEF Reader, ReadsFrames
<1>15. Stream(x, s, frames, data[s], wire[s], list, TRUE, w2, got[s])
    BY <1>8, <1>14, StreamRead
<1>16. StreamTo(s, x)'
    BY ONLY <1>1, <1>7, <1>15, send_list'[Other(s)] = send_list[Other(s)]
       DEF StreamTo, frames, list
<1> QED
    BY ONLY <1>7, <1>12, <1>16

\* A frame is taken from the stream, or two of the zeros behind it.
LEMMA FrameRead ==
    ASSUME TypesOK, WsTypes, NEW s \in Side, NEW x, StreamTo(s, x), upgrade[s],
           InStep, x.m \in Nat, x.m <= started[Other(s)].frames,
           ~ws[s].key, ~ws[s].accept, WsFrame(s)
    PROVE  /\ \E z, n : n \in Nat /\ StreamTo(s, z)' /\ Stepped(z, x, n)
           /\ ws' \in [Side -> WsState] /\ DOMAIN got' = Side
           /\ ws' = [ws EXCEPT ![s] = ws'[s]] /\ ~ws'[s].key /\ ~ws'[s].accept
           /\ \A r \in Side : r # s => got'[r] = got[r]
           /\ send_list' = send_list /\ success' = success
<1> DEFINE frames == plan.frames[Other(s)]
           list == send_list[Other(s)]
<1>0. frames \in Seq(Frame) /\ Aligned(frames, x.m)
    BY PlanFrames, OtherSide DEF TypesOK
<1>1. upgrade[s] = TRUE /\ upgrade' = upgrade /\ plan' = plan /\ wire' = wire
    BY DEF WsFrame, WsIn, TypesOK
<1>2. NoFrame \in Opened
    <2>1. <<>> \in Payloads /\ op_unknow \in Opcodes
        BY DEF Payloads, Opcodes, op_unknow, op_handshake_req, op_handshake_ack
    <2> QED
        BY <2>1 DEF NoFrame, Opened
<1>3. PICK w \in WsState : w = ws[s]
    BY DEF WsTypes
<1>4. PICK r : r = TryParseFrame(Values(data[s]))
    OBVIOUS
<1>5. PICK frame : frame = Gathered(w.frame, r)
    OBVIOUS
<1>6. /\ r.ok /\ r.size > 0 /\ data' = [data EXCEPT ![s] = SubSeq(@, r.size + 1, Len(@))]
      /\ ws' = [ws EXCEPT ![s].frame = IF r.fin THEN NoFrame ELSE frame]
      /\ IF r.fin THEN FrameEntered(s, frame) ELSE UNCHANGED <<send_list, success, got>>
    BY <1>3, <1>4, <1>5 DEF WsFrame
<1>7. PICK w2 : w2 = [key |-> w.key, accept |-> w.accept,
                      frame |-> IF r.fin THEN NoFrame ELSE frame]
    OBVIOUS
<1>8. PICK g2 : g2 = IF r.fin THEN Append(got[s], <<frame.opcode, frame.payload>>) ELSE got[s]
    OBVIOUS
<1>9. Stream(x, s, frames, data[s], wire[s], list, TRUE, w, got[s])
    BY ONLY StreamTo(s, x), <1>1, <1>3 DEF StreamTo
<1> HIDE DEF frames, list
<1>10. ~w.key /\ ~w.accept /\ w.frame \in Opened
    BY ONLY <1>3, ~ws[s].key, ~ws[s].accept DEF WsState
<1>11. ~w2.key /\ ~w2.accept /\ w2.frame = IF r.fin THEN NoFrame ELSE frame
    BY ONLY <1>7, <1>10
<1>12. /\ Stream(Read(x, r.size), s, frames, SubSeq(data[s], r.size + 1, Len(data[s])), wire[s],
                  list, TRUE, w2, g2)
       /\ r.size \in Nat /\ r.size <= Len(data[s]) /\ frame \in Opened
    <2>1. Round(r, frame, w2, g2, Values(data[s]), w, got[s])
        BY ONLY <1>4, <1>5, <1>6, <1>8, <1>11 DEF Round
    <2> QED
        BY <1>0, <1>9, <1>10, <2>1, StreamFrame
<1>13. w2 \in WsState
    BY <1>2, <1>7, <1>12 DEF WsState
<1>14. ws' = [ws EXCEPT ![s] = w2]
    <2>1. ws' = [ws EXCEPT ![s] = [w EXCEPT !.frame = IF r.fin THEN NoFrame ELSE frame]]
        BY <1>3, <1>6 DEF WsTypes
    <2>2. [w EXCEPT !.frame = IF r.fin THEN NoFrame ELSE frame] = w2
        BY <1>7 DEF WsState
    <2> QED
        BY <2>1, <2>2
<1>15. ws'[s] = w2 /\ ws' \in [Side -> WsState] /\ ws' = [ws EXCEPT ![s] = ws'[s]]
    BY <1>13, <1>14 DEF WsTypes
<1>16. /\ \A i \in Side : i # s => got'[i] = got[i]
       /\ got'[s] = g2 /\ DOMAIN got' = Side
       /\ send_list' = send_list /\ success' = success
    <2>1. CASE r.fin
        <3>1. frame.opcode # op_handshake_req /\ frame.opcode # op_handshake_ack
            BY <1>12 DEF Opened, Opcodes
        <3>2. /\ got' = [got EXCEPT ![s] = Append(@, <<frame.opcode, frame.payload>>)]
              /\ UNCHANGED <<send_list, success>>
            BY <1>6, <2>1, <3>1 DEF FrameEntered
        <3>3. got' = [got EXCEPT ![s] = g2]
            BY <1>8, <2>1, <3>2 DEF WsTypes
        <3> QED
            BY <3>2, <3>3 DEF WsTypes
    <2>2. CASE ~r.fin
        <3>1. got' = got /\ g2 = got[s] /\ send_list' = send_list /\ success' = success
            BY <1>6, <1>8, <2>2
        <3> QED
            BY <3>1 DEF WsTypes
    <2> QED
        BY <2>1, <2>2
<1>17. data'[s] = SubSeq(data[s], r.size + 1, Len(data[s]))
    BY <1>6 DEF TypesOK
<1>18. PICK z : z = Read(x, r.size)
    OBVIOUS
<1>19. Stream(z, s, frames, data'[s], wire[s], list, TRUE, w2, g2)
    BY ONLY <1>12, <1>17, <1>18
<1>20. StreamTo(s, z)'
    BY ONLY <1>1, <1>15, <1>16, <1>19 DEF StreamTo, frames, list
<1>21. Stepped(z, x, r.size)
    BY <1>12, <1>18, ReadSteps
<1> QED
    BY ONLY <1>11, <1>12, <1>15, <1>16, <1>20, <1>21

\* The stream to s, and the invariant.
At(s, x, y) == IF s = "server" THEN x ELSE y
Shown == /\ WsTypes /\ (open["client"] => session["client"]) /\ (\A s \in Side : Doing(s))
         /\ \E x, y : Linked(x, y)

-----------------------------------------------------------------------------
(* The invariant of the handshake and the frames, step by step.              *)

\* What one knows of both streams.
LEMMA LinkedKnown ==
    ASSUME TypesOK, NEW x, NEW y, Linked(x, y)
    PROVE  /\ Known("server", x) /\ Known("client", y)
           /\ \A s \in Side : StreamTo(s, At(s, x, y)) /\ Known(s, At(s, x, y))
<1>1. "server" \in Side /\ "client" \in Side
    BY DEF Side
<1>2. StreamTo("server", x) /\ StreamTo("client", y)
    BY DEF Linked
<1>3. Known("server", x) /\ Known("client", y)
    BY <1>1, <1>2, StreamKnown DEF TypesOK
<1> QED
    BY ONLY <1>2, <1>3 DEF At, Side

\* What the links are about does not change.
Steady ==
    /\ plan' = plan /\ Sent' = Sent /\ Upgrades' = Upgrades /\ owed' = owed /\ answered' = answered
    /\ success' = success /\ upgrade' = upgrade
    /\ \A s \in Side : /\ session'[s] => session[s]
                       /\ ws'[s].key = ws[s].key /\ ws'[s].accept = ws[s].accept
                       /\ started'[s].frames = started[s].frames
\* Of a stream only more may be parsed.
Advanced(z, x) ==
    /\ z.B = x.B /\ z.m = x.m /\ z.u = x.u /\ z.a \in Nat /\ x.a <= z.a
    /\ Past(z) <=> Past(x)
\* More may be parsed without a change to what is asked and answered.
LEMMA AskedSteady ==
    ASSUME TypesOK, NEW x, NEW y, Linked(x, y), NEW x2, NEW y2,
           Advanced(x2, x), Advanced(y2, y),
           plan' = plan, Sent' = Sent, Upgrades' = Upgrades, owed' = owed, answered' = answered,
           session'["client"] => session["client"]
    PROVE  Asked(x2, y2)'
<1>1. Known("server", x) /\ Known("client", y)
    BY LinkedKnown
<1>2. PICK a \in Nat : a = x.a
    BY <1>1 DEF Known
<1>3. PICK b \in Nat : b = y.a
    BY <1>1 DEF Known
<1>4. PICK c \in Nat : c = x.B[0] /\ c = x2.B[0]
    BY <1>1 DEF Known, Advanced
<1>5. PICK d \in Nat : d = y.B[0] /\ d = y2.B[0]
    BY <1>1 DEF Known, Advanced
<1>6. PICK a2 \in Nat : a2 = x2.a /\ a <= a2
    BY <1>2 DEF Advanced
<1>7. PICK b2 \in Nat : b2 = y2.a /\ b <= b2
    BY <1>3 DEF Advanced
<1>8. x2.u = x.u /\ x.u \in BOOLEAN
    BY <1>1 DEF Known, Advanced
<1>9. Asked(x, y)
    BY DEF Linked
<1>10. Sent \in Nat
    BY DEF TypesOK, Sent, Side
<1>11. /\ Upgrades => /\ Sent = Len(plan.requests) /\ owed = 0
                      /\ IF x.u THEN c <= a + 2 ELSE c <= a
       /\ ~Upgrades => 2 * answered <= b /\ 2 * owed + d <= a /\ c <= 2 * Sent /\ ~x.u
       /\ Upgrades /\ session["client"] => x.u
    BY ONLY <1>2, <1>3, <1>4, <1>5, <1>9 DEF Asked
<1>12. /\ (x.u => c <= a + 2) => (x.u => c <= a2 + 2)
       /\ c <= a => c <= a2
       /\ 2 * answered <= b => 2 * answered <= b2
       /\ 2 * owed + d <= a => 2 * owed + d <= a2
    BY <1>6, <1>7 DEF TypesOK
<1>13. /\ Upgrades' => /\ Sent' = Len(plan'.requests) /\ owed' = 0
                       /\ IF x2.u THEN c <= a2 + 2 ELSE c <= a2
       /\ ~Upgrades' => 2 * answered' <= b2 /\ 2 * owed' + d <= a2 /\ c <= 2 * Sent' /\ ~x2.u
       /\ Upgrades' /\ session'["client"] => x2.u
    BY ONLY <1>8, <1>11, <1>12, plan' = plan, Sent' = Sent, Upgrades' = Upgrades, owed' = owed,
            answered' = answered, session'["client"] => session["client"]
<1> QED
    BY ONLY <1>4, <1>5, <1>6, <1>7, <1>13 DEF Asked

\* The handshake is where it was.
LEMMA SwitchedSteady ==
    ASSUME NEW y, Switched(y), NEW y2, y2.u = y.u, y.u => (Past(y2) <=> Past(y)),
           success' = success, upgrade' = upgrade,
           \A s \in Side : ws'[s].key = ws[s].key /\ ws'[s].accept = ws[s].accept
    PROVE  Switched(y2)'
BY DEF Switched, Side

\* The frames in a stream are counted as before.
LEMMA CountedSteady ==
    ASSUME NEW s \in Side, NEW m, Counted(s, m), plan' = plan,
           started'[s].frames = started[s].frames, session'[s] => session[s],
           success[s] = 1 => success'[s] = 1
    PROVE  Counted(s, m)'
BY DEF Counted

\* One stream moves on and the other stays.
LEMMA LinkedSteady ==
    ASSUME TypesOK, NEW x, NEW y, Linked(x, y), Steady, NEW s \in Side, NEW z,
           StreamTo(s, z)', Advanced(z, At(s, x, y)),
           StreamTo(Other(s), At(Other(s), x, y))'
    PROVE  \E x2, y2 : Linked(x2, y2)'
<1>1. ASSUME NEW v, v = x \/ v = y PROVE Advanced(v, v)
    <2>1. v.a \in Nat
        BY <1>1, LinkedKnown DEF Known
    <2>2. v.a <= v.a
        BY <2>1
    <2> QED
        BY <2>1, <2>2 DEF Advanced
<1>2. PICK x2 : x2 = IF s = "server" THEN z ELSE x
    OBVIOUS
<1>3. PICK y2 : y2 = IF s = "server" THEN y ELSE z
    OBVIOUS
<1>4. /\ StreamTo("server", x2)' /\ StreamTo("client", y2)'
      /\ Advanced(x2, x) /\ Advanced(y2, y)
    <2>1. CASE s = "server"
        <3>1. At(s, x, y) = x /\ At(Other(s), x, y) = y /\ Other(s) = "client"
            BY <2>1 DEF At, Other
        <3>2. x2 = z /\ y2 = y
            BY <1>2, <1>3, <2>1
        <3> QED
            BY <1>1, <2>1, <3>1, <3>2
    <2>2. CASE s = "client"
        <3>1. At(s, x, y) = y /\ At(Other(s), x, y) = x /\ Other(s) = "server"
            BY <2>2 DEF At, Other
        <3>2. x2 = x /\ y2 = z
            BY <1>2, <1>3, <2>2
        <3> QED
            BY <1>1, <2>2, <3>1, <3>2
    <2> QED
        BY <2>1, <2>2 DEF Side
<1>5. Asked(x2, y2)'
    BY <1>4, AskedSteady DEF Steady, Side
<1>6. Switched(y2)'
    BY <1>4, SwitchedSteady DEF Steady, Linked, Advanced
<1>7. Counted("client", x2.m)' /\ Counted("server", y2.m)'
    <2>1. x2.m = x.m /\ y2.m = y.m
        BY <1>4 DEF Advanced
    <2>2. Counted("client", x.m)' /\ Counted("server", y.m)'
        BY CountedSteady DEF Steady, Linked, Side
    <2> QED
        BY ONLY <2>1, <2>2
<1> QED
    BY ONLY <1>4, <1>5, <1>6, <1>7 DEF Linked

\* The steps that leave both streams as they are.
LEMMA LinkedStays ==
    ASSUME TypesOK, NEW x, NEW y, Linked(x, y), Steady, got' = got, ws' = ws,
           data' = data, wire' = wire, send_list' = send_list
    PROVE  \E x2, y2 : Linked(x2, y2)'
<1>1. ASSUME NEW s \in Side PROVE StreamTo(s, At(s, x, y))'
    BY LinkedKnown, StreamStays DEF Steady, Still
<1>2. "server" \in Side /\ Other("server") \in Side
    BY OtherSide DEF Side
<1>3. Advanced(x, At("server", x, y))
    <2>1. x.a \in Nat
        BY LinkedKnown DEF Known
    <2>2. x.a <= x.a
        BY <2>1
    <2> QED
        BY <2>1, <2>2 DEF Advanced, At
<1>4. StreamTo("server", x)'
    BY <1>1, <1>2 DEF At
<1> QED
    BY <1>1, <1>2, <1>3, <1>4, LinkedSteady

\* The IO thread of a side that does nothing.
LEMMA DoingStays ==
    ASSUME NEW s, Doing(s), pc'[s] = pc[s], upgrade'[s] = upgrade[s],
           ws'[s].key = ws[s].key, ws'[s].accept = ws[s].accept
    PROVE  Doing(s)'
BY DEF Doing

\* A shutdown by the application, or no step, keeps the invariant.
LEMMA ByeShown ==
    ASSUME Plain, Shown, Bye \/ UNCHANGED vars
    PROVE  Shown'
<1>1. TypesOK
    BY DEF Plain
<1>2. /\ UNCHANGED <<plan, session, open, wire, data, pc, upgrade, ws, send_list, started, owed,
                     answered, success, got>>
    BY DEF Bye, vars
<1>3. Steady
    BY <1>2 DEF Steady, Sent, Upgrades
<1>4. \A s \in Side : Doing(s)'
    BY <1>2, DoingStays DEF Shown
<1>5. PICK x, y : Linked(x, y)
    BY DEF Shown
<1>6. \E x2, y2 : Linked(x2, y2)'
    BY <1>1, <1>2, <1>3, <1>5, LinkedStays
<1> QED
    BY <1>2, <1>4, <1>6 DEF Shown, WsTypes

\* So does a side that closes.
LEMMA DisconnectShown ==
    ASSUME Plain, Shown, NEW s \in Side, OnDisconnect(s)
    PROVE  Shown'
<1>1. TypesOK
    BY DEF Plain
<1>2. /\ UNCHANGED <<plan, wire, data, pc, upgrade, ws, send_list, started, owed, answered,
                     success, got>>
      /\ open' = [open EXCEPT ![s] = FALSE]
      /\ session' = [session EXCEPT !["client"] = @ /\ s # "client"]
    BY DEF OnDisconnect
<1>3. (open'["client"] => session'["client"]) /\ \A r \in Side : session'[r] => session[r]
    BY <1>1, <1>2 DEF TypesOK, Shown, Side
<1>4. Steady
    BY <1>2, <1>3 DEF Steady, Sent, Upgrades
<1>5. \A r \in Side : Doing(r)'
    BY <1>2, DoingStays DEF Shown
<1>6. PICK x, y : Linked(x, y)
    BY DEF Shown
<1>7. \E x2, y2 : Linked(x2, y2)'
    BY <1>1, <1>2, <1>4, <1>6, LinkedStays
<1> QED
    BY <1>2, <1>3, <1>5, <1>7 DEF Shown, WsTypes

\* So does the end of try_ws_parse.
LEMMA ReturnShown ==
    ASSUME Plain, Shown, NEW s \in Side, WsFrameEmpty(s) \/ WsReturn(s)
    PROVE  Shown'
<1>1. TypesOK
    BY DEF Plain
<1>2. /\ UNCHANGED <<plan, session, open, wire, data, upgrade, ws, send_list, started, owed,
                     answered, success, got>>
      /\ pc[s] = "frames" /\ pc' = [pc EXCEPT ![s] = pc'[s]] /\ pc'[s] \in {"stuck", "idle"}
    BY <1>1 DEF WsFrameEmpty, WsReturn, WsIn, tcp, TypesOK
<1>3. Steady
    BY <1>2 DEF Steady, Sent, Upgrades
<1>4. ASSUME NEW r \in Side PROVE Doing(r)'
    <2>1. CASE r = s
        BY <1>2, <2>1 DEF Shown, Doing
    <2>2. CASE r # s
        <3>1. pc'[r] = pc[r]
            BY <1>1, <1>2, <2>2 DEF TypesOK
        <3> QED
            BY <1>2, <3>1, DoingStays DEF Shown
    <2> QED
        BY <2>1, <2>2
<1>5. PICK x, y : Linked(x, y)
    BY DEF Shown
<1>6. \E x2, y2 : Linked(x2, y2)'
    BY <1>1, <1>2, <1>3, <1>5, LinkedStays
<1> QED
    BY <1>2, <1>4, <1>6 DEF Shown, WsTypes

\* So does a read.
LEMMA ReceiveShown ==
    ASSUME Plain, Shown, NEW s \in Side, Receive(s)
    PROVE  Shown'
<1>1. TypesOK /\ Other(s) \in Side /\ Other(s) # s /\ Other(Other(s)) = s
    BY OtherSide DEF Plain
<1>2. /\ UNCHANGED <<plan, session, open, upgrade, ws, send_list, started, owed, answered,
                     success, got>>
      /\ pc[s] = "idle" /\ pc' = [pc EXCEPT ![s] = IF upgrade[s] THEN "try_ws_parse" ELSE "execute"]
    BY DEF Receive, tcp
<1>3. wire'[Other(s)] = wire[Other(s)] /\ data'[Other(s)] = data[Other(s)]
    BY <1>1 DEF Receive, TypesOK
<1>4. Steady
    BY <1>2 DEF Steady, Sent, Upgrades
<1>5. ASSUME NEW r \in Side PROVE Doing(r)'
    <2>1. CASE r = s
        <3>1. pc'[s] = IF upgrade[s] THEN "try_ws_parse" ELSE "execute"
            BY <1>1, <1>2 DEF TypesOK
        <3>2. ~ws[s].key /\ ~ws[s].accept
            BY <1>2 DEF Shown, Doing
        <3> QED
            BY <1>2, <2>1, <3>1, <3>2 DEF Doing
    <2>2. CASE r # s
        <3>1. pc'[r] = pc[r]
            BY <1>1, <1>2, <2>2 DEF TypesOK
        <3> QED
            BY <1>2, <3>1, DoingStays DEF Shown
    <2> QED
        BY <2>1, <2>2
<1>6. PICK x, y : Linked(x, y)
    BY DEF Shown
<1>7. PICK v : v = At(s, x, y)
    OBVIOUS
<1>8. StreamTo(s, v) /\ Known(s, v)
    BY <1>1, <1>6, <1>7, LinkedKnown
<1>9. PICK z : StreamTo(s, z)' /\ Kept(z, v) /\ (Past(z) <=> Past(v))
    BY <1>1, <1>8, Arrived
<1>10. Advanced(z, v)
    <2>1. v.a \in Nat
        BY <1>8 DEF Known
    <2>2. v.a <= v.a
        BY <2>1
    <2> QED
        BY <1>9, <2>1, <2>2 DEF Kept, Advanced
<1>11. StreamTo(Other(s), At(Other(s), x, y))'
    <2>1. StreamTo(Other(s), At(Other(s), x, y))
        BY <1>1, <1>6, LinkedKnown
    <2>2. Still(Other(s)) /\ send_list' = send_list
        BY <1>2 DEF Still
    <2> QED
        BY <1>3, <2>1, <2>2, StreamStays
<1>12. \E x2, y2 : Linked(x2, y2)'
    BY <1>1, <1>4, <1>6, <1>7, <1>9, <1>10, <1>11, LinkedSteady
<1> QED
    BY <1>2, <1>5, <1>12 DEF Shown, WsTypes

\* What is alike in the steps that parse.
LEMMA ParsedAdvances ==
    ASSUME NEW s, NEW x, Known(s, x), NEW n \in Nat, NEW z, Stepped(z, x, n)
    PROVE  Advanced(z, x) /\ z.a = x.a + n
<1>1. PICK a \in Nat : a = x.a
    BY DEF Known
<1>2. a + n \in Nat /\ a <= a + n
    OBVIOUS
<1> QED
    BY ONLY <1>1, <1>2, Stepped(z, x, n) DEF Stepped, Advanced

\* So does a frame that is parsed, as long as the reader is in step.
LEMMA FrameShown ==
    ASSUME InStep, Plain, Shown, NEW s \in Side, WsFrame(s)
    PROVE  Shown'
<1>1. TypesOK /\ WsTypes /\ Other(s) \in Side /\ Other(s) # s /\ Other(Other(s)) = s
    BY OtherSide DEF Plain, Shown
<1>2. /\ UNCHANGED <<plan, session, open, wire, upgrade, started, owed, answered>>
      /\ pc[s] = "frames" /\ pc' = [pc EXCEPT ![s] = "frames"]
      /\ data' = [data EXCEPT ![s] = data'[s]]
    BY <1>1 DEF WsFrame, WsIn, tcp, TypesOK
<1>3. upgrade[s] /\ ~ws[s].key /\ ~ws[s].accept
    BY <1>2 DEF Shown, Doing
<1>4. PICK x, y : Linked(x, y)
    BY DEF Shown
<1>5. PICK v : v = At(s, x, y)
    OBVIOUS
<1>6. StreamTo(s, v) /\ Known(s, v)
    BY <1>1, <1>4, <1>5, LinkedKnown
<1>16. v.m \in Nat /\ v.m <= started[Other(s)].frames
    <2>1. v = IF s = "server" THEN x ELSE y
        BY ONLY <1>5 DEF At
    <2>2. Counted("client", x.m) /\ Counted("server", y.m)
        BY <1>4 DEF Linked
    <2>3. Other(s) = IF s = "server" THEN "client" ELSE "server"
        BY DEF Side, Other
    <2> QED
        BY ONLY <1>6, <2>1, <2>2, <2>3 DEF Counted, Known
<1>7. /\ \E z, n : n \in Nat /\ StreamTo(s, z)' /\ Stepped(z, v, n)
      /\ ws' \in [Side -> WsState] /\ DOMAIN got' = Side
      /\ ws' = [ws EXCEPT ![s] = ws'[s]] /\ ~ws'[s].key /\ ~ws'[s].accept
      /\ \A r \in Side : r # s => got'[r] = got[r]
      /\ send_list' = send_list /\ success' = success
    BY <1>1, <1>3, <1>6, <1>16, FrameRead
<1>8. PICK z, n : n \in Nat /\ StreamTo(s, z)' /\ Stepped(z, v, n)
    BY <1>7
<1>9. \A r \in Side : r # s => ws'[r] = ws[r] /\ got'[r] = got[r] /\ pc'[r] = pc[r]
    BY <1>1, <1>2, <1>7 DEF TypesOK, WsTypes
<1>10. \A r \in Side : ws'[r].key = ws[r].key /\ ws'[r].accept = ws[r].accept
    <2>1. ws'[s] \in WsState /\ ws[s] \in WsState
        BY <1>1, <1>7 DEF WsTypes
    <2>2. ws'[s].key = ws[s].key /\ ws'[s].accept = ws[s].accept
        BY <1>3, <1>7, <2>1 DEF WsState
    <2> QED
        BY <1>9, <2>2
<1>11. Steady
    BY <1>2, <1>7, <1>10 DEF Steady, Sent, Upgrades
<1>12. ASSUME NEW r \in Side PROVE Doing(r)'
    <2>1. pc'[r] = pc[r]
        BY <1>1, <1>2, <1>9 DEF TypesOK
    <2> QED
        BY <1>2, <1>10, <2>1, DoingStays DEF Shown
<1>13. Advanced(z, v)
    BY <1>6, <1>8, ParsedAdvances
<1>14. StreamTo(Other(s), At(Other(s), x, y))'
    <2>1. StreamTo(Other(s), At(Other(s), x, y))
        BY <1>1, <1>4, LinkedKnown
    <2>2. Still(Other(s)) /\ data'[Other(s)] = data[Other(s)]
        BY <1>1, <1>2, <1>9 DEF Still, TypesOK
    <2> QED
        BY <1>2, <1>7, <2>1, <2>2, StreamStays
<1>15. \E x2, y2 : Linked(x2, y2)'
    BY <1>1, <1>4, <1>5, <1>8, <1>11, <1>13, <1>14, LinkedSteady
<1> QED
    BY <1>2, <1>7, <1>12, <1>15 DEF Shown, WsTypes

\* The two sides.
Sides == /\ "server" \in Side /\ "client" \in Side
         /\ Other("server") = "client" /\ Other("client") = "server" /\ "server" # "client"
\* The sides by name.
LEMMA BothSides == Sides
BY DEF Sides, Side, Other

\* A step of the parser that is not the upgrade: what it leaves as it is.
LEMMA HttpDoing ==
    ASSUME Plain, Shown, NEW s \in Side, NEW e, Execute(s, e), Goes(s), UNCHANGED <<upgrade, ws>>
    PROVE  /\ \A r \in Side : Doing(r)' /\ Still(r)
           /\ WsTypes' /\ (open'["client"] => session'["client"]) /\ ~upgrade[s]
           /\ data'[Other(s)] = data[Other(s)]
           /\ \A r \in Side : wire'[r] = wire[r] /\ session'[r] = session[r]
           /\ plan' = plan /\ started' = started /\ success' = success
           /\ Sent' = Sent /\ Upgrades' = Upgrades
<1>1. TypesOK /\ Other(s) \in Side /\ Other(s) # s
    BY OtherSide DEF Plain
<1>2. /\ UNCHANGED <<plan, session, open, wire, started, success, got>>
      /\ pc[s] = "execute" /\ data' = [data EXCEPT ![s] = Tail(@)]
    BY DEF Execute, tcp
<1>3. ~upgrade[s] /\ ~ws[s].key /\ ~ws[s].accept
    BY <1>2 DEF Shown, Doing
<1>4. ASSUME NEW r \in Side PROVE Doing(r)'
    <2>1. CASE r = s
        <3>1. pc'[s] = "idle" \/ pc'[s] = "execute"
            BY <1>1, <1>2 DEF Goes, TypesOK
        <3> QED
            BY <1>3, <2>1, <3>1 DEF Doing
    <2>2. CASE r # s
        <3>1. pc'[r] = pc[r]
            BY <1>1, <2>2 DEF Goes, TypesOK
        <3> QED
            BY <3>1, DoingStays DEF Shown
    <2> QED
        BY <2>1, <2>2
<1>5. data'[Other(s)] = data[Other(s)]
    BY <1>1, <1>2 DEF TypesOK
<1> QED
    BY <1>2, <1>3, <1>4, <1>5 DEF Shown, WsTypes, Still, Sent, Upgrades

\* The first element of a message keeps the invariant.
LEMMA MessageBeginShown ==
    ASSUME Plain, Shown, NEW s \in Side, NEW e, MessageBegin(s, e)
    PROVE  Shown'
<1>1. TypesOK /\ Other(s) \in Side
    BY OtherSide DEF Plain
<1>2. /\ Execute(s, e) /\ e.half = 1 /\ Goes(s) /\ UNCHANGED <<upgrade, ws, send_list, owed, answered>>
    BY DEF MessageBegin
<1>3. /\ \A r \in Side : Doing(r)' /\ Still(r)
      /\ WsTypes' /\ (open'["client"] => session'["client"]) /\ ~upgrade[s]
      /\ data'[Other(s)] = data[Other(s)]
      /\ \A r \in Side : wire'[r] = wire[r] /\ session'[r] = session[r]
      /\ plan' = plan /\ started' = started /\ success' = success
      /\ Sent' = Sent /\ Upgrades' = Upgrades
    BY <1>2, HttpDoing
<1>4. Steady
    BY <1>2, <1>3 DEF Steady
<1>5. PICK x, y : Linked(x, y)
    BY DEF Shown
<1>6. PICK v : v = At(s, x, y)
    OBVIOUS
<1>7. StreamTo(s, v) /\ Known(s, v)
    BY <1>1, <1>5, <1>6, LinkedKnown
<1>8. PICK z : StreamTo(s, z)' /\ Stepped(z, v, 1)
    BY <1>1, <1>2, <1>3, <1>7, MessageParsed
<1>9. Advanced(z, v)
    BY <1>7, <1>8, ParsedAdvances
<1>10. StreamTo(Other(s), At(Other(s), x, y))'
    BY <1>1, <1>2, <1>3, <1>5, LinkedKnown, StreamStays
<1>11. \E x2, y2 : Linked(x2, y2)'
    BY <1>1, <1>4, <1>5, <1>6, <1>8, <1>9, <1>10, LinkedSteady
<1> QED
    BY <1>3, <1>11 DEF Shown

\* The second half of a message stands at an even place.
LEMMA SecondHalf ==
    ASSUME NEW s, NEW x, Known(s, x), NEW e, Placed(s, x, e), e.half = 2,
           NEW k \in Nat, 2 * k <= x.a
    PROVE  2 * (k + 1) <= x.a + 1
<1>1. PICK a \in Nat : a = x.a
    BY DEF Known
<1>2. (a + 1) % 2 # 1
    BY <1>1 DEF Placed
<1>3. 2 * k <= a
    BY <1>1
<1>4. 2 * (k + 1) <= a + 1
    BY <1>2, <1>3
<1> QED
    BY ONLY <1>1, <1>4

\* A response parsed keeps it: its two elements are parsed, so one more is
\* answered.
LEMMA ResponseCompleteShown ==
    ASSUME Plain, Shown, NEW e, ResponseComplete(e)
    PROVE  Shown'
<1>1. TypesOK /\ Sides
    BY BothSides DEF Plain
<1>2. /\ Execute("client", e) /\ e.half = 2 /\ e.value = "plain" /\ Goes("client")
      /\ answered' = answered + 1 /\ UNCHANGED <<upgrade, ws, send_list, owed>>
    BY DEF ResponseComplete
<1>3. /\ \A r \in Side : Doing(r)' /\ Still(r)
      /\ WsTypes' /\ (open'["client"] => session'["client"]) /\ ~upgrade["client"]
      /\ data'["server"] = data["server"]
      /\ \A r \in Side : wire'[r] = wire[r] /\ session'[r] = session[r]
      /\ plan' = plan /\ started' = started /\ success' = success
      /\ Sent' = Sent /\ Upgrades' = Upgrades
    BY <1>1, <1>2, HttpDoing DEF Sides
<1>4. PICK x, y : Linked(x, y)
    BY DEF Shown
<1>5. /\ StreamTo("client", y) /\ Known("client", y) /\ StreamTo("server", x) /\ Known("server", x)
      /\ Asked(x, y) /\ Switched(y) /\ Counted("client", x.m) /\ Counted("server", y.m)
    BY <1>1, <1>4, LinkedKnown DEF Linked
<1>6. e.value \notin Switches
    BY <1>2 DEF Switches
<1>7. Placed("client", y, e)
    BY <1>1, <1>2, <1>3, <1>5, ElementPlaced DEF Sides
<1>8. PICK z : StreamTo("client", z)' /\ Stepped(z, y, 1)
    BY <1>1, <1>2, <1>3, <1>5, <1>6, MessageParsed DEF Sides
<1>9. StreamTo("server", x)'
    BY <1>1, <1>2, <1>3, <1>5, StreamStays DEF Sides
<1>10. Asked(x, z)'
    <2>1. ~Upgrades => 2 * (answered + 1) <= y.a + 1
        <3>1. answered \in Nat
            BY <1>1 DEF TypesOK
        <3>2. ~Upgrades => 2 * answered <= y.a
            BY ONLY <1>5 DEF Asked
        <3> QED
            BY <1>2, <1>5, <1>7, <3>1, <3>2, SecondHalf
    <2>2. z.a = y.a + 1 /\ z.B = y.B
        BY ONLY <1>8 DEF Stepped
    <2> QED
        BY ONLY <1>1, <1>2, <1>3, <1>5, <2>1, <2>2 DEF Asked, Sides
<1>11. Switched(z)'
    BY <1>2, <1>3, <1>5, <1>8, SwitchedSteady DEF Stepped, Still
<1>12. Counted("client", x.m)' /\ Counted("server", z.m)'
    <2>1. z.m = y.m
        BY ONLY <1>8 DEF Stepped
    <2>2. Counted("client", x.m)' /\ Counted("server", y.m)'
        BY <1>1, <1>3, <1>5, CountedSteady DEF Sides
    <2> QED
        BY ONLY <2>1, <2>2
<1>13. \E x2, y2 : Linked(x2, y2)'
    BY <1>8, <1>9, <1>10, <1>11, <1>12 DEF Linked
<1> QED
    BY <1>3, <1>13 DEF Shown

\* A response that the server's application hands over.
LEMMA ResponseSent ==
    ASSUME Plain, NEW x, NEW y, Linked(x, y), ~Upgrades,
           Send("server", Message("response", "plain"), "response"),
           Still("client"), data'["client"] = data["client"], wire'["client"] = wire["client"]
    PROVE  /\ ~y.u /\ y.m = 0
           /\ send_list'["client"] = send_list["client"]
           /\ \E z : StreamTo("client", z)' /\ MessageAdded(z, y, "plain")
<1>1. TypesOK /\ Sides /\ session["server"]
    BY BothSides DEF Plain
<1>2. /\ StreamTo("client", y) /\ Known("client", y) /\ Known("server", x)
      /\ Asked(x, y) /\ Switched(y)
    BY <1>1, LinkedKnown DEF Linked
<1>3. ~y.u
    <2>1. ~x.u
        BY ONLY <1>2, ~Upgrades DEF Asked
    <2>2. ~upgrade["server"]
        BY ONLY <1>2, <2>1 DEF Known
    <2> QED
        BY ONLY <1>2, <2>2 DEF Switched
<1>4. y.m = 0
    BY ONLY <1>2, <1>3 DEF Known
<1>5. "plain" \notin Switches
    BY DEF Switches
<1>6. \E z : StreamTo("client", z)' /\ MessageAdded(z, y, "plain")
    BY <1>1, <1>2, <1>3, <1>5, MessageTo DEF Sides
<1>7. send_list'["client"] = send_list["client"]
    BY <1>1, SendTypes DEF Sides, TypesOK
<1> QED
    BY <1>3, <1>4, <1>6, <1>7

\* A response is under way: what that does to the links, the answers owed with
\* those under way being no more than the requests parsed.
LEMMA ResponseLinked ==
    ASSUME Plain, Plain', NEW x, NEW y, Linked(x, y), ~Upgrades,
           NEW x2, Stepped(x2, x, 0) \/ Stepped(x2, x, 1), StreamTo("server", x2)',
           NEW y2, MessageAdded(y2, y, "plain"), ~y.u, y.m = 0, StreamTo("client", y2)',
           2 * owed' + y.B[0] + 2 <= x2.a,
           plan' = plan, started' = started, session' = session, success' = success,
           answered' = answered, upgrade' = upgrade, ws' = ws
    PROVE  Linked(x2, y2)'
<1>1. TypesOK /\ Sides
    BY BothSides DEF Plain
<1>2. /\ Asked(x, y) /\ Switched(y) /\ Counted("client", x.m) /\ Counted("server", y.m)
      /\ Known("server", x) /\ Known("client", y)
    BY <1>1, LinkedKnown DEF Linked
<1>3. "plain" \notin Switches
    BY DEF Switches
<1>4. /\ y2.B[0] = y.B[0] + 2 /\ y2.a = y.a /\ y2.m = 0 /\ ~y2.u /\ y2.u = FALSE
    BY ONLY <1>3, MessageAdded(y2, y, "plain") DEF MessageAdded
<1>5. x2.B = x.B /\ x2.m = x.m /\ x2.u = x.u
    BY DEF Stepped
<1>6. Sent' = Sent /\ Upgrades' = Upgrades
    BY DEF Sent, Upgrades
<1>7. Asked(x2, y2)'
    <2>1. PICK d \in Nat : d = y.B[0]
        BY <1>2 DEF Known
    <2>2. PICK k \in Nat : k = owed'
        BY DEF Plain, TypesOK
    <2>3. 2 * k + (d + 2) <= x2.a
        <3>1. 2 * k + d + 2 <= x2.a
            BY ONLY <2>1, <2>2, 2 * owed' + y.B[0] + 2 <= x2.a
        <3>2. 2 * k + d + 2 = 2 * k + (d + 2)
            OBVIOUS
        <3> QED
            BY ONLY <3>1, <3>2
    <2>4. 2 * answered <= y.a /\ x.B[0] <= 2 * Sent /\ ~x.u
        BY ONLY <1>2, ~Upgrades DEF Asked
    <2> QED
        BY ONLY <1>4, <1>5, <1>6, <2>1, <2>2, <2>3, <2>4, ~Upgrades, answered' = answered
           DEF Asked
<1>8. Switched(y2)'
    <2>1. y2.u = y.u
        BY <1>2, <1>4 DEF Known
    <2> QED
        BY <1>2, <2>1, SwitchedSteady
<1>9. Counted("client", x2.m)' /\ Counted("server", y2.m)'
    <2>1. Counted("client", x.m)' /\ Counted("server", y.m)'
        BY <1>1, <1>2, CountedSteady DEF Sides
    <2> QED
        BY ONLY <1>4, <1>5, <2>1, y.m = 0
<1> QED
    BY <1>7, <1>8, <1>9 DEF Linked

\* An answer that the application gives later keeps the invariant.
LEMMA SendResponseShown ==
    ASSUME Plain, Plain', Shown, SendResponse
    PROVE  Shown'
<1>1. TypesOK /\ Sides
    BY BothSides DEF Plain
<1>2. /\ owed > 0 /\ owed' = owed - 1
      /\ Send("server", Message("response", "plain"), "response")
      /\ UNCHANGED <<plan, session, open, wire, data, pc, upgrade, ws, started, answered, success,
                     got>>
    BY DEF SendResponse, tcp
<1>3. PICK x, y : Linked(x, y)
    BY DEF Shown
<1>4. /\ StreamTo("server", x) /\ Asked(x, y) /\ Known("server", x) /\ Known("client", y)
    BY <1>1, <1>3, LinkedKnown DEF Linked
<1>5. ~Upgrades
    BY ONLY <1>2, <1>4 DEF Asked
<1>6. \A s \in Side : Still(s)
    BY <1>2 DEF Still
<1>7. /\ ~y.u /\ y.m = 0 /\ send_list'["client"] = send_list["client"]
      /\ \E z : StreamTo("client", z)' /\ MessageAdded(z, y, "plain")
    BY <1>1, <1>2, <1>3, <1>5, <1>6, ResponseSent DEF Sides
<1>8. PICK z : StreamTo("client", z)' /\ MessageAdded(z, y, "plain")
    BY <1>7
<1>9. StreamTo("server", x)'
    BY <1>1, <1>2, <1>4, <1>6, <1>7, StreamStays DEF Sides
<1>10. Stepped(x, x, 0)
    <2>1. x.a \in Nat
        BY <1>4 DEF Known
    <2>2. x.a = x.a + 0
        BY <2>1
    <2> QED
        BY <2>2 DEF Stepped
<1>11. 2 * owed' + y.B[0] + 2 <= x.a
    <2>1. PICK d \in Nat : d = y.B[0]
        BY <1>4 DEF Known
    <2>2. PICK a \in Nat : a = x.a
        BY <1>4 DEF Known
    <2>3. PICK k \in Nat : k = owed'
        BY DEF Plain, TypesOK
    <2>4. owed = k + 1
        BY <1>1, <1>2, <2>3 DEF TypesOK
    <2>5. 2 * (k + 1) + d <= a
        BY ONLY <1>4, <1>5, <2>1, <2>2, <2>4 DEF Asked
    <2>6. 2 * k + d + 2 <= a
        BY <2>5
    <2> QED
        BY ONLY <2>1, <2>2, <2>3, <2>6
<1>12. Linked(x, z)'
    BY <1>2, <1>3, <1>5, <1>7, <1>8, <1>9, <1>10, <1>11, ResponseLinked
<1>13. \A s \in Side : Doing(s)'
    BY <1>2, DoingStays DEF Shown
<1> QED
    BY <1>2, <1>12, <1>13 DEF Shown, WsTypes

\* A request parsed that is not the handshake: the handshake is not begun.
LEMMA NotTheHandshake ==
    ASSUME Plain, Shown, NEW e, RequestComplete(e)
    PROVE  ~Upgrades
<1>1. TypesOK /\ Sides
    BY BothSides DEF Plain
<1>2. /\ Execute("server", e) /\ e.half = 2 /\ e.value # "upgrade" /\ pc["server"] = "execute"
    BY DEF RequestComplete, Execute
<1>3. ~upgrade["server"]
    BY <1>1, <1>2 DEF Shown, Doing, Sides
<1>4. PICK x, y : Linked(x, y)
    BY DEF Shown
<1>5. StreamTo("server", x) /\ Known("server", x) /\ Asked(x, y)
    BY <1>1, <1>4, LinkedKnown DEF Linked
<1>6. Placed("server", x, e)
    BY <1>1, <1>2, <1>3, <1>5, ElementPlaced DEF Sides
<1>7. e.value \notin Switches
    BY <1>2, <1>6 DEF Placed, Switches
<1>8. PICK a \in Nat : a = x.a
    BY <1>5 DEF Known
<1>9. PICK c \in Nat : c = x.B[0]
    BY <1>5 DEF Known
<1>10. a < c /\ (a + 1) % 2 # 1 /\ ~(x.u /\ c < a + 1 + 2)
    BY ONLY <1>2, <1>6, <1>7, <1>8, <1>9 DEF Placed
<1>11. ~(c <= a) /\ (c <= a + 2 => c < a + 1 + 2)
    BY <1>10
<1> QED
    BY ONLY <1>5, <1>8, <1>9, <1>10, <1>11 DEF Asked

\* A request parsed keeps it, answered at once or owed.
LEMMA RequestCompleteShown ==
    ASSUME Plain, Plain', Shown, NEW e, RequestComplete(e)
    PROVE  Shown'
<1>1. TypesOK /\ Sides
    BY BothSides DEF Plain
<1>2. /\ Execute("server", e) /\ e.half = 2 /\ e.value # "upgrade" /\ Goes("server")
      /\ UNCHANGED <<upgrade, ws, answered>>
      /\ \/ owed' = owed + 1 /\ UNCHANGED send_list
         \/ owed = 0 /\ Send("server", Message("response", "plain"), "response") /\ UNCHANGED owed
    BY DEF RequestComplete
<1>3. /\ \A r \in Side : Doing(r)' /\ Still(r)
      /\ WsTypes' /\ (open'["client"] => session'["client"]) /\ ~upgrade["server"]
      /\ data'["client"] = data["client"]
      /\ \A r \in Side : wire'[r] = wire[r] /\ session'[r] = session[r]
      /\ plan' = plan /\ started' = started /\ success' = success
      /\ Sent' = Sent /\ Upgrades' = Upgrades
    BY <1>1, <1>2, HttpDoing DEF Sides
<1>4. session' = session
    BY <1>2 DEF Execute, tcp
<1>5. PICK x, y : Linked(x, y)
    BY DEF Shown
<1>6. /\ StreamTo("client", y) /\ Known("client", y) /\ StreamTo("server", x) /\ Known("server", x)
      /\ Asked(x, y) /\ Switched(y) /\ Counted("client", x.m) /\ Counted("server", y.m)
    BY <1>1, <1>5, LinkedKnown DEF Linked
<1>7. Placed("server", x, e)
    BY <1>1, <1>2, <1>3, <1>6, ElementPlaced DEF Sides
<1>8. e.value \notin Switches
    BY <1>2, <1>7 DEF Placed, Switches
<1>9. PICK a \in Nat : a = x.a
    BY <1>6 DEF Known
<1>10. PICK c \in Nat : c = x.B[0]
    BY <1>6 DEF Known
<1>11. PICK d \in Nat : d = y.B[0] /\ d % 2 = 0
    BY <1>6 DEF Known
<1>12. a < c /\ (a + 1) % 2 # 1 /\ ~(x.u /\ c < a + 1 + 2)
    BY ONLY <1>2, <1>7, <1>8, <1>9, <1>10 DEF Placed
<1>13. ~Upgrades
    BY NotTheHandshake
<1>14. 2 * owed + d <= a
    BY ONLY <1>6, <1>9, <1>11, <1>13 DEF Asked
<1>15. 2 * owed + d + 2 <= a + 1 /\ 2 * (owed + 1) + d <= a + 1
    <2>1. PICK k \in Nat : k = owed
        BY <1>1 DEF TypesOK
    <2>2. 2 * k + d + 2 <= a + 1 /\ 2 * (k + 1) + d <= a + 1
        BY <1>11, <1>12, <1>14, <2>1
    <2> QED
        BY ONLY <2>1, <2>2
<1>16. ASSUME send_list'["client"] = send_list["client"]
       PROVE  \E z : StreamTo("server", z)' /\ Stepped(z, x, 1)
    BY <1>1, <1>2, <1>3, <1>6, <1>8, <1>16, MessageParsed DEF Sides
<1>17. CASE owed' = owed + 1 /\ UNCHANGED send_list
    <2>1. PICK z : StreamTo("server", z)' /\ Stepped(z, x, 1)
        BY <1>16, <1>17
    <2>2. StreamTo("client", y)'
        BY <1>1, <1>3, <1>6, <1>17, StreamStays DEF Sides
    <2>3. Asked(z, y)'
        <3>1. z.a = a + 1 /\ z.B = x.B /\ z.u = x.u
            BY ONLY <1>9, <2>1 DEF Stepped
        <3>2. 2 * owed' + d <= z.a
            BY ONLY <1>15, <1>17, <3>1
        <3>3. 2 * answered <= y.a /\ x.B[0] <= 2 * Sent /\ ~x.u
            BY ONLY <1>6, <1>13 DEF Asked
        <3> QED
            BY ONLY <1>2, <1>3, <1>11, <1>13, <3>1, <3>2, <3>3 DEF Asked
    <2>4. Switched(y)'
        BY <1>2, <1>3, <1>6, SwitchedSteady
    <2>5. Counted("client", z.m)' /\ Counted("server", y.m)'
        <3>1. z.m = x.m
            BY ONLY <2>1 DEF Stepped
        <3>2. Counted("client", x.m)' /\ Counted("server", y.m)'
            BY <1>1, <1>3, <1>6, CountedSteady DEF Sides
        <3> QED
            BY ONLY <3>1, <3>2
    <2>6. \E x2, y2 : Linked(x2, y2)'
        BY <2>1, <2>2, <2>3, <2>4, <2>5 DEF Linked
    <2> QED
        BY <1>3, <2>6 DEF Shown
<1>18. CASE owed = 0 /\ Send("server", Message("response", "plain"), "response") /\ UNCHANGED owed
    <2>1. /\ ~y.u /\ y.m = 0 /\ send_list'["client"] = send_list["client"]
          /\ \E z : StreamTo("client", z)' /\ MessageAdded(z, y, "plain")
        BY <1>1, <1>3, <1>5, <1>13, <1>18, ResponseSent DEF Sides
    <2>2. PICK y2 : StreamTo("client", y2)' /\ MessageAdded(y2, y, "plain")
        BY <2>1
    <2>3. PICK z : StreamTo("server", z)' /\ Stepped(z, x, 1)
        BY <1>16, <2>1
    <2>4. 2 * owed' + y.B[0] + 2 <= z.a
        <3>1. z.a = a + 1
            BY ONLY <1>9, <2>3 DEF Stepped
        <3> QED
            BY ONLY <1>11, <1>15, <1>18, <3>1
    <2>5. Linked(z, y2)'
        BY <1>2, <1>3, <1>4, <1>5, <1>13, <2>1, <2>2, <2>3, <2>4, ResponseLinked
    <2> QED
        BY <1>3, <2>5 DEF Shown
<1> QED
    BY <1>2, <1>17, <1>18

\* The end of the handshake keeps it.
LEMMA UpgradeShown ==
    ASSUME Plain, Shown, NEW s \in Side, NEW e, UpgradeComplete(s, e)
    PROVE  Shown'
<1>1. TypesOK /\ WsTypes /\ Sides /\ Other(s) \in Side /\ Other(s) # s
    BY BothSides, OtherSide DEF Plain, Shown
<1>2. /\ UNCHANGED <<plan, session, open, wire, send_list, started, owed, answered, success, got>>
      /\ pc[s] = "execute" /\ pc' = [pc EXCEPT ![s] = "try_ws_parse"]
      /\ upgrade' = [upgrade EXCEPT ![s] = TRUE]
      /\ ws' = [ws EXCEPT ![s].key = s = "server", ![s].accept = s = "client"]
      /\ data' = [data EXCEPT ![s] = Tail(@)]
    BY DEF UpgradeComplete, Execute, tcp
<1>3. ~upgrade[s] /\ ~ws[s].key /\ ~ws[s].accept
    BY <1>2 DEF Shown, Doing
<1>4. /\ ws' \in [Side -> WsState] /\ \A r \in Side : r # s => ws'[r] = ws[r]
      /\ (ws'[s].key <=> s = "server") /\ (ws'[s].accept <=> s = "client")
    <2>1. PICK w \in WsState : w = ws[s]
        BY <1>1 DEF WsTypes
    <2>2. PICK k \in BOOLEAN : k = (s = "server")
        OBVIOUS
    <2>3. PICK a \in BOOLEAN : a = (s = "client")
        OBVIOUS
    <2>4. PICK w2 : w2 = [w EXCEPT !.key = k, !.accept = a]
        OBVIOUS
    <2>5. w2 \in WsState /\ w2.key = k /\ w2.accept = a
        BY <2>4 DEF WsState
    <2>6. ws' = [ws EXCEPT ![s] = w2]
        BY <1>1, <1>2, <2>1, <2>2, <2>3, <2>4 DEF WsTypes
    <2>7. ws' \in [Side -> WsState] /\ ws'[s] = w2 /\ \A r \in Side : r # s => ws'[r] = ws[r]
        BY <1>1, <2>5, <2>6 DEF WsTypes
    <2> QED
        BY ONLY <2>2, <2>3, <2>5, <2>7
<1>5. /\ upgrade'[s] /\ pc'[s] = "try_ws_parse"
      /\ \A r \in Side : r # s => upgrade'[r] = upgrade[r] /\ pc'[r] = pc[r] /\ data'[r] = data[r]
    BY <1>1, <1>2 DEF TypesOK
<1>6. ASSUME NEW r \in Side PROVE Doing(r)'
    <2>1. CASE r = s
        BY <1>5, <2>1 DEF Doing
    <2>2. CASE r # s
        BY <1>4, <1>5, <2>2, DoingStays DEF Shown
    <2> QED
        BY <2>1, <2>2
<1>7. PICK x, y : Linked(x, y)
    BY DEF Shown
<1>8. /\ StreamTo("client", y) /\ Known("client", y) /\ StreamTo("server", x) /\ Known("server", x)
      /\ Asked(x, y) /\ Switched(y) /\ Counted("client", x.m) /\ Counted("server", y.m)
    BY <1>1, <1>7, LinkedKnown DEF Linked
<1>9. PICK v : v = At(s, x, y)
    OBVIOUS
<1>10. StreamTo(s, v) /\ Known(s, v)
    BY <1>1, <1>7, <1>9, LinkedKnown
<1>11. PICK z : StreamTo(s, z)' /\ Stepped(z, v, 1)
    BY <1>1, <1>3, <1>10, UpgradeParsed
<1>12. Advanced(z, v)
    BY <1>10, <1>11, ParsedAdvances
<1>13. StreamTo(Other(s), At(Other(s), x, y))'
    <2>1. StreamTo(Other(s), At(Other(s), x, y))
        BY <1>1, <1>7, LinkedKnown
    <2>2. Still(Other(s)) /\ data'[Other(s)] = data[Other(s)]
        BY <1>1, <1>2, <1>4, <1>5 DEF Still
    <2> QED
        BY <1>2, <2>1, <2>2, StreamStays
<1>14. Sent' = Sent /\ Upgrades' = Upgrades
    BY <1>2 DEF Sent, Upgrades
<1>15. \A u \in Side : \A m : Counted(u, m) => Counted(u, m)'
    BY <1>2, CountedSteady
<1>16. Advanced(x, x) /\ Advanced(y, y)
    <2>1. x.a \in Nat /\ y.a \in Nat
        BY <1>8 DEF Known
    <2>2. x.a <= x.a /\ y.a <= y.a
        BY <2>1
    <2> QED
        BY <2>1, <2>2 DEF Advanced
<1>17. CASE s = "server"
    <2>1. v = x /\ At(Other(s), x, y) = y /\ Other(s) = "client"
        BY <1>1, <1>9, <1>17 DEF At, Sides
    <2>2. Asked(z, y)'
        BY <1>1, <1>2, <1>7, <1>12, <1>14, <1>16, <2>1, AskedSteady
    <2>3. Switched(y)'
        <3>1. /\ upgrade'["server"] /\ ws'["server"].key /\ ~ws'["server"].accept
              /\ upgrade'["client"] = upgrade["client"] /\ ws'["client"] = ws["client"]
            BY <1>1, <1>4, <1>5, <1>17 DEF Sides
        <3>2. ~y.u
            BY ONLY <1>3, <1>8, <1>17 DEF Switched
        <3> QED
            BY ONLY <1>2, <1>8, <3>1, <3>2 DEF Switched
    <2>4. Counted("client", z.m)' /\ Counted("server", y.m)'
        <3>1. z.m = x.m
            BY ONLY <1>11, <2>1 DEF Stepped
        <3> QED
            BY <1>1, <1>8, <1>15, <3>1 DEF Sides
    <2>5. Linked(z, y)'
        BY ONLY <1>11, <1>13, <1>17, <2>1, <2>2, <2>3, <2>4 DEF Linked
    <2> QED
        BY <1>2, <1>4, <1>6, <2>5 DEF Shown, WsTypes
<1>18. CASE s = "client"
    <2>1. v = y /\ At(Other(s), x, y) = x /\ Other(s) = "server"
        BY <1>1, <1>9, <1>18 DEF At, Sides
    <2>2. Asked(x, z)'
        BY <1>1, <1>2, <1>7, <1>12, <1>14, <1>16, <2>1, AskedSteady
    <2>3. Switched(z)'
        <3>1. /\ upgrade'["client"] /\ ws'["client"].accept /\ ~ws'["client"].key
              /\ upgrade'["server"] = upgrade["server"] /\ ws'["server"] = ws["server"]
            BY <1>1, <1>4, <1>5, <1>18 DEF Sides
        <3>2. success["client"] = 0
            BY ONLY <1>3, <1>8, <1>18 DEF Switched
        <3>3. z.u = y.u /\ (Past(z) <=> Past(y))
            BY ONLY <1>11, <2>1 DEF Stepped
        <3> QED
            BY ONLY <1>2, <1>8, <3>1, <3>2, <3>3 DEF Switched
    <2>4. Counted("client", x.m)' /\ Counted("server", z.m)'
        <3>1. z.m = y.m
            BY ONLY <1>11, <2>1 DEF Stepped
        <3> QED
            BY <1>1, <1>8, <1>15, <3>1 DEF Sides
    <2>5. Linked(x, z)'
        BY ONLY <1>11, <1>13, <1>18, <2>1, <2>2, <2>3, <2>4 DEF Linked
    <2> QED
        BY <1>2, <1>4, <1>6, <2>5 DEF Shown, WsTypes
<1> QED
    BY <1>17, <1>18 DEF Side

\* So does what try_ws_parse does of the handshake that is due.
LEMMA HandshakeShown ==
    ASSUME Plain, Shown, NEW s \in Side, WsHandshake(s)
    PROVE  Shown'
<1>1. TypesOK /\ WsTypes /\ Sides /\ Other(s) \in Side /\ Other(s) # s /\ session["server"]
    BY BothSides, OtherSide DEF Plain, Shown
<1>2. /\ UNCHANGED <<plan, session, open, wire, data, upgrade, started, owed, answered, got>>
      /\ pc[s] = "try_ws_parse" /\ pc' = [pc EXCEPT ![s] = "frames"]
    BY DEF WsHandshake, WsIn, tcp
<1>3. upgrade[s]
    BY <1>2 DEF Shown, Doing
<1>4. PICK x, y : Linked(x, y)
    BY DEF Shown
<1>5. /\ StreamTo("client", y) /\ Known("client", y) /\ StreamTo("server", x) /\ Known("server", x)
      /\ Asked(x, y) /\ Switched(y) /\ Counted("client", x.m) /\ Counted("server", y.m)
    BY <1>1, <1>4, LinkedKnown DEF Linked
<1>6. send_list'[Other(s)] = send_list[Other(s)]
    <2>1. UNCHANGED send_list \/ Send(s, Message("response", "switch"), "ack")
        BY <1>1, WsHandshakeTypes
    <2> QED
        BY <1>1, <2>1, SendTypes DEF TypesOK
<1>7. PICK v : v = At(s, x, y)
    OBVIOUS
<1>8. StreamTo(s, v)
    BY <1>1, <1>4, <1>7, LinkedKnown
<1>9. /\ StreamTo(s, v)' /\ ws' \in [Side -> WsState]
      /\ ws' = [ws EXCEPT ![s] = ws'[s]] /\ ~ws'[s].key /\ ~ws'[s].accept
    BY <1>1, <1>3, <1>6, <1>8, HandshakeRead
<1>10. \A r \in Side : r # s => ws'[r] = ws[r] /\ pc'[r] = pc[r]
    BY <1>1, <1>2, <1>9 DEF TypesOK, WsTypes
<1>11. ASSUME NEW r \in Side PROVE Doing(r)'
    <2>1. CASE r = s
        <3>1. pc'[s] = "frames"
            BY <1>1, <1>2 DEF TypesOK
        <3> QED
            BY <1>2, <1>3, <1>9, <2>1, <3>1 DEF Doing
    <2>2. CASE r # s
        BY <1>2, <1>10, <2>2, DoingStays DEF Shown
    <2> QED
        BY <2>1, <2>2
<1>12. Sent' = Sent /\ Upgrades' = Upgrades
    BY <1>2 DEF Sent, Upgrades
<1>13. Advanced(x, x) /\ Advanced(y, y)
    <2>1. x.a \in Nat /\ y.a \in Nat
        BY <1>5 DEF Known
    <2>2. x.a <= x.a /\ y.a <= y.a
        BY <2>1
    <2> QED
        BY <2>1, <2>2 DEF Advanced
<1>14. Asked(x, y)'
    BY <1>1, <1>2, <1>4, <1>12, <1>13, AskedSteady
<1>15. WsTypes' /\ (open'["client"] => session'["client"])
    BY <1>2, <1>9 DEF Shown, WsTypes
<1>16. ASSUME Still(Other(s)), send_list' = send_list, NEW u, u = At(Other(s), x, y)
       PROVE  StreamTo(Other(s), u)'
    <2>1. StreamTo(Other(s), u)
        BY <1>1, <1>4, <1>16, LinkedKnown
    <2> QED
        BY <1>2, <1>16, <2>1, StreamStays
<1>17. Still(Other(s))
    BY <1>1, <1>2, <1>10 DEF Still
<1>18. CASE s = "server"
    <2>1. v = x /\ At(Other(s), x, y) = y /\ Other(s) = "client" /\ ~ws["server"].accept
          /\ ws'["client"] = ws["client"]
        BY <1>1, <1>5, <1>7, <1>10, <1>18 DEF At, Sides, Switched
    <2>2. CASE ws["server"].key
        <3>1. Send("server", Message("response", "switch"), "ack") /\ success' = success
            BY <1>18, <2>2 DEF WsHandshake
        <3>2. ~y.u
            BY ONLY <1>5, <2>2 DEF Switched
        <3>3. "switch" \in Switches
            BY DEF Switches
        <3>4. Still("client") /\ data'["client"] = data["client"] /\ wire'["client"] = wire["client"]
            BY <1>2, <1>17, <2>1
        <3>5. \E z : StreamTo("client", z)' /\ MessageAdded(z, y, "switch")
            BY <1>1, <1>5, <3>1, <3>2, <3>3, <3>4, MessageTo DEF Sides
        <3>6. PICK z : StreamTo("client", z)' /\ MessageAdded(z, y, "switch")
            BY <3>5
        <3>7. z.u /\ z.u = TRUE /\ z.m = 0 /\ ~Past(z)
            BY ONLY <3>3, <3>6 DEF MessageAdded
        <3>8. Upgrades
            <4>1. x.u
                BY ONLY <1>3, <1>5, <1>18 DEF Known
            <4> QED
                BY ONLY <1>5, <4>1 DEF Asked
        <3>9. Asked(x, z)'
            BY ONLY <1>14, <1>12, <3>8 DEF Asked
        <3>10. Switched(z)'
            <4>1. success["server"] = 0
                BY ONLY <1>5, <3>2 DEF Switched
            <4>2. upgrade'["server"] /\ ~ws'["server"].key /\ ~ws'["server"].accept
                BY ONLY <1>2, <1>3, <1>9, <1>18
            <4> QED
                BY ONLY <1>2, <1>5, <2>1, <3>1, <3>7, <4>1, <4>2 DEF Switched
        <3>11. Counted("client", x.m)' /\ Counted("server", z.m)'
            <4>1. y.m = 0
                BY ONLY <1>5, <3>2 DEF Known
            <4>2. Counted("client", x.m)' /\ Counted("server", y.m)'
                BY <1>1, <1>2, <1>5, <3>1, CountedSteady DEF Sides
            <4> QED
                BY ONLY <3>7, <4>1, <4>2
        <3>12. Linked(x, z)'
            BY ONLY <1>9, <1>18, <2>1, <3>6, <3>9, <3>10, <3>11 DEF Linked
        <3> QED
            BY <1>11, <1>15, <3>12 DEF Shown
    <2>3. CASE ~ws["server"].key
        <3>1. send_list' = send_list /\ success' = success
            BY <1>18, <2>1, <2>3 DEF WsHandshake
        <3>2. StreamTo("client", y)'
            BY <1>16, <1>17, <2>1, <3>1
        <3>3. Switched(y)'
            <4>1. /\ upgrade'["server"] /\ ~ws'["server"].key /\ ~ws'["server"].accept
                  /\ upgrade["server"]
                BY ONLY <1>2, <1>3, <1>9, <1>18
            <4> QED
                BY ONLY <1>2, <1>5, <2>1, <2>3, <3>1, <4>1 DEF Switched
        <3>4. Counted("client", x.m)' /\ Counted("server", y.m)'
            BY <1>1, <1>2, <1>5, <3>1, CountedSteady DEF Sides
        <3>5. Linked(x, y)'
            BY ONLY <1>9, <1>14, <1>18, <2>1, <3>2, <3>3, <3>4 DEF Linked
        <3> QED
            BY <1>11, <1>15, <3>5 DEF Shown
    <2> QED
        BY <2>2, <2>3
<1>19. CASE s = "client"
    <2>1. v = y /\ At(Other(s), x, y) = x /\ Other(s) = "server" /\ ~ws["client"].key
          /\ ws'["server"] = ws["server"]
        BY <1>1, <1>5, <1>7, <1>10, <1>19 DEF At, Sides, Switched
    <2>2. /\ send_list' = send_list
          /\ IF ws["client"].accept THEN success' = [success EXCEPT !["client"] = @ + 1]
             ELSE success' = success
        BY <1>19, <2>1 DEF WsHandshake
    <2>3. success'["client"] = 1 /\ success'["server"] = success["server"]
        <3>1. success["client"] = IF ws["client"].accept THEN 0 ELSE 1
            BY ONLY <1>3, <1>5, <1>19 DEF Switched
        <3>2. DOMAIN success = Side /\ "client" \in Side /\ "server" \in Side
            BY <1>1 DEF TypesOK, Sides
        <3>3. CASE ws["client"].accept
            BY <1>1, <2>2, <3>1, <3>2, <3>3 DEF Sides
        <3>4. CASE ~ws["client"].accept
            BY <2>2, <3>1, <3>4
        <3> QED
            BY <3>3, <3>4
    <2>4. StreamTo("server", x)'
        BY <1>16, <1>17, <2>1, <2>2
    <2>5. Switched(y)'
        <3>1. upgrade'["client"] /\ ~ws'["client"].key /\ ~ws'["client"].accept
            BY ONLY <1>2, <1>3, <1>9, <1>19
        <3> QED
            BY ONLY <1>2, <1>5, <2>1, <2>3, <3>1 DEF Switched
    <2>6. Counted("client", x.m)' /\ Counted("server", y.m)'
        BY <1>1, <1>2, <1>5, <2>3, CountedSteady DEF Sides
    <2>7. Linked(x, y)'
        BY ONLY <1>9, <1>14, <1>19, <2>1, <2>4, <2>5, <2>6 DEF Linked
    <2> QED
        BY <1>11, <1>15, <2>7 DEF Shown
<1> QED
    BY <1>18, <1>19 DEF Side

\* Writing a part of the stream or a whole packet of it.
LEMMA KeptLinked ==
    ASSUME TypesOK, NEW x, NEW y, Linked(x, y), NEW x2, NEW y2, Kept(x2, x), Kept(y2, y),
           plan' = plan, started' = started, session' = session, owed' = owed,
           answered' = answered, upgrade' = upgrade, ws' = ws,
           StreamTo("server", x2)', StreamTo("client", y2)',
           Handed("client", y2, y)
    PROVE  Linked(x2, y2)'
<1>1. Sides
    BY BothSides
<1>2. Asked(x, y) /\ Switched(y) /\ Counted("client", x.m) /\ Counted("server", y.m)
    BY DEF Linked
<1>3. Sent' = Sent /\ Upgrades' = Upgrades
    BY DEF Sent, Upgrades
<1>4. Asked(x2, y2)'
    BY ONLY <1>2, <1>3, Kept(x2, x), Kept(y2, y), plan' = plan, session' = session, owed' = owed,
            answered' = answered DEF Asked, Kept
<1>5. CASE y.u /\ ~Past(y) /\ Past(y2)
    <2>1. success["server"] = 0 /\ success' = [success EXCEPT !["server"] = @ + 1]
        BY <1>2, <1>5 DEF Switched, Handed
    <2>2. success'["server"] = 1 /\ success'["client"] = success["client"]
        BY <1>1, <2>1 DEF TypesOK, Sides
    <2>3. y2.u = y.u
        BY ONLY Kept(y2, y) DEF Kept
    <2>4. Switched(y2)'
        BY ONLY <1>2, <1>5, <2>2, <2>3, upgrade' = upgrade, ws' = ws DEF Switched
    <2>5. Counted("client", x.m)' /\ Counted("server", y.m)'
        BY <1>1, <1>2, <2>1, <2>2, CountedSteady DEF Sides
    <2>6. Counted("client", x2.m)' /\ Counted("server", y2.m)'
        BY ONLY <2>5, Kept(x2, x), Kept(y2, y) DEF Kept
    <2> QED
        BY <1>4, <2>4, <2>6 DEF Linked
<1>6. CASE ~(y.u /\ ~Past(y) /\ Past(y2))
    <2>1. success' = success /\ (y.u => (Past(y2) <=> Past(y)))
        BY <1>6 DEF Handed
    <2>2. y2.u = y.u
        BY ONLY Kept(y2, y) DEF Kept
    <2>3. Switched(y2)'
        BY <1>2, <2>1, <2>2, SwitchedSteady
    <2>4. Counted("client", x.m)' /\ Counted("server", y.m)'
        BY <1>1, <1>2, <2>1, CountedSteady DEF Sides
    <2>5. Counted("client", x2.m)' /\ Counted("server", y2.m)'
        BY ONLY <2>4, Kept(x2, x), Kept(y2, y) DEF Kept
    <2> QED
        BY <1>4, <2>3, <2>5 DEF Linked
<1> QED
    BY <1>5, <1>6

\* A write keeps the invariant.
LEMMA FlushShown ==
    ASSUME Plain, Shown, NEW s \in Side, Flush(s)
    PROVE  Shown'
<1>1. TypesOK /\ Sides
    BY BothSides DEF Plain
<1>2. /\ UNCHANGED <<plan, session, open, data, pc, upgrade, ws, started, owed, answered, got>>
    BY DEF Flush
<1>3. PICK x, y : Linked(x, y)
    BY DEF Shown
<1>4. StreamTo("server", x) /\ StreamTo("client", y)
    BY <1>3 DEF Linked
<1>5. \A r \in Side : Still(r) /\ data'[r] = data[r]
    BY <1>2 DEF Still
<1>6. \A r \in Side : Doing(r)'
    BY <1>2, DoingStays DEF Shown
<1>7. Kept(x, x) /\ Kept(y, y)
    BY DEF Kept
<1>8. CASE s = "server"
    <2>1. /\ \E z : StreamTo("client", z)' /\ Kept(z, y) /\ Handed("client", z, y)
          /\ wire'["server"] = wire["server"] /\ send_list'["client"] = send_list["client"]
        BY <1>1, <1>4, <1>8, Written DEF Sides
    <2>2. PICK z : StreamTo("client", z)' /\ Kept(z, y) /\ Handed("client", z, y)
        BY <2>1
    <2>3. StreamTo("server", x)'
        BY <1>1, <1>4, <1>5, <2>1, StreamStays DEF Sides
    <2>4. Linked(x, z)'
        BY <1>1, <1>2, <1>3, <1>7, <2>2, <2>3, KeptLinked
    <2> QED
        BY <1>2, <1>6, <2>4 DEF Shown, WsTypes
<1>9. CASE s = "client"
    <2>1. /\ \E z : StreamTo("server", z)' /\ Kept(z, x) /\ Handed("server", z, x)
          /\ wire'["client"] = wire["client"] /\ send_list'["server"] = send_list["server"]
        BY <1>1, <1>4, <1>9, Written DEF Sides
    <2>2. PICK z : StreamTo("server", z)' /\ Kept(z, x) /\ Handed("server", z, x)
        BY <2>1
    <2>3. StreamTo("client", y)'
        BY <1>1, <1>4, <1>5, <2>1, StreamStays DEF Sides
    <2>4. Handed("client", y, y)
        BY <1>1, <2>2 DEF Handed, Sides
    <2>5. Linked(z, y)'
        BY <1>1, <1>2, <1>3, <1>7, <2>2, <2>3, <2>4, KeptLinked
    <2> QED
        BY <1>2, <1>6, <2>5 DEF Shown, WsTypes
<1> QED
    BY <1>8, <1>9 DEF Side

\* One more frame of side s is begun.
LEMMA FrameStarted ==
    ASSUME TypesOK, NEW s \in Side, NEW n \in Nat, started' = [started EXCEPT ![s].frames = n]
    PROVE  started'[s].frames = n /\ \A r \in Side : r # s => started'[r] = started[r]
<1>1. PICK w \in Begun : w = started[s]
    BY DEF TypesOK, Begun
<1>2. PICK w2 : w2 = [w EXCEPT !.frames = n]
    OBVIOUS
<1>3. w2.frames = n
    BY <1>2 DEF Begun
<1>4. started' = [started EXCEPT ![s] = w2]
    BY <1>1, <1>2
<1> QED
    BY <1>3, <1>4 DEF TypesOK

\* A frame is begun: what that does to the links.
LEMMA FrameLinked ==
    ASSUME TypesOK, NEW x, NEW y, Linked(x, y), NEW s \in Side, success[s] = 1,
           NEW n, n = started[s].frames + 1, n <= Len(plan.frames[s]),
           started' = [started EXCEPT ![s].frames = n],
           NEW x2, NEW y2, StreamTo("server", x2)', StreamTo("client", y2)',
           x2 = x \/ (s = "client" /\ FrameAdded(x2, x)),
           y2 = y \/ (s = "server" /\ FrameAdded(y2, y)),
           session[s] => FrameAdded(At(Other(s), x2, y2), At(Other(s), x, y)),
           plan' = plan, session' = session, owed' = owed, success' = success,
           answered' = answered, upgrade' = upgrade, ws' = ws
    PROVE  Linked(x2, y2)'
<1>1. Sides
    BY BothSides
<1>2. /\ Asked(x, y) /\ Switched(y) /\ Counted("client", x.m) /\ Counted("server", y.m)
      /\ Known("server", x) /\ Known("client", y)
    BY LinkedKnown DEF Linked
<1>3. /\ x2.B[0] = x.B[0] /\ x2.a = x.a /\ x2.u = x.u
      /\ y2.B[0] = y.B[0] /\ y2.a = y.a /\ y2.u = y.u /\ (Past(y2) <=> Past(y))
    BY DEF FrameAdded
<1>4. n \in Nat /\ started[s].frames \in Nat /\ started[s].frames <= n
    BY DEF TypesOK
<1>5. Sent' = Sent /\ Upgrades' = Upgrades
    BY FrameBegins
<1>6. started'[s].frames = n /\ \A r \in Side : r # s => started'[r] = started[r]
    BY <1>4, FrameStarted
<1>7. Asked(x2, y2)'
    BY ONLY <1>2, <1>3, <1>5, plan' = plan, session' = session, owed' = owed,
            answered' = answered DEF Asked
<1>8. Switched(y2)'
    BY <1>2, <1>3, SwitchedSteady
<1>9. ASSUME NEW m \in Nat, Counted(s, m), NEW m2,
             m2 = m \/ m2 = m + 1, session[s] => m2 = m + 1
      PROVE  Counted(s, m2)'
    <2>1. PICK k \in Nat : k = started[s].frames
        BY <1>4
    <2>2. m <= k /\ (session[s] => m = k)
        BY ONLY <1>9, <2>1 DEF Counted
    <2>3. m2 <= k + 1 /\ (session[s] => m2 = k + 1)
        BY <1>9, <2>2
    <2>4. n = k + 1
        BY <2>1
    <2> QED
        BY ONLY <1>6, <2>3, <2>4, n <= Len(plan.frames[s]), plan' = plan, session' = session,
                success' = success, success[s] = 1 DEF Counted
<1>10. ASSUME NEW r \in Side, r # s, NEW m, Counted(r, m) PROVE Counted(r, m)'
    BY <1>6, <1>10, CountedSteady
<1>11. CASE s = "server"
    <2>1. x2 = x
        BY <1>1, <1>11 DEF Sides
    <2>2. session[s] => FrameAdded(y2, y)
        BY <1>1, <1>11 DEF Sides, At
    <2>3. (y2.m = y.m \/ y2.m = y.m + 1) /\ (session[s] => y2.m = y.m + 1)
        BY ONLY <2>2, y2 = y \/ (s = "server" /\ FrameAdded(y2, y)) DEF FrameAdded
    <2>4. Counted("server", y2.m)'
        <3>1. y.m \in Nat
            BY ONLY <1>2 DEF Known
        <3> QED
            BY <1>2, <1>9, <1>11, <2>3, <3>1
    <2>5. Counted("client", x2.m)'
        BY <1>1, <1>2, <1>10, <1>11, <2>1 DEF Sides
    <2> QED
        BY <1>7, <1>8, <2>4, <2>5 DEF Linked
<1>12. CASE s = "client"
    <2>1. y2 = y
        BY <1>1, <1>12 DEF Sides
    <2>2. session[s] => FrameAdded(x2, x)
        BY <1>1, <1>12 DEF Sides, At
    <2>3. (x2.m = x.m \/ x2.m = x.m + 1) /\ (session[s] => x2.m = x.m + 1)
        BY ONLY <2>2, x2 = x \/ (s = "client" /\ FrameAdded(x2, x)) DEF FrameAdded
    <2>4. Counted("client", x2.m)'
        <3>1. x.m \in Nat
            BY ONLY <1>2 DEF Known
        <3> QED
            BY <1>2, <1>9, <1>12, <2>3, <3>1
    <2>5. Counted("server", y2.m)'
        BY <1>1, <1>2, <1>10, <1>12, <2>1 DEF Sides
    <2> QED
        BY <1>7, <1>8, <2>4, <2>5 DEF Linked
<1> QED
    BY <1>11, <1>12 DEF Side

\* A frame that an application sends keeps the invariant: the handshake is over.
LEMMA SendFrameShown ==
    ASSUME Plain, Shown, NEW s \in Side, SendWsFrame(s)
    PROVE  Shown'
<1>1. TypesOK /\ Sides /\ Other(s) \in Side /\ Other(s) # s /\ Other(Other(s)) = s
    BY BothSides, OtherSide DEF Plain
<1>2. PICK n : n = started[s].frames + 1
    OBVIOUS
<1>3. /\ success[s] > 0 /\ n <= Len(plan.frames[s])
      /\ started' = [started EXCEPT ![s].frames = n]
      /\ UNCHANGED <<plan, session, open, wire, data, pc, upgrade, ws, owed, answered, success, got>>
    BY <1>2 DEF SendWsFrame, tcp
<1>4. PICK key \in MaskKeys : Send(s, Bytes(FrameString(plan.frames[s][n], key)), "none")
    BY <1>2 DEF SendWsFrame
<1>5. PICK x, y : Linked(x, y)
    BY DEF Shown
<1>6. /\ StreamTo("client", y) /\ Known("client", y) /\ StreamTo("server", x) /\ Known("server", x)
      /\ Switched(y) /\ Counted("client", x.m) /\ Counted("server", y.m)
    BY <1>1, <1>5, LinkedKnown DEF Linked
<1>7. success[s] = 1 /\ x.u /\ y.u
    <2>1. success["client"] = 0 \/ (success["client"] = 1 /\ upgrade["client"])
        BY ONLY <1>6 DEF Switched
    <2>2. success["server"] = 0 \/ (success["server"] = 1 /\ y.u)
        BY ONLY <1>6 DEF Switched
    <2>3. upgrade["client"] => y.u
        BY ONLY <1>6 DEF Known
    <2>4. y.u => x.u
        BY ONLY <1>6 DEF Known, Switched
    <2> QED
        BY <1>1, <1>3, <2>1, <2>2, <2>3, <2>4 DEF Side
<1>8. PICK v : v = At(Other(s), x, y)
    OBVIOUS
<1>9. StreamTo(Other(s), v) /\ v.u
    BY <1>1, <1>5, <1>7, <1>8, LinkedKnown DEF At
<1>10. \A r \in Side : Still(r) /\ data'[r] = data[r] /\ wire'[r] = wire[r]
    BY <1>3 DEF Still
<1>11. send_list'[Other(s)] = send_list[Other(s)]
    BY <1>1, <1>4, SendTypes DEF TypesOK
<1>12. StreamTo(s, At(s, x, y))'
    BY <1>1, <1>5, <1>10, <1>11, LinkedKnown, StreamStays
<1>13. \E z : StreamTo(Other(s), z)' /\ (z = v \/ FrameAdded(z, v)) /\ (session[s] => FrameAdded(z, v))
    <2>1. CASE session[s]
        <3>1. v.m = started[s].frames
            <4>1. v = IF s = "server" THEN y ELSE x
                BY <1>1, <1>8 DEF At, Sides, Side
            <4> QED
                BY ONLY <1>6, <2>1, <4>1, s \in Side DEF Counted, Side
        <3>2. n = v.m + 1
            BY <1>2, <3>1
        <3> QED
            BY <1>1, <1>3, <1>4, <1>9, <1>10, <2>1, <3>2, FrameTo
    <2>2. CASE ~session[s]
        <3>1. send_list' = send_list
            BY <1>4, <2>2 DEF Send
        <3> QED
            BY <1>1, <1>9, <1>10, <2>2, <3>1, StreamStays
    <2> QED
        BY <2>1, <2>2
<1>14. PICK z : /\ StreamTo(Other(s), z)' /\ (z = v \/ FrameAdded(z, v))
                /\ (session[s] => FrameAdded(z, v))
    BY <1>13
<1>15. \E x2, y2 : Linked(x2, y2)'
    <2>1. CASE s = "server"
        <3>1. v = y /\ Other(s) = "client" /\ At(s, x, y) = x /\ At(Other(s), x, z) = z
              /\ At(Other(s), x, y) = y
            BY <1>1, <1>8, <2>1 DEF At, Sides
        <3>2. Linked(x, z)'
            <4>1. StreamTo("server", x)' /\ StreamTo("client", z)'
                BY <1>12, <1>14, <2>1, <3>1
            <4>2. x = x \/ (s = "client" /\ FrameAdded(x, x))
                BY <1>14, <2>1, <3>1
            <4>3. z = y \/ (s = "server" /\ FrameAdded(z, y))
                BY <1>14, <2>1, <3>1
            <4>4. session[s] => FrameAdded(At(Other(s), x, z), At(Other(s), x, y))
                BY <1>14, <3>1
            <4> QED
                BY ONLY <1>1, <1>2, <1>3, <1>5, <1>7, <4>1, <4>2, <4>3, <4>4, s \in Side,
                        FrameLinked
        <3> QED
            BY <3>2
    <2>2. CASE s = "client"
        <3>1. v = x /\ Other(s) = "server" /\ At(s, x, y) = y /\ At(Other(s), z, y) = z
              /\ At(Other(s), x, y) = x
            BY <1>1, <1>8, <2>2 DEF At, Sides
        <3>2. Linked(z, y)'
            <4>1. StreamTo("server", z)' /\ StreamTo("client", y)'
                BY <1>12, <1>14, <2>2, <3>1
            <4>2. z = x \/ (s = "client" /\ FrameAdded(z, x))
                BY <1>14, <2>2, <3>1
            <4>3. y = y \/ (s = "server" /\ FrameAdded(y, y))
                BY <1>14, <2>2, <3>1
            <4>4. session[s] => FrameAdded(At(Other(s), z, y), At(Other(s), x, y))
                BY <1>14, <3>1
            <4> QED
                BY ONLY <1>1, <1>2, <1>3, <1>5, <1>7, <4>1, <4>2, <4>3, <4>4, s \in Side,
                        FrameLinked
        <3> QED
            BY <3>2
    <2> QED
        BY <2>1, <2>2 DEF Side
<1>16. \A r \in Side : Doing(r)'
    BY <1>3, DoingStays DEF Shown
<1> QED
    BY <1>3, <1>15, <1>16 DEF Shown, WsTypes

\* One more request is begun.
LEMMA RequestStarted ==
    ASSUME TypesOK, NEW n \in Nat, started' = [started EXCEPT !["client"].requests = n]
    PROVE  /\ Sent' = n /\ Upgrades' = Upgrades
           /\ \A r \in Side : started'[r].frames = started[r].frames
<1>1. "client" \in Side
    BY DEF Side
<1>2. PICK w \in Begun : w = started["client"]
    BY <1>1 DEF TypesOK, Begun
<1>3. PICK w2 : w2 = [w EXCEPT !.requests = n]
    OBVIOUS
<1>4. w2.requests = n /\ w2.handshake = w.handshake /\ w2.frames = w.frames
    BY <1>3 DEF Begun
<1>5. started' = [started EXCEPT !["client"] = w2]
    BY <1>2, <1>3
<1>6. started'["client"] = w2 /\ \A r \in Side : r # "client" => started'[r] = started[r]
    BY <1>1, <1>5 DEF TypesOK
<1> QED
    BY ONLY <1>2, <1>4, <1>6 DEF Sent, Upgrades

\* The handshake is begun: no frame is.
LEMMA HandshakeStarted ==
    ASSUME TypesOK, started' = [started EXCEPT !["client"].handshake = TRUE]
    PROVE  \A r \in Side : started'[r].frames = started[r].frames
<1>1. "client" \in Side
    BY DEF Side
<1>2. PICK w \in Begun : w = started["client"]
    BY <1>1 DEF TypesOK, Begun
<1>3. PICK w2 : w2 = [w EXCEPT !.handshake = TRUE]
    OBVIOUS
<1>4. w2.frames = w.frames
    BY <1>3 DEF Begun
<1>5. started' = [started EXCEPT !["client"] = w2]
    BY <1>2, <1>3
<1>6. started'["client"] = w2 /\ \A r \in Side : r # "client" => started'[r] = started[r]
    BY <1>1, <1>5 DEF TypesOK
<1> QED
    BY ONLY <1>2, <1>4, <1>6

\* The client begins a request or the handshake: the streams afterwards.
LEMMA ClientAsks ==
    ASSUME Plain, NEW x, NEW y, Linked(x, y), ~x.u, NEW value, value # "switch",
           Send("client", Message("request", value), "none"),
           UNCHANGED <<plan, session, wire, data, upgrade, ws, success, got>>,
           \A r \in Side : started'[r].frames = started[r].frames
    PROVE  /\ StreamTo("client", y)' /\ Switched(y)' /\ Counted("server", y.m)'
           /\ session["client"] => \E z : /\ StreamTo("server", z)' /\ MessageAdded(z, x, value)
                                          /\ Counted("client", z.m)'
           /\ ~session["client"] => StreamTo("server", x)' /\ Counted("client", x.m)'
<1>1. TypesOK /\ Sides
    BY BothSides DEF Plain
<1>2. /\ StreamTo("client", y) /\ Known("client", y) /\ StreamTo("server", x) /\ Known("server", x)
      /\ Switched(y) /\ Counted("client", x.m) /\ Counted("server", y.m)
    BY <1>1, LinkedKnown DEF Linked
<1>3. \A r \in Side : Still(r) /\ data'[r] = data[r] /\ wire'[r] = wire[r]
    BY DEF Still
<1>4. send_list'["server"] = send_list["server"]
    BY <1>1, SendTypes DEF TypesOK, Sides
<1>5. StreamTo("client", y)'
    BY <1>1, <1>2, <1>3, <1>4, StreamStays DEF Sides
<1>6. Switched(y)'
    BY <1>2, SwitchedSteady
<1>7. Counted("client", x.m)' /\ Counted("server", y.m)'
    BY <1>1, <1>2, CountedSteady DEF Sides
<1>8. ASSUME session["client"]
      PROVE  \E z : StreamTo("server", z)' /\ MessageAdded(z, x, value) /\ Counted("client", z.m)'
    <2>1. \E z : StreamTo("server", z)' /\ MessageAdded(z, x, value)
        BY <1>1, <1>2, <1>3, <1>8, MessageTo DEF Sides
    <2>2. PICK z : StreamTo("server", z)' /\ MessageAdded(z, x, value)
        BY <2>1
    <2>3. z.m = x.m
        BY ONLY <1>2, <2>2, ~x.u DEF MessageAdded, Known
    <2>4. Counted("client", z.m)'
        BY ONLY <1>7, <2>3
    <2> QED
        BY <2>2, <2>4
<1>9. ASSUME ~session["client"] PROVE StreamTo("server", x)' /\ Counted("client", x.m)'
    <2>1. send_list' = send_list
        BY <1>9 DEF Send
    <2> QED
        BY <1>1, <1>2, <1>3, <1>7, <2>1, StreamStays DEF Sides
<1> QED
    BY <1>5, <1>6, <1>7, <1>8, <1>9

\* A request that the application sends keeps the invariant.
LEMMA SendRequestShown ==
    ASSUME Plain, Shown, SendRequest
    PROVE  Shown'
<1>1. TypesOK /\ Sides
    BY BothSides DEF Plain
<1>2. PICK k \in Nat : k = Sent
    BY <1>1 DEF TypesOK, Sent, Sides
<1>3. /\ k + 1 <= Len(plan.requests)
      /\ Send("client", Message("request", plan.requests[k + 1]), "none")
      /\ started' = [started EXCEPT !["client"].requests = k + 1]
      /\ UNCHANGED <<plan, session, open, wire, data, pc, upgrade, ws, owed, answered, success, got>>
    BY <1>2 DEF SendRequest, tcp, Sent
<1>4. PICK value : value = plan.requests[k + 1]
    OBVIOUS
<1>5. value \in {"keep", "close"}
    <2>1. plan.requests \in Seq({"keep", "close"})
        BY <1>1, RequestAssumption DEF TypesOK
    <2>2. k + 1 \in 1 .. Len(plan.requests)
        BY <1>3
    <2> QED
        BY <1>4, <2>1, <2>2, ElementOfSeq
<1>6. value \notin Switches /\ value # "switch"
    BY <1>5 DEF Switches
<1>7. Sent' = k + 1 /\ Upgrades' = Upgrades /\ \A r \in Side : started'[r].frames = started[r].frames
    <2>1. k + 1 \in Nat
        OBVIOUS
    <2> QED
        BY ONLY <1>1, <1>3, <2>1, RequestStarted
<1>8. PICK x, y : Linked(x, y)
    BY DEF Shown
<1>9. Asked(x, y) /\ Known("server", x) /\ Known("client", y)
    BY <1>1, <1>8, LinkedKnown DEF Linked
<1>10. ~Upgrades
    <2>1. Upgrades => k = Len(plan.requests)
        BY ONLY <1>2, <1>9 DEF Asked
    <2>2. k # Len(plan.requests)
        BY <1>3
    <2> QED
        BY <2>1, <2>2
<1>11. PICK c \in Nat : c = x.B[0]
    BY <1>9 DEF Known
<1>12. 2 * answered <= y.a /\ 2 * owed + y.B[0] <= x.a /\ c <= 2 * k /\ ~x.u
    BY ONLY <1>2, <1>9, <1>10, <1>11 DEF Asked
<1>13. c + 2 <= 2 * (k + 1) /\ c <= 2 * (k + 1)
    BY <1>2, <1>11, <1>12
<1>14. Send("client", Message("request", value), "none")
    BY <1>3, <1>4
<1>15. /\ StreamTo("client", y)' /\ Switched(y)' /\ Counted("server", y.m)'
       /\ session["client"] => \E z : /\ StreamTo("server", z)' /\ MessageAdded(z, x, value)
                                      /\ Counted("client", z.m)'
       /\ ~session["client"] => StreamTo("server", x)' /\ Counted("client", x.m)'
    BY <1>3, <1>6, <1>7, <1>8, <1>12, <1>14, ClientAsks
<1>16. \E x2, y2 : Linked(x2, y2)'
    <2>1. CASE session["client"]
        <3>1. PICK z : /\ StreamTo("server", z)' /\ MessageAdded(z, x, value)
                       /\ Counted("client", z.m)'
            BY <1>15, <2>1
        <3>2. z.B[0] = c + 2 /\ z.a = x.a /\ ~z.u
            BY ONLY <1>6, <1>11, <3>1 DEF MessageAdded
        <3>3. Asked(z, y)'
            BY ONLY <1>3, <1>7, <1>10, <1>12, <1>13, <3>2 DEF Asked
        <3> QED
            BY <1>15, <3>1, <3>3 DEF Linked
    <2>2. CASE ~session["client"]
        <3>1. Asked(x, y)'
            BY ONLY <1>3, <1>7, <1>10, <1>11, <1>12, <1>13 DEF Asked
        <3> QED
            BY <1>15, <2>2, <3>1 DEF Linked
    <2> QED
        BY <2>1, <2>2
<1>17. \A r \in Side : Doing(r)'
    BY <1>3, DoingStays DEF Shown
<1> QED
    BY <1>3, <1>16, <1>17 DEF Shown, WsTypes

\* All requests are answered when the handshake is begun, so nothing of them
\* is left in the streams.
LEMMA StartHandshakeShown ==
    ASSUME Plain, Shown, StartWsHandshake
    PROVE  Shown'
<1>1. TypesOK /\ Sides
    BY BothSides DEF Plain
<1>2. /\ ~Upgrades /\ answered = Len(plan.requests)
      /\ Send("client", Message("request", "upgrade"), "none")
      /\ started' = [started EXCEPT !["client"].handshake = TRUE]
      /\ UNCHANGED <<plan, session, open, wire, data, pc, upgrade, ws, owed, answered, success, got>>
    BY DEF StartWsHandshake, tcp, Upgrades
<1>3. Sent' = Sent /\ Upgrades' /\ \A r \in Side : started'[r].frames = started[r].frames
    BY <1>1, <1>2, HandshakeBegins, HandshakeStarted
<1>4. PICK x, y : Linked(x, y)
    BY DEF Shown
<1>5. Asked(x, y) /\ Switched(y) /\ Known("server", x) /\ Known("client", y)
    BY <1>1, <1>4, LinkedKnown DEF Linked
<1>6. PICK k \in Nat : k = Sent
    BY <1>1 DEF TypesOK, Sent, Sides
<1>7. PICK l \in Nat : l = answered
    BY <1>1 DEF TypesOK
<1>8. PICK o \in Nat : o = owed
    BY <1>1 DEF TypesOK
<1>9. PICK a \in Nat : a = x.a
    BY <1>5 DEF Known
<1>10. PICK c \in Nat : c = x.B[0]
    BY <1>5 DEF Known
<1>11. PICK b \in Nat : b = y.a
    BY <1>5 DEF Known
<1>12. PICK d \in Nat : d = y.B[0]
    BY <1>5 DEF Known
<1>13. 2 * l <= b /\ 2 * o + d <= a /\ c <= 2 * k /\ ~x.u
    BY ONLY <1>2, <1>5, <1>6, <1>7, <1>8, <1>9, <1>10, <1>11, <1>12 DEF Asked
<1>14. a <= c
    BY ONLY <1>5, <1>9, <1>10, <1>13 DEF Known
<1>15. b <= d
    <2>1. ~upgrade["server"]
        BY ONLY <1>5, <1>13 DEF Known
    <2>2. ~y.u
        BY ONLY <1>5, <2>1 DEF Switched
    <2> QED
        BY ONLY <1>5, <1>11, <1>12, <2>2 DEF Known
<1>16. k <= l
    BY <1>2, <1>6, <1>7 DEF Plain
<1>17. o = 0 /\ k = l /\ c <= a /\ c + 2 <= a + 2
    BY <1>13, <1>14, <1>15, <1>16
<1>18. "upgrade" \in Switches /\ "upgrade" # "switch"
    BY DEF Switches
<1>19. /\ StreamTo("client", y)' /\ Switched(y)' /\ Counted("server", y.m)'
       /\ session["client"] => \E z : /\ StreamTo("server", z)' /\ MessageAdded(z, x, "upgrade")
                                      /\ Counted("client", z.m)'
       /\ ~session["client"] => StreamTo("server", x)' /\ Counted("client", x.m)'
    BY <1>2, <1>3, <1>4, <1>13, <1>18, ClientAsks
<1>20. \E x2, y2 : Linked(x2, y2)'
    <2>1. CASE session["client"]
        <3>1. PICK z : /\ StreamTo("server", z)' /\ MessageAdded(z, x, "upgrade")
                       /\ Counted("client", z.m)'
            BY <1>19, <2>1
        <3>2. z.B[0] = c + 2 /\ z.a = a /\ z.u
            BY ONLY <1>9, <1>10, <1>18, <3>1 DEF MessageAdded
        <3>3. Asked(z, y)'
            BY ONLY <1>2, <1>3, <1>6, <1>7, <1>8, <1>17, <3>2 DEF Asked
        <3> QED
            BY <1>19, <3>1, <3>3 DEF Linked
    <2>2. CASE ~session["client"]
        <3>1. Asked(x, y)'
            BY ONLY <1>2, <1>3, <1>6, <1>7, <1>8, <1>9, <1>10, <1>13, <1>17, <2>2 DEF Asked
        <3> QED
            BY <1>19, <2>2, <3>1 DEF Linked
    <2> QED
        BY <2>1, <2>2
<1>21. \A r \in Side : Doing(r)'
    BY <1>2, DoingStays DEF Shown
<1> QED
    BY <1>2, <1>20, <1>21 DEF Shown, WsTypes

\* The streams at first: nothing is sent.
LEMMA NoStream ==
    ASSUME NEW s \in Side, NEW frames \in Seq(Frame), NEW w, w.frame = NoFrame, ~w.key, ~w.accept
    PROVE  \E x : /\ Stream(x, s, frames, <<>>, <<>>, <<>>, FALSE, w, <<>>)
                  /\ x.B[0] = 0 /\ x.a = 0 /\ x.m = 0 /\ ~x.u
<1> DEFINE Z == [i \in Nat |-> 0]
<1>1. PICK F : F = Z
    OBVIOUS
<1>2. F[0] = 0
    BY <1>1
<1> HIDE DEF Z
<1>3. PICK x : x = Flow(F, F, F, 0, 0, F, 0, FALSE, 0, 0)
    OBVIOUS
<1>4. /\ x.T = F /\ x.E = F /\ x.C = F /\ x.p = 0 /\ x.q = 0 /\ x.B = F /\ x.m = 0
      /\ x.u = FALSE /\ x.a = 0 /\ x.b = 0
    BY ONLY <1>3 DEF Flow
<1>5. \A G : Part(G, 0, 0) = <<>>
    <2> TAKE G
    <2>1. Shows(Part(G, 0, 0), G, 0, 0)
        BY PartShape
    <2> QED
        BY <2>1 DEF Shows
<1>6. Layout(x, <<>>, <<>>, <<>>)
    <2>1. x.E[x.p] = 0
        BY <1>2, <1>4
    <2>2. <<>> = Part(x.T, x.a, x.b)
        BY <1>4, <1>5
    <2>3. <<>> = Part(x.T, x.b, x.E[x.p])
        BY <1>4, <1>5, <2>1
    <2>4. <<>> = Part(Packets(x.T, x.E, x.C), x.p, x.q)
        BY <1>4, <1>5
    <2>5. /\ \A i \in x.p .. x.q : x.E[i] \in Nat
          /\ \A i \in x.p + 1 .. x.q : x.E[i - 1] < x.E[i]
        BY <1>2, <1>4
    <2>6. /\ x.a \in Nat /\ x.b \in Nat /\ x.p \in Nat /\ x.q \in Nat
          /\ x.a <= x.b /\ x.b <= x.E[x.p] /\ x.p <= x.q
        BY <1>4, <2>1
    <2> QED
        BY ONLY <2>2, <2>3, <2>4, <2>5, <2>6 DEF Layout
<1>7. x.B[0] = 0
    BY <1>2, <1>4
<1>8. Messages(x, s)
    <2>1. \A i \in 1 .. x.B[0] : FALSE
        BY <1>7
    <2>2. x.B[0] \in Nat /\ x.B[0] % 2 = 0 /\ x.u \in BOOLEAN /\ ~x.u
        <3>1. x.u = FALSE
            BY <1>4
        <3>2. x.u \in BOOLEAN /\ ~x.u
            BY ONLY <3>1
        <3>3. 0 % 2 = 0
            OBVIOUS
        <3> QED
            BY ONLY <1>7, <3>2, <3>3
    <2> QED
        BY <2>1, <2>2 DEF Messages
<1>9. Texts(x, frames)
    <2>1. x.m \in 0 .. Len(frames) /\ ~(x.m > 0)
        <3>1. Len(frames) \in Nat
            OBVIOUS
        <3> QED
            BY <1>4, <3>1
    <2>2. \A i \in 0 .. x.m : x.B[i] \in Nat
        BY <1>4, <1>7
    <2>3. (\A i \in 1 .. x.m : FALSE) /\ (\A i \in x.B[0] + 1 .. x.B[x.m] : FALSE)
        BY <1>4, <1>7
    <2> QED
        BY <2>1, <2>2, <2>3 DEF Texts
<1>10. Ends(x, s)
    <2>1. x.E[x.q] = x.B[x.m]
        BY <1>4
    <2>2. \A i \in x.p + 1 .. x.q : FALSE
        BY <1>4
    <2> QED
        BY <2>1, <2>2 DEF Ends
<1>11. Reader(x, frames, FALSE, w, <<>>)
    <2>1. w.frame.payload = <<>> /\ w.frame.opcode = op_unknow
        BY DEF NoFrame
    <2>2. x.a <= x.B[0] /\ ~x.u
        BY <1>4, <1>7
    <2> QED
        BY <2>1, <2>2 DEF Reader, ReadsMessages
<1> QED
    BY <1>4, <1>6, <1>7, <1>8, <1>9, <1>10, <1>11 DEF Stream, Content

\* The invariant holds at first.
LEMMA ShownInit ==
    ASSUME Init
    PROVE  Plain /\ Shown
<1>2. Plain /\ TypesOK /\ Sides /\ plan \in Plans
    BY PlainInit, BothSides DEF Plain, TypesOK
<1>3. NoFrame \in Opened
    BY DEF NoFrame, Opened, Opcodes, Payloads, op_unknow, op_handshake_req, op_handshake_ack
<1>4. PICK w \in WsState : w.frame = NoFrame /\ ~w.key /\ ~w.accept /\ \A s \in Side : ws[s] = w
    <2>1. PICK w : w = [key |-> FALSE, accept |-> FALSE, frame |-> NoFrame]
        OBVIOUS
    <2>2. w \in WsState /\ w.frame = NoFrame /\ ~w.key /\ ~w.accept
        BY <1>3, <2>1 DEF WsState
    <2>3. \A s \in Side : ws[s] = w
        BY <2>1 DEF Init
    <2> QED
        BY <2>2, <2>3
<1>5. WsTypes
    BY <1>2, <1>4 DEF Init, WsTypes
<1>6. /\ \A s \in Side : /\ session[s] /\ open[s] /\ wire[s] = <<>> /\ data[s] = <<>>
                         /\ send_list[s] = <<>> /\ pc[s] = "idle" /\ ~upgrade[s]
                         /\ started[s].frames = 0 /\ success[s] = 0 /\ got[s] = <<>>
      /\ Sent = 0 /\ ~Upgrades /\ owed = 0 /\ answered = 0
    BY <1>2 DEF Init, Sent, Upgrades, Sides
<1>7. \A s \in Side : Doing(s)
    BY <1>4, <1>6 DEF Doing
<1>8. ASSUME NEW s \in Side
      PROVE  \E x : StreamTo(s, x) /\ x.B[0] = 0 /\ x.a = 0 /\ x.m = 0 /\ ~x.u
    <2>1. Other(s) \in Side /\ plan.frames[Other(s)] \in Seq(Frame)
        BY <1>2, OtherSide, PlanFrames
    <2>2. PICK x : /\ Stream(x, s, plan.frames[Other(s)], <<>>, <<>>, <<>>, FALSE, ws[s], <<>>)
                   /\ x.B[0] = 0 /\ x.a = 0 /\ x.m = 0 /\ ~x.u
        BY <1>4, <2>1, NoStream
    <2>3. /\ data[s] = <<>> /\ wire[s] = <<>> /\ send_list[Other(s)] = <<>> /\ got[s] = <<>>
          /\ upgrade[s] = FALSE
        BY <1>2, <1>6, <2>1 DEF TypesOK
    <2> QED
        BY <2>2, <2>3 DEF StreamTo
<1>9. PICK x : StreamTo("server", x) /\ x.B[0] = 0 /\ x.a = 0 /\ x.m = 0 /\ ~x.u
    BY <1>2, <1>8 DEF Sides
<1>10. PICK y : StreamTo("client", y) /\ y.B[0] = 0 /\ y.a = 0 /\ y.m = 0 /\ ~y.u
    BY <1>2, <1>8 DEF Sides
<1>11. Asked(x, y)
    BY ONLY <1>6, <1>9, <1>10 DEF Asked
<1>12. Switched(y)
    <2>1. /\ ~upgrade["server"] /\ ~upgrade["client"] /\ success["server"] = 0
          /\ success["client"] = 0 /\ ~ws["server"].accept /\ ~ws["client"].key
        BY <1>2, <1>4, <1>6 DEF Sides
    <2> QED
        BY ONLY <1>10, <2>1 DEF Switched
<1>13. ASSUME NEW s \in Side PROVE Counted(s, 0)
    <2>1. Len(plan.frames[s]) \in Nat
        BY <1>2, PlanFrames
    <2> QED
        BY <1>6, <2>1 DEF Counted
<1>14. Linked(x, y)
    BY <1>2, <1>9, <1>10, <1>11, <1>12, <1>13 DEF Linked, Sides
<1> QED
    BY <1>2, <1>5, <1>6, <1>7, <1>14 DEF Shown, Sides

\* Every step keeps the invariant, as long as the readers are in step.
LEMMA ShownStep ==
    ASSUME InStep, Plain, Shown, [Next]_vars
    PROVE  Plain' /\ Shown'
<1>1. Plain'
    BY PlainStep
<1>2. CASE UNCHANGED vars
    BY <1>1, <1>2, ByeShown
<1>3. CASE Next
    <2>1. CASE SendRequest \/ StartWsHandshake \/ SendResponse \/ Bye
        BY <1>1, <2>1, SendRequestShown, StartHandshakeShown, SendResponseShown, ByeShown
    <2>2. CASE \E s \in Side : SendWsFrame(s) \/ Flush(s) \/ Receive(s) \/ OnDisconnect(s)
        BY <1>1, <2>2, SendFrameShown, FlushShown, ReceiveShown, DisconnectShown
    <2>3. CASE \E s \in Side : WsStep(s)
        BY <1>1, <2>3, HandshakeShown, FrameShown, ReturnShown DEF WsStep
    <2>4. CASE \E s \in Side : \E e : HttpStep(s, e)
        BY <1>1, <2>4, MessageBeginShown, UpgradeShown, RequestCompleteShown,
           ResponseCompleteShown DEF HttpStep
    <2> QED
        BY <1>3, <2>1, <2>2, <2>3, <2>4, NextCases
<1> QED
    BY <1>2, <1>3

\* The streams are as they should be until a frame follows an odd masked one.
ShownInStep == Plain /\ (InStep => Shown)
\* The numbers of frames begun only grow.
LEMMA FramesGrow ==
    ASSUME TypesOK, [Next]_vars
    PROVE  /\ plan' = plan
           /\ \A s \in Side : /\ started[s].frames \in Nat /\ started'[s].frames \in Nat
                              /\ started[s].frames <= started'[s].frames
<1>1. started \in [Side -> Begun]
    BY DEF TypesOK, Begun
<1>2. \A s \in Side : started[s].frames \in Nat /\ started[s] \in Begun
    BY <1>1 DEF Begun
<1>3. CASE plan' = plan /\ started' = started
    BY <1>2, <1>3
<1>4. CASE SendRequest \/ StartWsHandshake
    <2>1. /\ plan' = plan
          /\ \/ \E n : started' = [started EXCEPT !["client"].requests = n]
             \/ started' = [started EXCEPT !["client"].handshake = TRUE]
        BY <1>4 DEF SendRequest, StartWsHandshake
    <2>2. \A s \in Side : started'[s].frames = started[s].frames
        BY <1>1, <1>2, <2>1 DEF Begun
    <2> QED
        BY <1>2, <2>1, <2>2
<1>5. CASE \E s \in Side : SendWsFrame(s)
    <2>1. PICK s \in Side : SendWsFrame(s)
        BY <1>5
    <2>2. /\ plan' = plan
          /\ started' = [started EXCEPT ![s].frames = started[s].frames + 1]
        BY <2>1 DEF SendWsFrame
    <2>3. \A r \in Side : started'[r].frames = IF r = s THEN started[s].frames + 1
                                            ELSE started[r].frames
        BY <1>1, <1>2, <2>2 DEF Begun
    <2> QED
        BY <1>2, <2>2, <2>3
<1>6. CASE UNCHANGED vars
    BY <1>3, <1>6 DEF vars
<1>7. CASE SendResponse \/ Bye
    BY <1>3, <1>7 DEF SendResponse, Bye
<1>8. CASE \E s \in Side : Flush(s) \/ Receive(s) \/ OnDisconnect(s)
    BY <1>3, <1>8 DEF Flush, Receive, OnDisconnect
<1>9. CASE \E s \in Side : WsStep(s)
    BY <1>3, <1>9, WsStepTypes DEF WsStep
<1>10. CASE \E s \in Side : \E e : HttpStep(s, e)
    <2>1. PICK s \in Side : \E e : HttpStep(s, e)
        BY <1>10
    <2>2. \E e : Execute(s, e)
        BY <2>1, HttpStepTypes DEF HttpStep
    <2> QED
        BY <1>3, <2>2 DEF Execute
<1> QED
    BY <1>4, <1>5, <1>6, <1>7, <1>8, <1>9, <1>10, NextCases
\* So who is out of step stays so.
LEMMA StepsNotRegained ==
    ASSUME TypesOK, [Next]_vars, InStep'
    PROVE  InStep
<1>1. /\ plan' = plan
      /\ \A s \in Side : /\ started[s].frames \in Nat /\ started'[s].frames \in Nat
                         /\ started[s].frames <= started'[s].frames
    BY FramesGrow
<1>2. ASSUME NEW s \in Side, NEW i \in 1 .. started[s].frames - 1
      PROVE  i \in 1 .. started'[s].frames - 1
    <2>1. PICK m \in Nat : m = started[s].frames
        BY <1>1
    <2>2. PICK n \in Nat : n = started'[s].frames /\ m <= n
        BY <1>1, <2>1
    <2>3. i \in 1 .. m - 1
        BY <2>1
    <2> QED
        BY ONLY <2>2, <2>3
<1> QED
    BY ONLY <1>1, <1>2, InStep' DEF InStep
\* So every step keeps that.
LEMMA InStepStep ==
    ASSUME ShownInStep, [Next]_vars
    PROVE  ShownInStep'
<1>1. Plain'
    BY PlainStep DEF ShownInStep
<1>2. ASSUME InStep' PROVE Shown'
    <2>1. InStep
        BY <1>2, StepsNotRegained DEF ShownInStep, Plain
    <2> QED
        BY <2>1, ShownStep DEF ShownInStep
<1> QED
    BY <1>1, <1>2 DEF ShownInStep

-----------------------------------------------------------------------------
(* What is on its way.                                                       *)

\* A part without elements.
LEMMA NoPart ==
    ASSUME NEW F, NEW a \in Nat, NEW b \in Nat, a <= b, <<>> = Part(F, a, b)
    PROVE  a = b
<1>1. Shows(Part(F, a, b), F, a, b)
    BY PartShape
<1>2. Part(F, a, b) = <<>> <=> a = b
    BY ONLY <1>1 DEF Shows
<1> QED
    BY ONLY <1>2, <<>> = Part(F, a, b)

\* A layout of which nothing is on its way.
LEMMA LayoutDrained ==
    ASSUME NEW v, Layout(v, <<>>, <<>>, <<>>)
    PROVE  v.a = v.E[v.q]
<1>1. PICK a \in Nat : a = v.a
    BY DEF Layout
<1>2. PICK b \in Nat : b = v.b
    BY DEF Layout
<1>3. PICK p \in Nat : p = v.p
    BY DEF Layout
<1>4. PICK q \in Nat : q = v.q
    BY DEF Layout
<1>5. PICK e : e = v.E[p]
    OBVIOUS
<1>6. e \in Nat
    <2>1. \A i \in p .. q : v.E[i] \in Nat
        BY ONLY Layout(v, <<>>, <<>>, <<>>), <1>3, <1>4 DEF Layout
    <2>2. p <= q
        BY ONLY Layout(v, <<>>, <<>>, <<>>), <1>3, <1>4 DEF Layout
    <2> QED
        BY <1>5, <2>1, <2>2
<1>7. PICK G : G = Packets(v.T, v.E, v.C)
    OBVIOUS
<1>8. /\ a <= b /\ b <= e /\ p <= q
      /\ <<>> = Part(v.T, a, b) /\ <<>> = Part(v.T, b, e) /\ <<>> = Part(G, p, q)
    BY ONLY Layout(v, <<>>, <<>>, <<>>), <1>1, <1>2, <1>3, <1>4, <1>5, <1>7 DEF Layout
<1>9. a = b
    BY ONLY <1>1, <1>2, <1>8, NoPart
<1>10. b = e
    BY ONLY <1>2, <1>6, <1>8, NoPart
<1>11. p = q
    BY ONLY <1>3, <1>4, <1>8, NoPart
<1> QED
    BY <1>1, <1>4, <1>5, <1>9, <1>10, <1>11

\* Nothing waits if as much is parsed as was sent.
LEMMA NothingWaits ==
    ASSUME NEW v, NEW buffer, NEW way, NEW list, Layout(v, buffer, way, list), v.a = v.E[v.q]
    PROVE  list = <<>>
<1>1. PICK p \in Nat : p = v.p
    BY DEF Layout
<1>2. PICK q \in Nat : q = v.q
    BY DEF Layout
<1>3. PICK E : E = v.E
    OBVIOUS
<1>4. E[p] <= E[q] /\ E[p] \in Nat /\ E[q] \in Nat
      /\ \A i \in p .. q : E[i] \in Nat /\ E[p] <= E[i]
    BY ONLY <1>1, <1>2, <1>3, EndsRise, Layout(v, buffer, way, list)
<1>5. p <= q /\ v.a <= v.b /\ v.b <= E[p] /\ v.a \in Nat /\ v.b \in Nat
      /\ \A i \in p + 1 .. q : E[i - 1] < E[i]
    BY ONLY <1>1, <1>2, <1>3, Layout(v, buffer, way, list) DEF Layout
<1>6. E[p] = E[q]
    BY <1>2, <1>3, <1>4, <1>5
<1>7. p = q
    <2>1. ASSUME p < q PROVE FALSE
        <3>1. q \in p + 1 .. q /\ q - 1 \in p .. q
            BY <2>1
        <3>2. E[q - 1] < E[q] /\ E[p] <= E[q - 1] /\ E[q - 1] \in Nat
            BY <1>4, <1>5, <3>1
        <3> QED
            BY <1>4, <1>6, <3>2
    <2> QED
        BY <1>5, <2>1
<1>8. PICK G : G = Packets(v.T, v.E, v.C)
    OBVIOUS
<1>9. list = Part(G, p, p)
    BY ONLY <1>1, <1>2, <1>7, <1>8, Layout(v, buffer, way, list) DEF Layout
<1>10. Shows(Part(G, p, p), G, p, p)
    BY PartShape
<1> QED
    BY ONLY <1>9, <1>10 DEF Shows
-----------------------------------------------------------------------------
(* The answers of the server.                                                *)

\* The last request asks for the connection to be closed.
Closing == plan.requests # <<>> /\ Last(plan.requests) = "close"
\* The requests that the server has parsed: not answered yet, answered but not
\* written yet, and answered.
Finished == owed + Len(send_list["server"]) + written
\* The elements of x, the stream to the server, are those of the requests.
Requests(x) ==
    /\ StreamTo("server", x) /\ ~x.u
    /\ \A i \in 1 .. x.B[0] : x.T[i].value = plan.requests[(i + 1) \div 2]
    /\ x.B[0] <= 2 * Sent /\ (session["client"] => x.B[0] = 2 * Sent)
\* Of them a are parsed: the keep-alive is that of the last request if no other
\* is begun.
Turns(a) ==
    /\ begun \in Nat /\ written \in Nat /\ Packed(send_list["server"], {"response"})
    /\ \/ a = 2 * Finished /\ begun = Finished
          /\ (keep_alive <=> Finished > 0 /\ plan.requests[Finished] = "keep")
       \/ a = 2 * Finished + 1 /\ begun = Finished + 1 /\ ~keep_alive
\* The server shuts down when the last answer is written, or too early.
Closes ==
    open["server"] =>
        /\ ~can_write["server"] /\ ~overtaken => Closing /\ written = Len(plan.requests)
        /\ Closing /\ written = Len(plan.requests) => ~can_write["server"]

NoFrames == \A s \in Side : started[s].frames = 0
Serving == ~Upgrades /\ NoFrames /\ Closes /\ \E x : Requests(x) /\ Turns(x.a)
\* After the last answer no more requests are parsed.
Switching ==
    /\ Upgrades /\ owed = 0 /\ Packed(send_list["server"], {"none", "ack"})
    /\ open["server"] => can_write["server"] \/ overtaken
    /\ IF upgrade["server"] THEN pc["server"] # "execute" ELSE NoFrames
Answered == ShownInStep /\ Packed(send_list["client"], {"none", "ack"}) /\ (Serving \/ Switching)

\* As long as no frame is begun, the readers are in step.
LEMMA InStepAtFirst ==
    ASSUME NoFrames
    PROVE  InStep
<1>1. \A s \in Side : \A i \in 1 .. started[s].frames - 1 : FALSE
    BY DEF NoFrames
<1> QED
    BY ONLY <1>1 DEF InStep

\* What a call of send leaves in a list.
LEMMA SendPacked ==
    ASSUME TypesOK, NEW s \in Side, NEW C, Packed(send_list[s], C), NEW r \in Side,
           NEW elements, NEW callback, Send(r, elements, callback), r = s => callback \in C
    PROVE  /\ Packed(send_list'[s], C)
           /\ r = s /\ session[s] => /\ Len(send_list'[s]) = Len(send_list[s]) + 1
                                     /\ Len(send_list[s]) \in Nat
<1>1. CASE session[r] /\ r = s
    <2>1. send_list'[s] = Append(send_list[s], [rest |-> elements, callback |-> callback])
        BY <1>1, SendTypes DEF TypesOK
    <2>2. callback \in C
        BY <1>1
    <2> QED
        BY <2>1, <2>2, PackedJoined
<1>2. CASE ~(session[r] /\ r = s)
    <2>1. send_list'[s] = send_list[s]
        BY <1>2 DEF Send, TypesOK
    <2> QED
        BY <1>2, <2>1
<1> QED
    BY <1>1, <1>2

\* What a flush leaves in a list, and the completion callback that it runs.
LEMMA FlushPacked ==
    ASSUME TypesOK, NEW s \in Side, NEW C, Packed(send_list[s], C), NEW r \in Side, Flush(r)
    PROVE  /\ Packed(send_list'[s], C) /\ Len(send_list[s]) \in Nat
           /\ r # s => send_list'[s] = send_list[s]
           /\ r = s => \/ /\ Len(send_list[s]) = Len(send_list'[s]) + 1
                          /\ Len(send_list'[s]) \in Nat
                          /\ \E callback \in C : Completion(s, callback)
                       \/ /\ Len(send_list'[s]) = Len(send_list[s])
                          /\ UNCHANGED <<can_write, eof, success, written, overtaken>>
<1> DEFINE list == send_list[s]
<1>0. Len(list) \in Nat
    BY DEF Packed
<1>1. CASE r # s
    <2>1. send_list'[s] = send_list[s]
        BY <1>1 DEF Flush, TypesOK
    <2> QED
        BY <1>0, <1>1, <2>1
<1>2. CASE r = s
    <2>1. list # <<>>
        BY <1>2 DEF Flush
    <2>2. PICK n \in Nat \cup {Len(Head(list).rest)} :
              \/ /\ send_list' = [send_list EXCEPT ![s] = Tail(@)]
                 /\ Completion(s, Head(list).callback)
              \/ /\ send_list' = [send_list EXCEPT ![s][1].rest = SubSeq(@, n + 1, Len(@))]
                 /\ UNCHANGED <<can_write, eof, success, written, overtaken>>
        BY <1>2, PieceAssumption DEF Flush
    <2>3. CASE /\ send_list' = [send_list EXCEPT ![s] = Tail(@)]
               /\ Completion(s, Head(list).callback)
        <3>1. send_list'[s] = Tail(list)
            BY <2>3 DEF TypesOK
        <3>2. /\ Head(list).callback \in C /\ Packed(Tail(list), C)
              /\ Len(Tail(list)) = Len(list) - 1 /\ Len(list) \in Nat \ {0}
            BY <2>1, PackedLeft
        <3>3. Len(list) = Len(Tail(list)) + 1 /\ Len(Tail(list)) \in Nat
            BY <3>2
        <3> QED
            BY <1>0, <1>2, <2>3, <3>1, <3>2, <3>3
    <2>4. CASE /\ send_list' = [send_list EXCEPT ![s][1].rest = SubSeq(@, n + 1, Len(@))]
               /\ UNCHANGED <<can_write, eof, success, written, overtaken>>
        <3> DEFINE left == SubSeq(list[1].rest, n + 1, Len(list[1].rest))
        <3>1. send_list' = [send_list EXCEPT ![s] = [list EXCEPT ![1].rest = left]]
            BY <2>4
        <3> HIDE DEF left
        <3>2. send_list'[s] = [list EXCEPT ![1].rest = left]
            BY <3>1 DEF TypesOK
        <3>3. /\ Packed([list EXCEPT ![1].rest = left], C)
              /\ Len([list EXCEPT ![1].rest = left]) = Len(list)
            BY <2>1, PackedLeft
        <3> QED
            BY <1>0, <1>2, <2>4, <3>2, <3>3
    <2> QED
        BY <2>2, <2>3, <2>4
<1> QED
    BY <1>1, <1>2

\* A packet is written whole, and completed, or in part.
Flushed(s, C) ==
    \/ /\ Len(send_list[s]) = Len(send_list'[s]) + 1 /\ Len(send_list'[s]) \in Nat
       /\ \E callback \in C : Completion(s, callback)
    \/ /\ Len(send_list'[s]) = Len(send_list[s])
       /\ UNCHANGED <<can_write, eof, success, written, overtaken>>
LEMMA FlushOwn ==
    ASSUME TypesOK, NEW s \in Side, NEW C, Packed(send_list[s], C), Flush(s)
    PROVE  Packed(send_list'[s], C) /\ Flushed(s, C)
BY FlushPacked DEF Flushed

\* No answer gets into the list of the client, nor into that of the server when
\* requests are over.
LEMMA NoAnswersStep ==
    ASSUME TypesOK, NEW s \in Side, Packed(send_list[s], {"none", "ack"}), [Next]_vars,
           s = "server" => ~SendResponse /\ \A e : ~RequestComplete(e)
    PROVE  Packed(send_list'[s], {"none", "ack"})
<1>1. ASSUME NEW r \in Side, NEW elements, NEW callback, Send(r, elements, callback),
             callback \in {"none", "ack"} \/ r # s
      PROVE  Packed(send_list'[s], {"none", "ack"})
    BY <1>1, SendPacked
<1>2. CASE UNCHANGED send_list
    BY <1>2
<1>3. "client" \in Side /\ "server" \in Side
    BY DEF Side
<1>4. CASE SendRequest \/ StartWsHandshake
    BY <1>1, <1>3, <1>4 DEF SendRequest, StartWsHandshake
<1>5. CASE SendResponse
    BY <1>1, <1>3, <1>5 DEF SendResponse
<1>6. ASSUME NEW r \in Side, SendWsFrame(r) PROVE Packed(send_list'[s], {"none", "ack"})
    BY <1>1, <1>6 DEF SendWsFrame
<1>7. ASSUME NEW r \in Side, Flush(r) PROVE Packed(send_list'[s], {"none", "ack"})
    BY <1>7, FlushPacked
<1>8. ASSUME NEW r \in Side, Receive(r) \/ OnDisconnect(r) \/ Bye
      PROVE  Packed(send_list'[s], {"none", "ack"})
    BY <1>2, <1>8 DEF Receive, OnDisconnect, Bye
<1>9. ASSUME NEW r \in Side, WsStep(r) PROVE Packed(send_list'[s], {"none", "ack"})
    BY <1>1, <1>2, <1>9, WsStepTypes DEF WsStep
<1>10. ASSUME NEW r \in Side, NEW e, HttpStep(r, e) PROVE Packed(send_list'[s], {"none", "ack"})
    <2>1. CASE r = "server" /\ RequestComplete(e)
        BY <1>1, <1>2, <1>3, <2>1 DEF RequestComplete
    <2>2. CASE ~(r = "server" /\ RequestComplete(e))
        BY <1>2, <1>10, <2>2 DEF HttpStep, MessageBegin, UpgradeComplete, ResponseComplete
    <2> QED
        BY <2>1, <2>2
<1>11. CASE UNCHANGED vars
    BY <1>2, <1>11 DEF vars
<1> QED
    BY <1>3, <1>4, <1>5, <1>6, <1>7, <1>8, <1>9, <1>10, <1>11, NextCases

\* While there are only requests, neither side has upgraded.
LEMMA NotSwitched ==
    ASSUME Plain, Shown, ~Upgrades
    PROVE  /\ \A s \in Side : ~upgrade[s] /\ success[s] = 0 /\ pc[s] \notin {"try_ws_parse", "frames"}
           /\ \E x, y : Linked(x, y) /\ ~x.u /\ ~y.u
<1>1. TypesOK /\ Sides
    BY BothSides DEF Plain
<1>2. PICK x, y : Linked(x, y)
    BY DEF Shown
<1>3. Asked(x, y) /\ Switched(y) /\ Known("server", x) /\ Known("client", y)
    BY <1>1, <1>2, LinkedKnown DEF Linked
<1>4. ~x.u
    BY ONLY <1>3, ~Upgrades DEF Asked
<1>5. ~upgrade["server"]
    BY ONLY <1>3, <1>4 DEF Known
<1>6. ~y.u
    BY ONLY <1>3, <1>5 DEF Switched
<1>7. ~upgrade["client"]
    BY ONLY <1>3, <1>6 DEF Known
<1>8. success["server"] = 0 /\ success["client"] = 0
    BY ONLY <1>3, <1>6, <1>7 DEF Switched
<1>9. \A s \in Side : ~upgrade[s] /\ success[s] = 0
    BY <1>5, <1>7, <1>8 DEF Side
<1>10. \A s \in Side : pc[s] \notin {"try_ws_parse", "frames"}
    BY <1>9 DEF Shown, Doing
<1> QED
    BY <1>2, <1>4, <1>6, <1>9, <1>10

\* The stream to the server moves, with the requests in it.
LEMMA RequestsMove ==
    ASSUME NEW x, Requests(x), NEW z, StreamTo("server", z)', z.T = x.T, z.B = x.B, z.u = x.u,
           plan' = plan, Sent' = Sent, session'["client"] => session["client"]
    PROVE  Requests(z)'
BY DEF Requests

\* Nothing of the answers changes.
LEMMA TurnsStay ==
    ASSUME NEW a, Turns(a), plan' = plan, keep_alive' = keep_alive, begun' = begun,
           written' = written, owed' = owed, send_list'["server"] = send_list["server"]
    PROVE  Turns(a)'
<1>1. Finished' = Finished
    BY DEF Finished
<1> QED
    BY ONLY <1>1, Turns(a), plan' = plan, keep_alive' = keep_alive, begun' = begun,
            written' = written, send_list'["server"] = send_list["server"] DEF Turns

\* The server does not shut down, or closes.
LEMMA ClosesStay ==
    ASSUME Closes, plan' = plan, written' = written, overtaken' = overtaken,
           open'["server"] => open["server"] /\ can_write'["server"] = can_write["server"]
    PROVE  Closes'
BY DEF Closes, Closing

\* The steps that are not about requests and answers.
LEMMA ServingStays ==
    ASSUME Plain, Serving, NEW x, Requests(x), Turns(x.a), NEW z, Kept(z, x),
           StreamTo("server", z)', Closes', plan' = plan, started' = started,
           session'["client"] => session["client"], keep_alive' = keep_alive, begun' = begun,
           written' = written, owed' = owed, send_list'["server"] = send_list["server"]
    PROVE  Serving'
<1>1. Sent' = Sent /\ Upgrades' = Upgrades /\ (NoFrames => NoFrames')
    BY DEF Sent, Upgrades, NoFrames
<1>2. Requests(z)'
    BY <1>1, RequestsMove DEF Kept
<1>3. Turns(x.a)'
    BY TurnsStay
<1>4. Turns(z.a)'
    BY ONLY <1>3, Kept(z, x) DEF Kept
<1> QED
    BY <1>1, <1>2, <1>4 DEF Serving

\* One more request is sent.
LEMMA SendRequestServing ==
    ASSUME Plain, Serving, SendRequest
    PROVE  Serving'
<1>1. TypesOK /\ Sides
    BY BothSides DEF Plain
<1>2. PICK k \in Nat : k = Sent
    BY <1>1 DEF TypesOK, Sent, Sides
<1>3. /\ k + 1 <= Len(plan.requests)
      /\ Send("client", Message("request", plan.requests[k + 1]), "none")
      /\ started' = [started EXCEPT !["client"].requests = k + 1]
      /\ UNCHANGED <<plan, session, open, can_write, wire, data, upgrade, keep_alive, ws, owed, got,
                     begun, written, overtaken>>
    BY <1>2 DEF SendRequest, tcp, Sent, turns
<1>4. PICK value : value = plan.requests[k + 1]
    OBVIOUS
<1>5. value \in {"keep", "close"} /\ value \notin Switches /\ value # "switch"
    <2>1. plan.requests \in Seq({"keep", "close"})
        BY <1>1, RequestAssumption DEF TypesOK
    <2>2. k + 1 \in 1 .. Len(plan.requests)
        BY <1>3
    <2>3. value \in {"keep", "close"}
        BY <1>4, <2>1, <2>2, ElementOfSeq
    <2> QED
        BY <2>3 DEF Switches
<1>6. Sent' = k + 1 /\ Upgrades' = Upgrades /\ \A r \in Side : started'[r].frames = started[r].frames
    <2>1. k + 1 \in Nat
        OBVIOUS
    <2> QED
        BY ONLY <1>1, <1>3, <2>1, RequestStarted
<1>7. NoFrames'
    BY <1>6 DEF Serving, NoFrames
<1>8. PICK x : Requests(x) /\ Turns(x.a)
    BY DEF Serving
<1>9. Still("server") /\ data'["server"] = data["server"] /\ wire'["server"] = wire["server"]
    BY <1>3 DEF Still
<1>10. send_list'["server"] = send_list["server"]
    BY <1>1, <1>3, SendTypes DEF TypesOK, Sides
<1>11. Turns(x.a)' /\ Closes'
    BY <1>3, <1>8, <1>10, TurnsStay, ClosesStay DEF Serving
<1>12. PICK d \in Nat : d = x.B[0] /\ d % 2 = 0
    <2>1. Known("server", x)
        BY <1>1, <1>8, StreamKnown DEF Requests, TypesOK, Sides
    <2> QED
        BY <2>1 DEF Known
<1>13. d <= 2 * k /\ (session["client"] => d = 2 * k)
    BY ONLY <1>2, <1>8, <1>12 DEF Requests
<1>14. CASE session["client"]
    <2>1. PICK z : StreamTo("server", z)' /\ MessageAdded(z, x, value)
        BY <1>1, <1>3, <1>4, <1>5, <1>8, <1>9, <1>14, MessageTo DEF Sides, Requests
    <2>2. /\ z.B[0] = d + 2 /\ z.a = x.a /\ ~z.u
          /\ \A i \in 1 .. d : z.T[i] = x.T[i]
          /\ \A i \in 1 .. 2 : z.T[d + i].value = value
        BY ONLY <1>5, <1>12, <2>1 DEF MessageAdded
    <2>3. ASSUME NEW i \in 1 .. d + 2 PROVE z.T[i].value = plan.requests[(i + 1) \div 2]
        <3>1. CASE i <= d
            <4>1. i \in 1 .. d
                BY <3>1
            <4>2. x.T[i].value = plan.requests[(i + 1) \div 2]
                BY ONLY <1>8, <1>12, <4>1 DEF Requests
            <4> QED
                BY <2>2, <4>1, <4>2
        <3>2. CASE ~(i <= d)
            <4>1. PICK j \in 1 .. 2 : i = d + j
                <5>1. i - d \in 1 .. 2 /\ i = d + (i - d)
                    BY <3>2
                <5> QED
                    BY <5>1
            <4>2. (i + 1) \div 2 = k + 1
                BY <1>13, <1>14, <4>1
            <4> QED
                BY <1>4, <2>2, <4>1, <4>2
        <3> QED
            BY <3>1, <3>2
    <2>4. d + 2 = 2 * (k + 1)
        BY <1>13, <1>14
    <2>5. Requests(z)'
        <3>1. plan' = plan
            BY <1>3
        <3> QED
            BY ONLY <1>6, <2>1, <2>2, <2>3, <2>4, <3>1 DEF Requests
    <2>6. Turns(z.a)'
        BY ONLY <1>11, <2>2
    <2> QED
        BY <1>6, <1>7, <1>11, <2>5, <2>6 DEF Serving
<1>15. CASE ~session["client"]
    <2>1. send_list' = send_list
        BY <1>3, <1>15 DEF Send
    <2>2. StreamTo("server", x)'
        BY <1>1, <1>8, <1>9, <2>1, StreamStays DEF Sides, Requests
    <2>3. d <= 2 * (k + 1)
        BY <1>13
    <2>4. Requests(x)'
        <3>1. plan' = plan /\ session' = session
            BY <1>3
        <3> QED
            BY ONLY <1>6, <1>8, <1>12, <1>15, <2>2, <2>3, <3>1 DEF Requests
    <2> QED
        BY <1>6, <1>7, <1>11, <2>4 DEF Serving
<1> QED
    BY <1>14, <1>15

\* An answer that was owed is sent.
LEMMA SendResponseServing ==
    ASSUME Plain, Serving, SendResponse
    PROVE  Serving'
<1>1. TypesOK /\ Sides /\ session["server"]
    BY BothSides DEF Plain
<1>2. /\ owed > 0 /\ owed' = owed - 1
      /\ Send("server", Message("response", "plain"), "response")
      /\ UNCHANGED <<plan, session, open, can_write, wire, data, upgrade, keep_alive, ws, started,
                     got, begun, written, overtaken>>
    BY DEF SendResponse, tcp, turns
<1>3. PICK x : Requests(x) /\ Turns(x.a)
    BY DEF Serving
<1>4. /\ Packed(send_list'["server"], {"response"})
      /\ Len(send_list'["server"]) = Len(send_list["server"]) + 1
      /\ Len(send_list["server"]) \in Nat
    BY <1>1, <1>2, <1>3, SendPacked DEF Turns, Sides
<1>5. Finished' = Finished
    <2>1. written' = written /\ written \in Nat /\ owed \in Nat
        BY <1>1, <1>2, <1>3 DEF Turns, TypesOK
    <2> QED
        BY ONLY <1>2, <1>4, <2>1 DEF Finished
<1>6. Turns(x.a)'
    <2>1. plan' = plan /\ keep_alive' = keep_alive /\ begun' = begun /\ written' = written
        BY <1>2
    <2> QED
        BY ONLY <1>3, <1>4, <1>5, <2>1 DEF Turns
<1>7. send_list'["client"] = send_list["client"]
    BY <1>1, <1>2, SendTypes DEF TypesOK, Sides
<1>8. StreamTo("server", x)'
    <2>1. Still("server") /\ data' = data /\ wire' = wire
        BY <1>2 DEF Still
    <2> QED
        BY <1>1, <1>3, <1>7, <2>1, StreamStays DEF Sides, Requests
<1>9. Sent' = Sent /\ Upgrades' = Upgrades /\ (NoFrames => NoFrames')
    BY <1>2 DEF Sent, Upgrades, NoFrames
<1>10. Requests(x)'
    BY <1>2, <1>3, <1>8, <1>9, RequestsMove
<1>11. Closes'
    BY <1>2, ClosesStay DEF Serving
<1> QED
    BY <1>6, <1>9, <1>10, <1>11 DEF Serving

\* What is known of the stream of requests.
LEMMA RequestsKnown ==
    ASSUME Plain, NEW x, Requests(x)
    PROVE  /\ Known("server", x) /\ x.a \in Nat /\ x.B[0] \in Nat /\ x.a <= x.B[0]
           /\ Sent \in Nat /\ Len(plan.requests) \in Nat /\ Sent <= Len(plan.requests)
<1>1. TypesOK /\ Sides
    BY BothSides DEF Plain
<1>2. Known("server", x)
    BY <1>1, StreamKnown DEF Requests, TypesOK, Sides
<1>3. x.a \in Nat /\ x.B[0] \in Nat /\ x.a <= x.B[0]
    BY ONLY <1>2, Requests(x) DEF Known, Requests
<1>4. Sent \in Nat
    BY <1>1 DEF TypesOK, Sent, Sides
<1>5. Len(plan.requests) \in Nat
    BY <1>1, PlansAreLists DEF TypesOK
<1> QED
    BY <1>2, <1>3, <1>4, <1>5 DEF Plain

\* The plan closes with its last request, and that one only is not keep-alive.
LEMMA ClosingIsLast ==
    ASSUME plan \in Plans
    PROVE  /\ Closing => /\ Len(plan.requests) > 0 /\ plan.requests[Len(plan.requests)] # "keep"
                         /\ ~plan.websocket
           /\ \A n \in 1 .. Len(plan.requests) :
                 plan.requests[n] # "keep" => n = Len(plan.requests) /\ Closing
<1>1. /\ plan.requests \in Seq({"keep", "close"}) /\ Len(plan.requests) \in Nat
      /\ \A n \in 1 .. Len(plan.requests) :
            /\ plan.requests[n] \in {"keep", "close"}
            /\ plan.requests[n] = "close" => n = Len(plan.requests) /\ ~plan.websocket
    BY PlansAreLists
<1>2. Closing => Len(plan.requests) > 0
    <2>1. Closing => Len(plan.requests) # 0
        BY <1>1, EmptySeq DEF Closing
    <2> QED
        BY <1>1, <2>1
<1>3. Closing <=> plan.requests # <<>> /\ plan.requests[Len(plan.requests)] = "close"
    BY DEF Closing, Last
<1>4. ASSUME NEW n \in 1 .. Len(plan.requests) PROVE plan.requests # <<>>
    BY <1>1, <1>4
<1> QED
    BY <1>1, <1>2, <1>3, <1>4

\* An answer is written: the completion reads the keep-alive.
LEMMA AnswerWritten ==
    ASSUME Plain, Serving, NEW x, Requests(x), Turns(x.a), open["server"], can_write["server"],
           NEW n, n = Len(send_list'["server"]), n \in Nat, Len(send_list["server"]) = n + 1,
           Completion("server", "response"), open' = open, plan' = plan
    PROVE  Closes' /\ written' = written + 1
<1>1. TypesOK /\ Sides /\ plan \in Plans
    BY BothSides DEF Plain, TypesOK
<1>2. /\ keep_alive => UNCHANGED <<can_write, eof>>
      /\ ~keep_alive => Shutdown("server")
      /\ written' = written + 1 /\ overtaken' = (overtaken \/ begun > written + 1)
    BY <1>1, CompletionTypes DEF Sides
<1>3. PICK w \in Nat : w = written
    BY DEF Turns
<1>4. PICK o \in Nat : o = owed
    BY <1>1 DEF TypesOK
<1>5. PICK b \in Nat : b = begun
    BY DEF Turns
<1>6. PICK a \in Nat : a = x.a
    BY RequestsKnown
<1>7. PICK l \in Nat : l = Len(plan.requests) /\ a <= 2 * l
    <2>1. PICK m \in Nat : m = Sent
        BY RequestsKnown
    <2>2. PICK d \in Nat : d = x.B[0] /\ a <= d
        BY <1>6, RequestsKnown
    <2>3. d <= 2 * m
        BY ONLY <2>1, <2>2, Requests(x) DEF Requests
    <2>4. PICK k \in Nat : k = Len(plan.requests) /\ m <= k
        BY <2>1, RequestsKnown
    <2>5. a <= 2 * k
        BY ONLY <1>6, <2>1, <2>2, <2>3, <2>4
    <2> QED
        BY <2>4, <2>5
<1>8. PICK f \in Nat : f = o + n + 1 + w
    BY <1>3, <1>4
<1>9. Finished = f
    <2>1. Finished = o + (n + 1) + w
        BY <1>3, <1>4 DEF Finished
    <2> QED
        BY <1>8, <2>1
<1>10. \/ a = 2 * f /\ b = f /\ (keep_alive <=> f > 0 /\ plan.requests[f] = "keep")
       \/ a = 2 * f + 1 /\ b = f + 1 /\ ~keep_alive
    BY ONLY <1>5, <1>6, <1>9, Turns(x.a) DEF Turns
<1>11. f <= l /\ f > 0 /\ w + 1 <= f
    <2>1. a = 2 * f \/ a = 2 * f + 1
        BY <1>10
    <2>2. n \in Nat
        OBVIOUS
    <2> QED
        BY ONLY <1>3, <1>4, <1>6, <1>7, <1>8, <2>1, <2>2
<1>12. /\ Closing => plan.requests[l] # "keep"
       /\ \A i \in 1 .. l : plan.requests[i] # "keep" => i = l /\ Closing
    BY <1>1, <1>7, ClosingIsLast
<1>13. Closing' = Closing /\ Len(plan'.requests) = l /\ open'["server"]
    BY <1>7 DEF Closing
<1>14. CASE keep_alive
    <2>1. a = 2 * f /\ plan.requests[f] = "keep" /\ can_write'["server"]
        BY <1>2, <1>10, <1>14
    <2>2. ~(Closing /\ w + 1 = l)
        <3>1. w + 1 = l => f = l
            BY <1>11
        <3> QED
            BY <1>12, <2>1, <3>1
    <2> QED
        BY ONLY <1>2, <1>3, <1>13, <2>1, <2>2 DEF Closes
<1>15. CASE ~keep_alive
    <2>1. ~can_write'["server"]
        BY <1>1, <1>2, <1>15 DEF Shutdown, TypesOK, Sides
    <2>2. ASSUME ~overtaken' PROVE Closing /\ w + 1 = l
        <3>1. ~(b > w + 1)
            BY <1>2, <1>3, <1>5, <2>2
        <3>2. b = f /\ f = w + 1 /\ plan.requests[f] # "keep"
            BY <1>10, <1>11, <1>15, <3>1
        <3> QED
            BY <1>11, <1>12, <3>2
    <2> QED
        BY ONLY <1>2, <1>3, <1>13, <2>1, <2>2 DEF Closes
<1> QED
    BY <1>2, <1>14, <1>15

\* A write.
LEMMA FlushServing ==
    ASSUME Plain, Serving, Packed(send_list["client"], {"none", "ack"}), NEW s \in Side, Flush(s)
    PROVE  Serving'
<1>1. TypesOK /\ Sides /\ session["server"]
    BY BothSides DEF Plain
<1>2. PICK x : Requests(x) /\ Turns(x.a)
    BY DEF Serving
<1>3. /\ open[s] /\ can_write[s]
      /\ UNCHANGED <<plan, session, open, data, upgrade, keep_alive, ws, started, owed, got, begun>>
    BY DEF Flush
<1>4. Sent' = Sent /\ Upgrades' = Upgrades /\ (NoFrames => NoFrames')
    BY <1>3 DEF Sent, Upgrades, NoFrames
<1>5. Still("server") /\ data'["server"] = data["server"]
    BY <1>3 DEF Still
<1>6. CASE s = "client"
    <2>1. PICK z : StreamTo("server", z)' /\ Kept(z, x)
        BY <1>1, <1>2, <1>6, Written DEF Sides, Requests
    <2>2. /\ send_list'["server"] = send_list["server"]
          /\ UNCHANGED <<can_write, written, overtaken>>
        <3>1. \A callback \in {"none", "ack"} :
                  Completion("client", callback) => UNCHANGED <<can_write, written, overtaken>>
            BY <1>1, CompletionTypes DEF Sides
        <3>2. send_list'["server"] = send_list["server"]
            BY <1>1, <1>6 DEF Flush, TypesOK, Sides
        <3>3. Flushed("client", {"none", "ack"})
            BY <1>1, <1>6, FlushOwn DEF Sides
        <3> QED
            BY ONLY <3>1, <3>2, <3>3 DEF Flushed
    <2>3. Closes'
        BY <1>3, <2>2, ClosesStay DEF Serving
    <2> QED
        BY <1>2, <1>3, <2>1, <2>2, <2>3, ServingStays
<1>7. CASE s = "server"
    <2>1. wire'["server"] = wire["server"] /\ send_list'["client"] = send_list["client"]
        BY <1>1, <1>7 DEF Flush, TypesOK, Sides
    <2>2. Requests(x)'
        <3>1. StreamTo("server", x)'
            BY <1>1, <1>2, <1>5, <2>1, StreamStays DEF Sides, Requests
        <3> QED
            BY <1>2, <1>3, <1>4, <3>1, RequestsMove
    <2>3. /\ Packed(send_list'["server"], {"response"})
          /\ \/ /\ Len(send_list["server"]) = Len(send_list'["server"]) + 1
                /\ Len(send_list'["server"]) \in Nat
                /\ Completion("server", "response")
             \/ /\ Len(send_list'["server"]) = Len(send_list["server"])
                /\ UNCHANGED <<can_write, written, overtaken>>
        <3>1. Packed(send_list'["server"], {"response"}) /\ Flushed("server", {"response"})
            BY <1>1, <1>2, <1>7, FlushOwn DEF Turns, Sides
        <3> QED
            BY ONLY <3>1 DEF Flushed
    <2>4. Closes' /\ Finished' = Finished /\ written' \in Nat
        <3>1. written \in Nat /\ owed \in Nat
            BY <1>1, <1>2 DEF Turns, TypesOK
        <3>2. CASE /\ Len(send_list["server"]) = Len(send_list'["server"]) + 1
                   /\ Len(send_list'["server"]) \in Nat
                   /\ Completion("server", "response")
            <4>1. Closes' /\ written' = written + 1
                BY <1>2, <1>3, <1>7, <3>2, AnswerWritten
            <4>2. PICK n \in Nat : n = Len(send_list'["server"])
                BY <3>2
            <4>3. owed + (n + 1) + written = owed + n + (written + 1) /\ written + 1 \in Nat
                BY <3>1
            <4>4. Finished' = Finished
                BY <1>3, <3>2, <4>1, <4>2, <4>3 DEF Finished
            <4> QED
                BY ONLY <4>1, <4>3, <4>4
        <3>3. CASE /\ Len(send_list'["server"]) = Len(send_list["server"])
                   /\ UNCHANGED <<can_write, written, overtaken>>
            BY <1>3, <3>1, <3>3, ClosesStay DEF Serving, Finished
        <3> QED
            BY <2>3, <3>2, <3>3
    <2>5. Turns(x.a)'
        <3>1. plan' = plan /\ keep_alive' = keep_alive /\ begun' = begun
            BY <1>3
        <3> QED
            BY ONLY <1>2, <2>3, <2>4, <3>1 DEF Turns
    <2> QED
        BY <1>4, <2>2, <2>4, <2>5 DEF Serving
<1> QED
    BY <1>6, <1>7 DEF Side

\* A read, a close, a shutdown by the client, or no step.
LEMMA OtherServing ==
    ASSUME Plain, Serving, NEW s \in Side,
           Receive(s) \/ OnDisconnect(s) \/ Bye \/ UNCHANGED vars
    PROVE  Serving'
<1>1. TypesOK /\ Sides
    BY BothSides DEF Plain
<1>2. PICK x : Requests(x) /\ Turns(x.a)
    BY DEF Serving
<1>3. Kept(x, x)
    BY DEF Kept
<1>4. /\ UNCHANGED <<plan, upgrade, keep_alive, ws, send_list, started, owed, got, begun, written,
                     overtaken>>
      /\ session'["client"] => session["client"]
    BY <1>1 DEF Receive, OnDisconnect, Bye, vars, turns, tcp, TypesOK, Sides
<1>5. Closes'
    <2>1. open'["server"] => open["server"] /\ can_write'["server"] = can_write["server"]
        BY <1>1 DEF Receive, OnDisconnect, Bye, Shutdown, vars, tcp, TypesOK, Sides
    <2> QED
        BY <1>4, <2>1, ClosesStay DEF Serving
<1>6. Still("server")
    BY <1>4 DEF Still
<1>7. CASE data'["server"] = data["server"] /\ wire'["server"] = wire["server"]
    <2>1. StreamTo("server", x)'
        BY <1>2, <1>4, <1>6, <1>7, StreamStays DEF Requests
    <2> QED
        BY <1>2, <1>3, <1>4, <1>5, <2>1, ServingStays
<1>8. CASE Receive("server")
    <2>1. PICK z : StreamTo("server", z)' /\ Kept(z, x)
        BY <1>1, <1>2, <1>8, Arrived DEF Sides, Requests
    <2> QED
        BY <1>2, <1>4, <1>5, <2>1, ServingStays
<1>9. CASE Receive("client") \/ OnDisconnect(s) \/ Bye \/ UNCHANGED vars
    <2>1. data'["server"] = data["server"] /\ wire'["server"] = wire["server"]
        BY <1>1, <1>9 DEF Receive, OnDisconnect, Bye, vars, TypesOK, Sides
    <2> QED
        BY <1>7, <2>1
<1> QED
    BY <1>8, <1>9 DEF Side


\* The stream of requests when the server's parser takes an element of it.
LEMMA RequestRead ==
    ASSUME Plain, Serving, Shown, NEW e, Execute("server", e), UNCHANGED <<upgrade, ws>>,
           e.half = 1 \/ e.value \notin Switches, send_list'["client"] = send_list["client"],
           NEW x, Requests(x)
    PROVE  /\ \E z : Requests(z)' /\ z.a = x.a + 1
           /\ Placed("server", x, e) /\ Closes' /\ NoFrames' /\ Upgrades' = Upgrades
           /\ plan' = plan /\ written' = written
<1>1. TypesOK /\ Sides /\ ~upgrade["server"]
    BY BothSides, NotSwitched DEF Plain, Serving, Sides
<1>2. UNCHANGED <<plan, session, open, can_write, wire, started, got, written, overtaken>>
    BY DEF Execute, tcp
<1>3. StreamTo("server", x) /\ Still("server")
    BY <1>2 DEF Requests, Still
<1>4. Placed("server", x, e)
    BY <1>1, <1>3, ElementPlaced DEF Sides
<1>5. PICK z : StreamTo("server", z)' /\ Stepped(z, x, 1)
    BY <1>1, <1>3, MessageParsed DEF Sides
<1>6. Sent' = Sent /\ Upgrades' = Upgrades /\ NoFrames'
    BY <1>2 DEF Serving, Sent, Upgrades, NoFrames
<1>7. Requests(z)' /\ z.a = x.a + 1
    BY <1>2, <1>5, <1>6, RequestsMove DEF Stepped
<1>8. Closes'
    BY <1>2, ClosesStay DEF Serving
<1> QED
    BY <1>2, <1>4, <1>6, <1>7, <1>8

\* A request is begun: it is not keep-alive yet.
LEMMA RequestBegun ==
    ASSUME Plain, Serving, Shown, NEW e, MessageBegin("server", e)
    PROVE  Serving'
<1>1. TypesOK /\ Sides
    BY BothSides DEF Plain
<1>2. PICK x : Requests(x) /\ Turns(x.a)
    BY DEF Serving
<1>3. /\ Execute("server", e) /\ e.half = 1 /\ ~keep_alive' /\ begun' = begun + 1
      /\ UNCHANGED <<upgrade, ws, send_list, owed>>
    BY DEF MessageBegin
<1>4. /\ \E z : Requests(z)' /\ z.a = x.a + 1
      /\ Placed("server", x, e) /\ Closes' /\ NoFrames' /\ Upgrades' = Upgrades
      /\ plan' = plan /\ written' = written
    BY <1>2, <1>3, RequestRead
<1>5. PICK z : Requests(z)' /\ z.a = x.a + 1
    BY <1>4
<1>6. PICK a \in Nat : a = x.a
    BY <1>2, RequestsKnown
<1>7. (a + 1) % 2 = 1
    BY ONLY <1>3, <1>4, <1>6 DEF Placed
<1>8. PICK f \in Nat : f = Finished
    BY <1>1, <1>2 DEF Finished, Turns, TypesOK, Packed
<1>9. a = 2 * f /\ begun = f
    <2>1. (a = 2 * f /\ begun = f) \/ a = 2 * f + 1
        BY ONLY <1>2, <1>6, <1>8 DEF Turns
    <2> QED
        BY <1>7, <2>1
<1>10. Finished' = f /\ begun' = f + 1 /\ z.a = 2 * f + 1
    BY <1>3, <1>4, <1>5, <1>6, <1>8, <1>9 DEF Finished
<1>11. begun' \in Nat /\ written' \in Nat /\ Packed(send_list'["server"], {"response"})
    BY <1>2, <1>3, <1>4, <1>8, <1>10 DEF Turns
<1>12. Turns(z.a)'
    BY ONLY <1>3, <1>10, <1>11 DEF Turns
<1> QED
    BY <1>4, <1>5, <1>12 DEF Serving

\* A request is parsed, and answered at once or later.
LEMMA RequestOver ==
    ASSUME Plain, Serving, Shown, NEW e, RequestComplete(e)
    PROVE  Serving'
<1>1. TypesOK /\ Sides /\ session["server"]
    BY BothSides DEF Plain
<1>2. PICK x : Requests(x) /\ Turns(x.a)
    BY DEF Serving
<1>3. /\ Execute("server", e) /\ e.half = 2 /\ e.value # "upgrade"
      /\ keep_alive' = (e.value = "keep") /\ UNCHANGED <<upgrade, ws, begun>>
      /\ \/ owed' = owed + 1 /\ UNCHANGED send_list
         \/ Send("server", Message("response", "plain"), "response") /\ UNCHANGED owed
    BY DEF RequestComplete
<1>4. e.value \notin Switches
    <2>1. Placed("server", x, e)
        BY <1>1, <1>2, <1>3, NotSwitched, ElementPlaced DEF Serving, Sides, Requests
    <2> QED
        BY <1>3, <2>1 DEF Placed, Switches
<1>5. send_list'["client"] = send_list["client"]
    BY <1>1, <1>3, SendTypes DEF TypesOK, Sides
<1>6. /\ \E z : Requests(z)' /\ z.a = x.a + 1
      /\ Placed("server", x, e) /\ Closes' /\ NoFrames' /\ Upgrades' = Upgrades
      /\ plan' = plan /\ written' = written
    BY <1>2, <1>3, <1>4, <1>5, RequestRead
<1>7. PICK z : Requests(z)' /\ z.a = x.a + 1
    BY <1>6
<1>8. PICK a \in Nat : a = x.a
    BY <1>2, RequestsKnown
<1>9. (a + 1) % 2 # 1
    BY ONLY <1>3, <1>6, <1>8 DEF Placed
<1>10. PICK f \in Nat : f = Finished
    BY <1>1, <1>2 DEF Finished, Turns, TypesOK, Packed
<1>11. a = 2 * f + 1 /\ begun = f + 1
    <2>1. a = 2 * f \/ (a = 2 * f + 1 /\ begun = f + 1)
        BY ONLY <1>2, <1>8, <1>10 DEF Turns
    <2> QED
        BY <1>9, <2>1
<1>12. e.value = plan.requests[f + 1]
    <2>1. PICK d \in Nat : d = x.B[0]
        BY <1>2, RequestsKnown
    <2>2. a < d /\ e = x.T[a + 1]
        BY ONLY <1>6, <1>8, <2>1 DEF Placed
    <2>3. a + 1 \in 1 .. d /\ (a + 1 + 1) \div 2 = f + 1
        BY <1>11, <2>2
    <2>4. x.T[a + 1].value = plan.requests[(a + 1 + 1) \div 2]
        BY ONLY <1>2, <2>1, <2>3 DEF Requests
    <2> QED
        BY <2>2, <2>3, <2>4
<1>13. /\ Finished' = f + 1 /\ written' \in Nat
       /\ Packed(send_list'["server"], {"response"})
    <2>1. PICK w \in Nat : w = written
        BY <1>2 DEF Turns
    <2>2. PICK o \in Nat : o = owed
        BY <1>1 DEF TypesOK
    <2>3. PICK n \in Nat : n = Len(send_list["server"])
        BY <1>2 DEF Turns, Packed
    <2>4. f = o + n + w /\ written' = w
        BY <1>6, <1>10, <2>1, <2>2, <2>3 DEF Finished
    <2>5. CASE owed' = owed + 1 /\ UNCHANGED send_list
        <3>1. Finished' = o + 1 + n + w
            BY <2>2, <2>3, <2>4, <2>5 DEF Finished
        <3> QED
            BY <1>2, <2>4, <2>5, <3>1 DEF Turns
    <2>6. CASE Send("server", Message("response", "plain"), "response") /\ UNCHANGED owed
        <3>1. Packed(send_list'["server"], {"response"}) /\ Len(send_list'["server"]) = n + 1
            BY <1>1, <1>2, <2>3, <2>6, SendPacked DEF Turns, Sides
        <3>2. Finished' = o + (n + 1) + w
            BY <2>2, <2>4, <2>6, <3>1 DEF Finished
        <3> QED
            BY <2>4, <3>1, <3>2
    <2> QED
        BY <1>3, <2>5, <2>6
<1>14. begun' = f + 1 /\ begun' \in Nat /\ z.a = 2 * (f + 1) /\ f + 1 > 0
    BY <1>3, <1>7, <1>8, <1>11
<1>15. keep_alive' <=> plan'.requests[f + 1] = "keep"
    BY <1>3, <1>6, <1>12
<1>16. Turns(z.a)'
    BY ONLY <1>13, <1>14, <1>15 DEF Turns
<1> QED
    BY <1>6, <1>7, <1>16 DEF Serving

\* No side upgrades, and what the client parses does not matter to the server.
LEMMA HttpServing ==
    ASSUME Plain, Serving, Shown, NEW s \in Side, NEW e, HttpStep(s, e)
    PROVE  Serving'
<1>1. TypesOK /\ Sides
    BY BothSides DEF Plain
<1>2. PICK x : Requests(x) /\ Turns(x.a)
    BY DEF Serving
<1>3. PICK p, q : Linked(p, q) /\ ~p.u /\ ~q.u
    BY NotSwitched DEF Serving
<1>4. ~UpgradeComplete(s, e)
    <2>1. WsTypes /\ ~upgrade[s]
        BY NotSwitched DEF Serving, Shown
    <2>2. PICK v : v = At(s, p, q)
        OBVIOUS
    <2>3. StreamTo(s, v) /\ ~v.u
        BY <1>1, <1>3, <2>2, LinkedKnown DEF At
    <2> QED
        BY <1>1, <2>1, <2>3, UpgradeParsed
<1>5. ASSUME s = "client", MessageBegin(s, e) \/ ResponseComplete(e)
      PROVE  Serving'
    <2>1. Execute("client", e) /\ UNCHANGED <<upgrade, keep_alive, ws, send_list, owed, begun>>
        BY <1>1, <1>5 DEF MessageBegin, ResponseComplete, TypesOK
    <2>2. /\ UNCHANGED <<plan, session, open, can_write, wire, started, got, written, overtaken>>
          /\ data'["server"] = data["server"]
        BY <1>1, <2>1 DEF Execute, tcp, TypesOK, Sides
    <2>3. Still("server")
        BY <2>1, <2>2 DEF Still
    <2>4. StreamTo("server", x)'
        BY <1>1, <1>2, <2>1, <2>2, <2>3, StreamStays DEF Sides, Requests
    <2>5. Closes' /\ Kept(x, x)
        BY <2>2, ClosesStay DEF Serving, Kept
    <2> QED
        BY <1>2, <2>1, <2>2, <2>4, <2>5, ServingStays
<1> QED
    BY <1>4, <1>5, RequestBegun, RequestOver DEF HttpStep, Side

\* The handshake is begun when every request is answered and written.
LEMMA AllAnswered ==
    ASSUME Plain, Serving, Shown, StartWsHandshake
    PROVE  owed = 0 /\ send_list["server"] = <<>>
<1>1. TypesOK /\ Sides
    BY BothSides DEF Plain
<1>2. ~Upgrades /\ answered = Len(plan.requests)
    BY DEF StartWsHandshake, Upgrades
<1>3. PICK x, y : Linked(x, y) /\ ~x.u /\ ~y.u
    BY NotSwitched DEF Serving
<1>4. Asked(x, y) /\ Known("server", x) /\ Known("client", y) /\ StreamTo("client", y)
    BY <1>1, <1>3, LinkedKnown DEF Linked
<1>5. PICK k \in Nat : k = Sent
    BY <1>1 DEF TypesOK, Sent, Sides
<1>6. PICK l \in Nat : l = answered /\ k <= l
    BY <1>1, <1>2, <1>5 DEF TypesOK, Plain
<1>7. PICK o \in Nat : o = owed
    BY <1>1 DEF TypesOK
<1>8. PICK a \in Nat : a = x.a
    BY <1>4 DEF Known
<1>9. PICK c \in Nat : c = x.B[0] /\ a <= c
    BY <1>3, <1>4, <1>8 DEF Known
<1>10. PICK b \in Nat : b = y.a
    BY <1>4 DEF Known
<1>11. PICK d \in Nat : d = y.B[0] /\ b <= d
    BY <1>3, <1>4, <1>10 DEF Known
<1>12. 2 * l <= b /\ 2 * o + d <= a /\ c <= 2 * k
    BY ONLY <1>2, <1>4, <1>5, <1>6, <1>7, <1>8, <1>9, <1>10, <1>11 DEF Asked
<1>13. o = 0 /\ b = d
    BY <1>6, <1>9, <1>11, <1>12
<1>14. y.m = 0
    BY ONLY <1>3, <1>4 DEF Known
<1>15. /\ Layout(y, data["client"], wire["client"], send_list["server"])
       /\ y.E[y.q] = y.B[y.m]
    BY ONLY <1>1, <1>4 DEF StreamTo, Stream, Content, Ends, Sides
<1>16. y.a = y.E[y.q]
    BY <1>10, <1>11, <1>13, <1>14, <1>15
<1>17. send_list["server"] = <<>>
    BY <1>15, <1>16, NothingWaits
<1> QED
    BY <1>7, <1>13, <1>17

\* From then on no more requests are parsed.
LEMMA HandshakeBegun ==
    ASSUME Plain, Serving, Shown, StartWsHandshake
    PROVE  Switching'
<1>1. TypesOK /\ Sides /\ plan \in Plans
    BY BothSides DEF Plain, TypesOK
<1>2. /\ plan.websocket /\ Send("client", Message("request", "upgrade"), "none")
      /\ started' = [started EXCEPT !["client"].handshake = TRUE]
      /\ UNCHANGED <<open, can_write, upgrade, owed, overtaken>>
    BY DEF StartWsHandshake, tcp, turns
<1>3. Upgrades' /\ \A r \in Side : started'[r].frames = started[r].frames
    BY <1>1, <1>2, HandshakeBegins, HandshakeStarted
<1>4. owed' = 0 /\ send_list'["server"] = <<>>
    <2>1. owed = 0 /\ send_list["server"] = <<>>
        BY AllAnswered
    <2>2. send_list'["server"] = send_list["server"]
        BY <1>1, <1>2, SendTypes DEF TypesOK, Sides
    <2> QED
        BY <1>2, <2>1, <2>2
<1>5. Packed(send_list'["server"], {"none", "ack"})
    BY <1>4, PackedNothing
<1>6. open'["server"] => can_write'["server"] \/ overtaken'
    <2>1. ~Closing
        BY <1>1, <1>2, ClosingIsLast
    <2> QED
        BY <1>2, <2>1 DEF Serving, Closes
<1>7. NoFrames' /\ ~upgrade'["server"]
    <2>1. ~upgrade["server"]
        BY <1>1, NotSwitched DEF Serving, Sides
    <2> QED
        BY <1>2, <1>3, <2>1 DEF Serving, NoFrames
<1> QED
    BY <1>3, <1>4, <1>5, <1>6, <1>7 DEF Switching

\* Every step of the requests and answers.
LEMMA ServingStep ==
    ASSUME Answered, Serving, [Next]_vars
    PROVE  Serving' \/ Switching'
<1>1. Plain /\ Shown /\ Packed(send_list["client"], {"none", "ack"})
    BY InStepAtFirst DEF Answered, Serving, ShownInStep
<1>2. CASE SendRequest \/ StartWsHandshake \/ SendResponse \/ Bye \/ UNCHANGED vars
    BY <1>1, <1>2, SendRequestServing, HandshakeBegun, SendResponseServing, OtherServing, BothSides
       DEF Sides
<1>3. ASSUME NEW s \in Side, SendWsFrame(s) \/ WsStep(s) PROVE FALSE
    <2>1. success[s] = 0 /\ pc[s] \notin {"try_ws_parse", "frames"}
        BY <1>1, NotSwitched DEF Serving
    <2>2. ~SendWsFrame(s)
        BY <2>1 DEF SendWsFrame
    <2>3. ~WsStep(s)
        BY <1>1, <2>1, WsStepTypes DEF WsStep, Plain
    <2> QED
        BY <1>3, <2>2, <2>3
<1>4. ASSUME NEW s \in Side, Flush(s) PROVE Serving'
    BY <1>1, <1>4, FlushServing
<1>5. ASSUME NEW s \in Side, Receive(s) \/ OnDisconnect(s) PROVE Serving'
    BY <1>1, <1>5, OtherServing
<1>6. ASSUME NEW s \in Side, NEW e, HttpStep(s, e) PROVE Serving'
    BY <1>1, <1>6, HttpServing
<1> QED
    BY <1>2, <1>3, <1>4, <1>5, <1>6, NextCases

\* Nobody hears of a handshake before the server has parsed it.
LEMMA NotAgreed ==
    ASSUME Plain, Shown, ~upgrade["server"]
    PROVE  \A s \in Side : success[s] = 0
<1>1. TypesOK
    BY DEF Plain
<1>2. PICK x, y : Linked(x, y)
    BY DEF Shown
<1>3. Switched(y) /\ Known("client", y)
    BY <1>1, <1>2, LinkedKnown DEF Linked
<1>4. ~y.u
    BY ONLY <1>3, ~upgrade["server"] DEF Switched
<1>5. ~upgrade["client"]
    BY ONLY <1>3, <1>4 DEF Known
<1>6. success["server"] = 0 /\ success["client"] = 0
    BY ONLY <1>3, <1>4, <1>5 DEF Switched
<1> QED
    BY <1>6 DEF Side

\* Without answers in the lists the server shuts down only when it closes.
LEMMA StillWrites ==
    ASSUME TypesOK, \A s \in Side : Packed(send_list[s], {"none", "ack"}), [Next]_vars,
           open'["server"]
    PROVE  /\ open["server"] /\ can_write'["server"] = can_write["server"]
           /\ overtaken' = overtaken
<1>1. Sides
    BY BothSides
<1>2. CASE UNCHANGED <<open, can_write, overtaken>>
    BY <1>2
<1>3. CASE SendRequest \/ StartWsHandshake \/ SendResponse \/ UNCHANGED vars
    BY <1>3 DEF SendRequest, StartWsHandshake, SendResponse, vars, tcp, turns
<1>4. CASE Bye
    BY <1>1, <1>4 DEF Bye, Shutdown, turns, TypesOK, Sides
<1>5. ASSUME NEW s \in Side, SendWsFrame(s) \/ Receive(s) \/ WsStep(s)
      PROVE  UNCHANGED <<open, can_write, overtaken>>
    BY <1>5, WsStepTypes DEF SendWsFrame, Receive, WsStep, tcp, turns
<1>6. ASSUME NEW s \in Side, Flush(s) PROVE UNCHANGED <<open, can_write, overtaken>>
    <2>1. Flushed(s, {"none", "ack"}) /\ open' = open
        BY <1>6, FlushOwn DEF Flush
    <2>2. \A callback \in {"none", "ack"} : Completion(s, callback) => UNCHANGED <<can_write, overtaken>>
        BY CompletionTypes
    <2> QED
        BY <2>1, <2>2 DEF Flushed
<1>7. ASSUME NEW s \in Side, OnDisconnect(s)
      PROVE  open["server"] /\ can_write'["server"] = can_write["server"] /\ overtaken' = overtaken
    <2>1. s # "server"
        BY <1>1, <1>7 DEF OnDisconnect, TypesOK, Sides
    <2> QED
        BY <1>1, <1>7, <2>1 DEF OnDisconnect, Shutdown, turns, TypesOK, Sides
<1>8. ASSUME NEW s \in Side, NEW e, HttpStep(s, e) PROVE UNCHANGED <<open, can_write, overtaken>>
    BY <1>8, HttpStepTypes DEF HttpStep, Execute, tcp
<1> QED
    BY <1>2, <1>3, <1>4, <1>5, <1>6, <1>7, <1>8, NextCases

\* Every step from the handshake on.
LEMMA SwitchingStep ==
    ASSUME Answered, Switching, [Next]_vars
    PROVE  Switching'
<1> DEFINE Reading == IF upgrade["server"] THEN pc["server"] # "execute" ELSE NoFrames
<1>1. TypesOK /\ Sides /\ Plain /\ Upgrades /\ owed = 0 /\ Reading
    BY BothSides DEF Answered, ShownInStep, Plain, Switching
<1>2. ~upgrade["server"] => NoFrames /\ Shown
    BY <1>1, InStepAtFirst DEF Answered, ShownInStep
<1>3. ~SendResponse /\ ~StartWsHandshake
    BY <1>1 DEF SendResponse, StartWsHandshake, Upgrades
<1>4. \A e : ~RequestComplete(e)
    <2>1. CASE upgrade["server"]
        BY <1>1, <2>1 DEF RequestComplete, Execute
    <2>2. CASE ~upgrade["server"]
        BY <1>1, <1>2, <2>2, NotTheHandshake
    <2> QED
        BY <2>1, <2>2
<1>5. Packed(send_list'["server"], {"none", "ack"})
    BY <1>1, <1>3, <1>4, NoAnswersStep DEF Switching, Sides
<1>6. open'["server"] => can_write'["server"] \/ overtaken'
    <2>1. \A s \in Side : Packed(send_list[s], {"none", "ack"})
        BY DEF Answered, Switching, Side
    <2> QED
        BY <1>1, <2>1, StillWrites DEF Switching
<1>7. ASSUME UNCHANGED <<started, upgrade, pc, owed>> PROVE Upgrades' /\ owed' = 0 /\ Reading'
    BY <1>1, <1>7 DEF Upgrades, NoFrames
<1>8. ASSUME SendRequest PROVE Upgrades' /\ owed' = 0 /\ Reading'
    <2>1. PICK k \in Nat : k = Sent + 1
        BY <1>1 DEF TypesOK, Sent, Sides
    <2>2. started' = [started EXCEPT !["client"].requests = k] /\ UNCHANGED <<upgrade, pc, owed>>
        BY <1>8, <2>1 DEF SendRequest, Sent
    <2>3. Upgrades' = Upgrades /\ \A r \in Side : started'[r].frames = started[r].frames
        BY ONLY <1>1, <2>2, RequestStarted, k \in Nat
    <2> QED
        BY <1>1, <2>2, <2>3 DEF NoFrames
<1>9. ASSUME Bye \/ UNCHANGED vars PROVE Upgrades' /\ owed' = 0 /\ Reading'
    BY <1>7, <1>9 DEF Bye, vars
<1>10. ASSUME NEW s \in Side, SendWsFrame(s) PROVE Upgrades' /\ owed' = 0 /\ Reading'
    <2>1. upgrade["server"]
        BY <1>1, <1>2, <1>10, NotAgreed DEF SendWsFrame
    <2> DEFINE n == started[s].frames + 1
    <2>2. started' = [started EXCEPT ![s].frames = n] /\ UNCHANGED <<upgrade, pc, owed>>
        BY <1>10 DEF SendWsFrame
    <2> HIDE DEF n
    <2>3. Upgrades' = Upgrades
        BY <1>1, <2>2, FrameBegins
    <2> QED
        BY <1>1, <2>1, <2>2, <2>3
<1>11. ASSUME NEW s \in Side, Flush(s) \/ OnDisconnect(s) PROVE Upgrades' /\ owed' = 0 /\ Reading'
    BY <1>7, <1>11 DEF Flush, OnDisconnect
<1>12. ASSUME NEW s \in Side, Receive(s) PROVE Upgrades' /\ owed' = 0 /\ Reading'
    <2>1. UNCHANGED <<started, upgrade, owed>>
        BY <1>12 DEF Receive
    <2>2. upgrade["server"] => pc'["server"] # "execute"
        BY <1>1, <1>12 DEF Receive, TypesOK, Sides
    <2> QED
        BY <1>1, <2>1, <2>2 DEF Upgrades, NoFrames
<1>13. ASSUME NEW s \in Side, WsStep(s) PROVE Upgrades' /\ owed' = 0 /\ Reading'
    <2>1. UNCHANGED <<started, upgrade, owed>>
          /\ \E to \in {"frames", "stuck", "idle"} : pc' = [pc EXCEPT ![s] = to]
        BY <1>1, <1>13, WsStepTypes DEF WsStep
    <2>2. upgrade["server"] => pc'["server"] # "execute"
        BY <1>1, <2>1 DEF TypesOK, Sides
    <2> QED
        BY <1>1, <2>1, <2>2 DEF Upgrades, NoFrames
<1>14. ASSUME NEW s \in Side, NEW e, HttpStep(s, e) PROVE Upgrades' /\ owed' = 0 /\ Reading'
    <2>1. Execute(s, e) /\ started' = started
        BY <1>1, <1>14, HttpStepTypes DEF HttpStep, Execute
    <2>2. CASE s = "client"
        <3>1. owed' = owed /\ upgrade'["server"] = upgrade["server"] /\ pc'["server"] = pc["server"]
            BY <1>1, <1>14, <2>2
            DEF HttpStep, MessageBegin, UpgradeComplete, ResponseComplete, Goes, TypesOK, Sides
        <3> QED
            BY <1>1, <2>1, <3>1 DEF Upgrades, NoFrames
    <2>3. CASE s = "server" /\ MessageBegin(s, e)
        <3>1. owed' = owed /\ upgrade' = upgrade /\ ~upgrade["server"]
            BY <1>1, <2>1, <2>3 DEF MessageBegin, Execute
        <3> QED
            BY <1>1, <2>1, <3>1 DEF Upgrades, NoFrames
    <2>4. CASE s = "server" /\ UpgradeComplete(s, e)
        <3>1. owed' = owed /\ upgrade'["server"] /\ pc'["server"] = "try_ws_parse"
            BY <1>1, <2>4 DEF UpgradeComplete, TypesOK, Sides
        <3> QED
            BY <1>1, <2>1, <3>1 DEF Upgrades
    <2> QED
        BY <1>4, <1>14, <2>2, <2>3, <2>4 DEF HttpStep, Side
<1>15. Upgrades' /\ owed' = 0 /\ Reading'
    BY <1>3, <1>8, <1>9, <1>10, <1>11, <1>12, <1>13, <1>14, NextCases
<1> QED
    BY <1>5, <1>6, <1>15 DEF Switching

\* At first there are no requests.
LEMMA AnsweredInit ==
    ASSUME Init
    PROVE  Answered
<1>1. Plain /\ Shown /\ TypesOK /\ Sides
    BY ShownInit, BothSides DEF Plain
<1>2. /\ Sent = 0 /\ ~Upgrades /\ owed = 0 /\ begun = 0 /\ written = 0 /\ ~keep_alive
      /\ \A s \in Side : send_list[s] = <<>> /\ started[s].frames = 0 /\ can_write[s]
    BY DEF Init, Sent, Upgrades, Side
<1>3. PICK x, y : Linked(x, y)
    BY <1>1 DEF Shown
<1>4. Asked(x, y) /\ Known("server", x) /\ StreamTo("server", x)
    BY <1>1, <1>3, LinkedKnown DEF Linked
<1>5. PICK c \in Nat : c = x.B[0]
    BY <1>4 DEF Known
<1>6. c <= 2 * 0 /\ ~x.u
    BY ONLY <1>2, <1>4, <1>5 DEF Asked
<1>7. PICK a \in Nat : a = x.a /\ a <= c
    BY <1>4, <1>5, <1>6 DEF Known
<1>8. a = 0 /\ c = 0
    BY <1>6, <1>7
<1>9. Requests(x)
    <2>1. x.B[0] <= 2 * Sent /\ x.B[0] = 2 * Sent
        BY <1>2, <1>5, <1>8
    <2>2. \A i \in 1 .. x.B[0] : FALSE
        BY <1>5, <1>8
    <2> QED
        BY <1>4, <1>6, <2>1, <2>2 DEF Requests
<1>10. \A s \in Side : \A C : Packed(send_list[s], C)
    BY <1>2, PackedNothing
<1>11. Finished = 0
    BY <1>1, <1>2 DEF Finished, Sides
<1>12. Turns(0)
    BY <1>1, <1>2, <1>10, <1>11 DEF Turns, Sides
<1>13. Turns(x.a)
    BY ONLY <1>7, <1>8, <1>12
<1>14. Closes
    <2>1. Closing => Len(plan.requests) > 0
        BY <1>1, ClosingIsLast DEF TypesOK
    <2> QED
        BY <1>1, <1>2, <2>1 DEF Closes, Sides
<1>15. Serving
    BY <1>2, <1>9, <1>13, <1>14 DEF Serving, NoFrames
<1> QED
    BY <1>1, <1>10, <1>15 DEF Answered, ShownInStep, Sides

\* Every step keeps it.
LEMMA AnsweredStep ==
    ASSUME Answered, [Next]_vars
    PROVE  Answered'
<1>1. TypesOK /\ Sides
    BY BothSides DEF Answered, ShownInStep, Plain
<1>2. ShownInStep'
    BY InStepStep DEF Answered
<1>3. Packed(send_list'["client"], {"none", "ack"})
    BY <1>1, NoAnswersStep DEF Answered, Sides
<1>4. Serving' \/ Switching'
    BY ServingStep, SwitchingStep DEF Answered
<1> QED
    BY <1>2, <1>3, <1>4 DEF Answered

\* What is parsed, answered and written, and what closes the connection.
LEMMA LastWritten ==
    ASSUME Plain, Shown, Serving
    PROVE  /\ written = Len(plan.requests) => /\ Sent = Len(plan.requests) /\ owed = 0
                                             /\ send_list["server"] = <<>>
           /\ Sent = Len(plan.requests) /\ owed = 0 /\ (\A s \in Side : Drained(s))
                 => written = Len(plan.requests)
<1>1. TypesOK /\ Sides
    BY BothSides DEF Plain
<1>2. PICK x : Requests(x) /\ Turns(x.a)
    BY DEF Serving
<1>3. PICK w \in Nat : w = written
    BY <1>2 DEF Turns
<1>4. PICK o \in Nat : o = owed
    BY <1>1 DEF TypesOK
<1>5. PICK n \in Nat : n = Len(send_list["server"]) /\ (n = 0 <=> send_list["server"] = <<>>)
    <2>1. \E S : send_list["server"] \in Seq(S)
        BY <1>2 DEF Turns, Packed
    <2> QED
        BY <2>1, LenProperties, EmptySeq
<1>6. PICK a \in Nat : a = x.a
    BY <1>2, RequestsKnown
<1>7. PICK k \in Nat : k = Sent
    BY <1>2, RequestsKnown
<1>8. PICK l \in Nat : l = Len(plan.requests) /\ k <= l
    BY <1>2, <1>7, RequestsKnown
<1>9. PICK d \in Nat : d = x.B[0] /\ a <= d
    BY <1>2, <1>6, RequestsKnown
<1>10. d <= 2 * k /\ (session["client"] => d = 2 * k)
    BY ONLY <1>2, <1>7, <1>9 DEF Requests
<1>11. Finished = o + n + w
    BY <1>3, <1>4, <1>5 DEF Finished
<1>12. a = 2 * (o + n + w) \/ a = 2 * (o + n + w) + 1
    BY ONLY <1>2, <1>6, <1>11 DEF Turns
<1>13. ASSUME w = l PROVE k = l /\ o = 0 /\ n = 0
    <2>0. /\ o \in Nat /\ n \in Nat /\ a \in Nat /\ k \in Nat /\ l \in Nat /\ d \in Nat
          /\ a <= d
        BY <1>9
    <2>1. d <= 2 * k /\ k <= l
        BY <1>8, <1>10
    <2>2. a = 2 * (o + n + l) \/ a = 2 * (o + n + l) + 1
        BY <1>12, <1>13
    <2>3. 2 * (o + n + l) <= 2 * k
        BY ONLY <2>0, <2>1, <2>2
    <2> QED
        BY ONLY <2>0, <2>1, <2>3
<1>14. ASSUME k = l, o = 0, \A s \in Side : Drained(s) PROVE w = l
    <2>1. session["client"] /\ n = 0
        BY <1>1, <1>5, <1>14 DEF Drained, Shown, Sides
    <2>2. /\ data["server"] = <<>> /\ wire["server"] = <<>> /\ send_list["client"] = <<>>
        BY <1>1, <1>14 DEF Drained, Sides
    <2>3. x.m = 0
        BY <1>2, RequestsKnown DEF Known, Requests
    <2>4. /\ Layout(x, data["server"], wire["server"], send_list["client"]) /\ x.E[x.q] = x.B[x.m]
        BY ONLY <1>1, <1>2 DEF Requests, StreamTo, Stream, Content, Ends, Sides
    <2>5. x.a = x.E[x.q]
        BY <2>2, <2>4, LayoutDrained
    <2>6. a = d
        BY <1>6, <1>9, <2>3, <2>4, <2>5
    <2> QED
        BY <1>10, <1>12, <1>14, <2>1, <2>6
<1> QED
    BY <1>3, <1>4, <1>5, <1>7, <1>8, <1>13, <1>14

\* The server closes the connection after the answer to the request that was
\* not keep-alive, once that and all other answers are written, and not before
\* unless a completion callback read the keep-alive of a later request.  It
\* does so for any number of requests that wait for their answers.
THEOREM LastAnswerCloses == Spec => []KeepAliveRespected
<1>1. Init => Answered
    BY AnsweredInit
<1>2. Answered /\ [Next]_vars => Answered'
    BY AnsweredStep
<1>3. Answered => KeepAliveRespected
    <2> SUFFICES ASSUME Answered PROVE KeepAliveRespected
        OBVIOUS
    <2>1. Plain /\ plan \in Plans /\ Sent = started["client"].requests
        BY DEF Answered, ShownInStep, Plain, TypesOK, Sent
    <2>2. CASE Serving
        <3>1. Shown
            BY <2>2, InStepAtFirst DEF Answered, Serving, ShownInStep
        <3>2. /\ written = Len(plan.requests) => /\ Sent = Len(plan.requests) /\ owed = 0
                                                 /\ send_list["server"] = <<>>
              /\ Sent = Len(plan.requests) /\ owed = 0 /\ (\A s \in Side : Drained(s))
                    => written = Len(plan.requests)
            BY <2>1, <2>2, <3>1, LastWritten
        <3>3. (\A s \in Side : Drained(s)) => open["server"]
            BY BothSides DEF Drained, Sides
        <3> QED
            BY <2>1, <2>2, <3>2, <3>3 DEF Serving, Closes, Closing, KeepAliveRespected
    <2>3. CASE Switching
        <3>1. ~Closing
            BY <2>1, <2>3, ClosingIsLast DEF Switching, Plain
        <3> QED
            BY <2>3, <3>1 DEF Switching, Closing, KeepAliveRespected
    <2> QED
        BY <2>2, <2>3 DEF Answered
<1> QED
    BY <1>1, <1>2, <1>3, PTL DEF Spec

-----------------------------------------------------------------------------
(* What the invariant says of what the callbacks were given.                 *)

\* What has been handed over of the frames in a stream, and what is handed
\* over when the stream is drained.
HandedOver(s, x, k) ==
    /\ k \in 0 .. x.m /\ got[s] = Joined(plan.frames[Other(s)])[k].done
    /\ k > 0 => upgrade[s] /\ ~ws[s].accept
\* What the callback of a side was given are the messages of its first frames.
LEMMA StreamGot ==
    ASSUME NEW s \in Side, NEW x, StreamTo(s, x), plan \in Plans, upgrade \in [Side -> BOOLEAN]
    PROVE  /\ \E k : HandedOver(s, x, k)
           /\ data[s] = <<>> /\ wire[s] = <<>> /\ send_list[Other(s)] = <<>>
                 => HandedOver(s, x, x.m) /\ (x.u => upgrade[s])
<1> DEFINE frames == plan.frames[Other(s)]
<1>0. frames \in Seq(Frame) /\ upgrade[s] \in BOOLEAN
    BY PlanFrames, OtherSide
<1> HIDE DEF frames
<1>1. /\ Layout(x, data[s], wire[s], send_list[Other(s)]) /\ Messages(x, s)
      /\ Texts(x, frames) /\ Ends(x, s) /\ Reader(x, frames, upgrade[s], ws[s], got[s])
    BY DEF StreamTo, Stream, Content, frames
<1>2. /\ x.m \in Nat /\ x.B[0] \in Nat /\ x.B[x.m] \in Nat
      /\ \A i \in 0 .. x.m : /\ x.B[i] \in Nat /\ x.B[i] <= x.B[x.m] /\ x.B[0] <= x.B[i]
                             /\ i < x.m => x.B[i] < x.B[x.m]
      /\ x.m > 0 => x.u
    BY <1>0, <1>1, TextsRise DEF Texts
<1>3. Joined(frames)[0].done = <<>>
    <2>1. Joined(frames)[0] = Nothing
        BY <1>0, JoinedIs
    <2> QED
        BY <2>1 DEF Nothing
<1>4. CASE upgrade[s]
    <2>1. PICK k \in 0 .. x.m : Reads(x, frames, ws[s], got[s], k)
        BY <1>1, <1>4 DEF Reader, ReadsFrames
    <2>2. x.a <= x.B[k] /\ got[s] = Joined(frames)[k].done /\ (k > 0 => ~ws[s].accept)
        BY <2>1 DEF Reads
    <2>3. HandedOver(s, x, k)
        BY <1>4, <2>1, <2>2 DEF HandedOver, frames
    <2>4. ASSUME data[s] = <<>>, wire[s] = <<>>, send_list[Other(s)] = <<>>, x.a = x.B[x.m]
          PROVE  k = x.m
        <3>1. ~(k < x.m)
            BY <1>2, <2>1, <2>2, <2>4
        <3> QED
            BY <1>2, <2>1, <3>1
    <2>5. ASSUME data[s] = <<>>, wire[s] = <<>>, send_list[Other(s)] = <<>> PROVE x.a = x.B[x.m]
        BY <1>1, <2>5, LayoutDrained DEF Ends
    <2> QED
        BY <1>4, <2>3, <2>4, <2>5
<1>5. CASE ~upgrade[s]
    <2>1. x.a <= x.B[0] /\ (x.u => x.a < x.B[0]) /\ got[s] = <<>>
        BY <1>1, <1>5 DEF Reader, ReadsMessages
    <2>2. HandedOver(s, x, 0)
        BY <1>2, <1>3, <2>1 DEF HandedOver, frames
    <2>3. ASSUME data[s] = <<>>, wire[s] = <<>>, send_list[Other(s)] = <<>>
          PROVE  ~x.u /\ x.m = 0
        <3>1. x.a = x.B[x.m]
            BY <1>1, <2>3, LayoutDrained DEF Ends
        <3>2. x.B[0] <= x.a
            BY <1>2, <3>1
        <3>3. PICK a \in Nat : a = x.a
            BY <1>2, <3>1
        <3>4. PICK c \in Nat : c = x.B[0]
            BY <1>2
        <3>5. ~(a < c)
            BY <3>2, <3>3, <3>4
        <3> QED
            BY <1>2, <2>1, <3>3, <3>4, <3>5
    <2> QED
        BY <2>2, <2>3
<1> QED
    BY <1>0, <1>4, <1>5

\* Nothing is handed over of no frames.
LEMMA HandedNothing ==
    ASSUME NEW s \in Side, NEW x, x.m \in Nat, NEW k, HandedOver(s, x, k), plan \in Plans
    PROVE  got[s] # <<>> => k > 0
<1>1. PICK frames \in Seq(Frame) : frames = plan.frames[Other(s)]
    BY OtherSide, PlanFrames
<1>2. Joined(frames)[0] = Nothing
    BY JoinedIs
<1>3. k \in 0 .. x.m /\ got[s] = Joined(frames)[k].done
    BY <1>1 DEF HandedOver
<1>4. k = 0 => got[s] = <<>>
    BY <1>2, <1>3 DEF Nothing
<1> QED
    BY <1>3, <1>4

\* The invariant implies that frames arrive as sent.
LEMMA FramesShown ==
    ASSUME Plain, Shown
    PROVE  FramesAsSent
<1>1. TypesOK /\ Sides /\ plan \in Plans /\ upgrade \in [Side -> BOOLEAN]
    BY BothSides DEF Plain, TypesOK
<1>2. PICK x, y : Linked(x, y)
    BY DEF Shown
<1> SUFFICES ASSUME NEW s \in Side,
                    NEW sent, sent = Joined(plan.frames[Other(s)])[started[Other(s)].frames].done
             PROVE  IsPrefix(got[s], sent) /\ (Drained(s) /\ ~fault => got[s] = sent)
    BY DEF FramesAsSent
<1>3. PICK v : v = At(s, x, y)
    OBVIOUS
<1>4. StreamTo(s, v) /\ Counted(Other(s), v.m)
    <2>1. StreamTo(s, v)
        BY <1>1, <1>2, <1>3, LinkedKnown
    <2>2. v = IF s = "server" THEN x ELSE y
        BY ONLY <1>3 DEF At
    <2>3. Counted("client", x.m) /\ Counted("server", y.m)
        BY <1>2 DEF Linked
    <2>4. s = "server" \/ s = "client"
        BY DEF Side
    <2> QED
        BY ONLY <1>1, <2>1, <2>2, <2>3, <2>4 DEF Sides
<1>5. Other(s) \in Side /\ plan.frames[Other(s)] \in Seq(Frame)
    BY <1>1, OtherSide, PlanFrames
<1>6. PICK frames \in Seq(Frame) : frames = plan.frames[Other(s)]
    BY <1>5
<1>7. PICK n \in Nat : n = started[Other(s)].frames
    BY <1>1, <1>5 DEF TypesOK
<1>8. v.m <= n /\ n <= Len(frames) /\ (session[Other(s)] => v.m = n)
    BY ONLY <1>4, <1>6, <1>7 DEF Counted
<1>9. PICK k : HandedOver(s, v, k)
    BY <1>1, <1>4, StreamGot
<1>10. v.m \in Nat
    BY <1>1, <1>2, <1>3, LinkedKnown DEF Known
<1>11. n \in 0 .. Len(frames) /\ k \in 0 .. n
    <2>1. k \in 0 .. v.m
        BY <1>9 DEF HandedOver
    <2> QED
        BY <1>6, <1>7, <1>8, <1>10, <2>1
<1>12. IsPrefix(got[s], sent)
    <2>1. IsPrefix(Joined(frames)[k].done, Joined(frames)[n].done)
        BY <1>11, JoinedGrows
    <2>2. got[s] = Joined(frames)[k].done
        BY <1>6, <1>9 DEF HandedOver
    <2> QED
        BY ONLY <1>6, <1>7, <2>1, <2>2, sent = Joined(plan.frames[Other(s)])[started[Other(s)].frames].done
<1>13. ASSUME Drained(s) PROVE got[s] = sent
    <2>1. /\ open[Other(s)] /\ data[s] = <<>> /\ wire[s] = <<>> /\ send_list[Other(s)] = <<>>
        BY <1>13 DEF Drained
    <2>2. session[Other(s)]
        BY <1>1, <2>1 DEF Shown, Plain, Side, Other
    <2>3. HandedOver(s, v, n)
        BY <1>1, <1>4, <1>8, <2>1, <2>2, StreamGot
    <2> QED
        BY <1>7, <2>3 DEF HandedOver
<1> QED
    BY <1>12, <1>13

\* The invariant implies that the handshake is completed once, server first.
LEMMA HandshakesShown ==
    ASSUME Plain, Shown
    PROVE  HandshakeOnce
<1>1. TypesOK /\ Sides /\ plan \in Plans /\ upgrade \in [Side -> BOOLEAN]
    BY BothSides DEF Plain, TypesOK
<1>2. PICK x, y : Linked(x, y)
    BY DEF Shown
<1>3. /\ StreamTo("server", x) /\ StreamTo("client", y) /\ Known("server", x) /\ Known("client", y)
      /\ Asked(x, y) /\ Switched(y) /\ Counted("client", x.m) /\ Counted("server", y.m)
    BY <1>1, <1>2, LinkedKnown DEF Linked
<1>4. /\ success["client"] = IF upgrade["client"] /\ ~ws["client"].accept THEN 1 ELSE 0
      /\ success["server"] = IF y.u /\ Past(y) THEN 1 ELSE 0
      /\ y.u <=> upgrade["server"] /\ ~ws["server"].key
    BY ONLY <1>3 DEF Switched
<1>5. upgrade["client"] => y.u /\ Past(y)
    BY ONLY <1>3 DEF Known
<1>6. success["client"] = 1 => success["server"] = 1
    BY ONLY <1>4, <1>5
<1>7. got["client"] # <<>> => success["client"] = 1
    <2>1. PICK k : HandedOver("client", y, k)
        BY <1>1, <1>3, StreamGot DEF Sides
    <2>2. got["client"] # <<>> => k > 0
        BY <1>1, <1>3, <2>1, HandedNothing DEF Sides, Known
    <2> QED
        BY <1>4, <2>1, <2>2 DEF HandedOver
<1>8. got["server"] # <<>> => success["server"] = 1
    <2>1. PICK k : HandedOver("server", x, k)
        BY <1>1, <1>3, StreamGot DEF Sides
    <2>2. got["server"] # <<>> => k > 0
        BY <1>1, <1>3, <2>1, HandedNothing DEF Sides, Known
    <2>3. k > 0 => x.m > 0
        <3>1. PICK m \in Nat : m = x.m
            BY <1>3 DEF Known
        <3>2. k \in 0 .. m
            BY ONLY <2>1, <3>1 DEF HandedOver
        <3> QED
            BY <3>1, <3>2
    <2>4. x.m > 0 => success["client"] = 1
        BY ONLY <1>3 DEF Counted
    <2> QED
        BY ONLY <1>6, <2>2, <2>3, <2>4
<1>9. success["client"] \in {0, 1} /\ success["server"] \in {0, 1}
    BY ONLY <1>4
<1>10. ASSUME started["client"].handshake, \A s \in Side : Drained(s)
       PROVE  success["client"] = 1 /\ success["server"] = 1
    <2>1. \A s \in Side : open[s] /\ data[s] = <<>> /\ wire[s] = <<>> /\ send_list[s] = <<>>
                          /\ pc[s] = "idle"
        BY <1>1, <1>10, OtherSide DEF Drained, Sides, Side
    <2>2. /\ x.u => upgrade["server"]
          /\ y.u => upgrade["client"]
        BY <1>1, <1>3, <2>1, StreamGot DEF Sides
    <2>3. x.u
        <3>1. session["client"] /\ Upgrades
            BY <1>1, <1>10, <2>1 DEF Shown, Upgrades, Sides
        <3> QED
            BY ONLY <1>3, <3>1 DEF Asked
    <2>4. ~ws["server"].key /\ ~ws["client"].accept
        <3>1. Doing("server") /\ Doing("client") /\ pc["server"] = "idle" /\ pc["client"] = "idle"
            BY <1>1, <2>1 DEF Shown, Sides
        <3> QED
            BY ONLY <3>1 DEF Doing
    <2> QED
        BY ONLY <1>4, <1>5, <2>2, <2>3, <2>4
<1> QED
    <2>1. \A s \in Side : success[s] <= 1 /\ (got[s] # <<>> => success[s] = 1)
        BY <1>7, <1>8, <1>9 DEF Side
    <2>2. success["client"] <= success["server"]
        BY <1>6, <1>9
    <2> QED
        BY <1>10, <2>1, <2>2 DEF HandshakeOnce, Side

-----------------------------------------------------------------------------
\* HandshakeOnce: wherever reads and writes cut the streams,
\* handshake_success_callback_ runs at most once on each side, before a frame is
\* handed over, on the server (when the 101 is written) before the client, and
\* has run on both when nothing is on its way any more, unless the assertion on
\* the size of a frame has stopped the program.
THEOREM HandshakesComplete == Spec => []HandshakeOnce
<1>1. Init => ShownInStep
    BY ShownInit DEF ShownInStep
<1>2. ShownInStep /\ [Next]_vars => ShownInStep'
    BY InStepStep
<1>3. ShownInStep => HandshakeOnce
    <2>1. ~InStep => HandshakeOnce
        BY DEF HandshakeOnce
    <2> QED
        BY <2>1, HandshakesShown DEF ShownInStep
<1> QED
    BY <1>1, <1>2, <1>3, PTL DEF Spec

\* FramesAsSent: what the callback of a side is given are the messages that the
\* frames of the other side make up, in order, and all of them when nothing is
\* on its way any more, unless that assertion has stopped the program.
THEOREM FramesArrive == Spec => []FramesAsSent
<1>1. Init => ShownInStep
    BY ShownInit DEF ShownInStep
<1>2. ShownInStep /\ [Next]_vars => ShownInStep'
    BY InStepStep
<1>3. ShownInStep => FramesAsSent
    <2>1. ~InStep => FramesAsSent
        BY DEF FramesAsSent
    <2> QED
        BY <2>1, FramesShown DEF ShownInStep
<1> QED
    BY <1>1, <1>2, <1>3, PTL DEF Spec
=============================================================================
