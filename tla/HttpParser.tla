----------------------------- MODULE HttpParser -----------------------------
(***************************************************************************)
(* http_parser_execute of net/http/http_parser.h, driven by                *)
(* http_parser_base::try_parse, one action per group of states.            *)
(*                                                                         *)
(* The bytes of a connection are the sequence input.wire; try_parse gets   *)
(* them in pieces of any of the sizes input.sizes, or all that is left.    *)
(* `data' is gone once a piece is parsed: a mark set in it is flushed at   *)
(* its end and set again at the start of the next.                         *)
(***************************************************************************)
EXTENDS HttpMessage

CONSTANTS Inputs,          \* records [type, wire, sizes, expect, ws, handshake, known]
          MaxHeaderSize,   \* max_header_size
          MaxLength        \* ULLONG_MAX, which content_length uses for "none"

ASSUME InputAssumption ==
    \A i \in Inputs : /\ i.type \in {"HTTP_REQUEST", "HTTP_RESPONSE"}
                      /\ i.wire \in Seq(STRING) /\ i.sizes \subseteq Nat
ASSUME SizesAssumption == MaxHeaderSize \in Nat /\ MaxLength \in Nat /\ MaxLength > 15

VARIABLES input,    \* what the peer sends, and what the reader should get
          p, end,   \* the next symbol; the end of the piece that is parsed
          running,  \* in http_parser_execute
          redo,     \* at the label reexecute: this symbol is counted already
          start,    \* where the inner loop over a header began, 0 outside it
          mark,     \* header_field_mark ... status_mark: a position, or 0
          parser,   \* struct http_parser
          api       \* the parser object of http_parser_api.h

vars == <<input, p, end, running, redo, start, mark, parser, api>>

Marks == {"header_field", "header_value", "url", "body", "status"}
NoMarks == [k \in Marks |-> 0]
wire == input.wire
ch == wire[p]

StartState(type) == IF type = "HTTP_REQUEST" THEN "s_start_req" ELSE "s_start_res"
NewParser(type) ==
    [type |-> type, state |-> StartState(type), header_state |-> "h_general",
     index |-> 0, flags |-> {}, nread |-> 0, content_length |-> 0,
     http_major |-> 0, http_minor |-> 0, status_code |-> 0, method |-> "DELETE",
     upgrade |-> FALSE, http_errno |-> "HPE_OK"]

-----------------------------------------------------------------------------
\* COUNT_HEADER_SIZE(1) of the outer loop; `cur' is the parser after it.
Counted == IF redo \/ start # 0 \/ parser.state \in BodyStates
           THEN parser.nread ELSE parser.nread + 1
cur == [parser EXCEPT !.nread = Counted]
At(states) == /\ running /\ p < end
              /\ parser.state \in states
              /\ Counted <= MaxHeaderSize

\* The symbol is consumed, or looked at again in a new state (REEXECUTE).
Take(q) == /\ parser' = q /\ p' = p + 1
           /\ redo' = FALSE /\ start' = 0 /\ UNCHANGED running
Retake(q) == /\ parser' = q /\ redo' = TRUE
             /\ start' = 0 /\ UNCHANGED <<p, running>>
Quiet == UNCHANGED <<mark, api>>
Skip == Take(cur) /\ Quiet
Go(s) == Take([cur EXCEPT !.state = s]) /\ Quiet
GoAgain(s) == Retake([cur EXCEPT !.state = s]) /\ Quiet

\* goto error: try_parse drops what is left of the piece.
Fail(e) == /\ parser' = [cur EXCEPT !.http_errno = e]
           /\ p' = end /\ running' = FALSE /\ redo' = FALSE /\ start' = 0
           /\ mark' = NoMarks /\ UNCHANGED api
\* STRICT_CHECK and its kin: only x is allowed here.
Expect(x, s, e) == IF ch = x THEN Go(s) ELSE Fail(e)

Marked(k) == [mark EXCEPT ![k] = IF @ = 0 THEN p ELSE @]
\* Mutant: the mark is not cleared.
Callback_KeepsMark(marks, k, to) ==
    /\ api' = IF marks[k] = 0 THEN api
              ELSE OnData(api, k, SubSeq(wire, marks[k], to))
    /\ mark' = marks
\* CALLBACK_DATA: what lies between the mark, if it is set, and `to'.
Callback(marks, k, to) ==
    /\ api' = IF marks[k] = 0 THEN api
              ELSE OnData(api, k, SubSeq(wire, marks[k], to))
    /\ mark' = [marks EXCEPT ![k] = 0]
Notify(a) == api' = a /\ UNCHANGED mark

NeedsEof(q) ==
    /\ q.type = "HTTP_RESPONSE"
    /\ q.status_code \div 100 # 1 /\ q.status_code \notin {204, 304}
    /\ "F_CHUNKED" \notin q.flags /\ q.content_length = MaxLength
ShouldKeepAlive(q) ==
    /\ IF q.http_major > 0 /\ q.http_minor > 0
       THEN "F_CONNECTION_CLOSE" \notin q.flags
       ELSE "F_CONNECTION_KEEP_ALIVE" \in q.flags
    /\ ~NeedsEof(q)
NewMessageState(q) ==
    [q EXCEPT !.state = IF ShouldKeepAlive(q) THEN StartState(q.type) ELSE "s_dead"]
OnMessageComplete(q) ==
    LET version == <<q.http_major, q.http_minor>>
    IN IF q.type = "HTTP_REQUEST"
       THEN OnRequestComplete(api, q.upgrade, q.method, version, ShouldKeepAlive(q))
       ELSE OnResponseComplete(api, q.upgrade, version, ShouldKeepAlive(q))

\* What is left of the piece goes to the websocket parser.
HandOver(a, data) == [a EXCEPT !.ws = @ \o data]
\* The message ends with this symbol; after an upgrade so does HTTP.
CompleteAs(q, a) ==
    /\ UNCHANGED mark
    /\ IF q.upgrade
       THEN /\ parser' = NewMessageState(q)
            /\ api' = HandOver(a, SubSeq(wire, p + 1, end - 1))
            /\ p' = end /\ running' = FALSE /\ redo' = FALSE /\ start' = 0
       ELSE Take(NewMessageState(q)) /\ api' = a
Complete(q) == CompleteAs(q, OnMessageComplete(q))

-----------------------------------------------------------------------------
\* The first line.  Literals that lead to one state or fail with STRICT.
Literals ==
    [s_res_H |-> <<"T", "s_res_HT">>, s_res_HT |-> <<"T", "s_res_HTT">>,
     s_res_HTT |-> <<"P", "s_res_HTTP">>, s_res_HTTP |-> <<"/", "s_res_http_major">>,
     s_req_http_H |-> <<"T", "s_req_http_HT">>, s_req_http_HT |-> <<"T", "s_req_http_HTT">>,
     s_req_http_HTT |-> <<"P", "s_req_http_HTTP">>,
     s_req_http_HTTP |-> <<"/", "s_req_http_major">>,
     s_res_line_almost_done |-> <<LF, "s_header_field_start">>,
     s_header_value_discard_ws_almost_done |-> <<LF, "s_header_value_discard_lws">>]
Literal == /\ At(DOMAIN Literals)
           /\ Expect(Literals[parser.state][1], Literals[parser.state][2], "HPE_STRICT")

\* The parts of the version that can only be one symbol.
Version ==
    \/ At({"s_res_http_dot"}) /\ Expect(".", "s_res_http_minor", "HPE_INVALID_VERSION")
    \/ At({"s_req_http_dot"}) /\ Expect(".", "s_req_http_minor", "HPE_INVALID_VERSION")
    \/ At({"s_res_http_end"}) /\ Expect(SP, "s_res_first_status_code", "HPE_INVALID_VERSION")
    \/ /\ At({"s_req_http_end"})
       /\ CASE ch = CR -> Go("s_req_line_almost_done")
            [] ch = LF -> Go("s_header_field_start")
            [] OTHER -> Fail("HPE_INVALID_VERSION")
LineAlmostDone ==
    \/ At({"s_req_line_almost_done"}) /\ Expect(LF, "s_header_field_start", "HPE_LF_EXPECTED")
    \/ At({"s_header_almost_done"}) /\ Expect(LF, "s_header_value_lws", "HPE_LF_EXPECTED")

VersionNumber ==
    /\ At({"s_res_http_major", "s_req_http_major", "s_res_http_minor", "s_req_http_minor"})
    /\ IF ~IsNum(ch) THEN Fail("HPE_INVALID_VERSION")
       ELSE /\ Quiet
            /\ Take(CASE parser.state = "s_res_http_major" ->
                          [cur EXCEPT !.http_major = Unhex(ch), !.state = "s_res_http_dot"]
                      [] parser.state = "s_req_http_major" ->
                          [cur EXCEPT !.http_major = Unhex(ch), !.state = "s_req_http_dot"]
                      [] parser.state = "s_res_http_minor" ->
                          [cur EXCEPT !.http_minor = Unhex(ch), !.state = "s_res_http_end"]
                      [] parser.state = "s_req_http_minor" ->
                          [cur EXCEPT !.http_minor = Unhex(ch), !.state = "s_req_http_end"])

\* After a message that closes the connection.
Dead == At({"s_dead"}) /\ IF ch \in {CR, LF} THEN Skip ELSE Fail("HPE_CLOSED_CONNECTION")

Fresh == [cur EXCEPT !.flags = {}, !.content_length = MaxLength]
StartResponse ==
    /\ At({"s_start_res"})
    /\ CASE ch \in {CR, LF} -> Skip
         [] ch = "H" -> /\ Take([Fresh EXCEPT !.state = "s_res_H"])
                        /\ Notify(OnMessageBegin(api))
         [] OTHER -> Fail("HPE_INVALID_CONSTANT")

\* The method that a first letter stands for, until a later one corrects it.
FirstMethod == [G |-> "GET", H |-> "HEAD", P |-> "POST", C |-> "CONNECT"]
StartRequest ==
    /\ At({"s_start_req"})
    /\ CASE ch \in {CR, LF} -> Skip
         [] ch \in DOMAIN FirstMethod ->
              /\ Take([Fresh EXCEPT !.method = FirstMethod[ch], !.index = 1,
                                    !.state = "s_req_method"])
              /\ Notify(OnMessageBegin(api))
         [] OTHER -> Fail("HPE_INVALID_METHOD")

Method ==
    /\ At({"s_req_method"})
    /\ LET matcher == Methods[parser.method]
           i == parser.index + 1
           next == [cur EXCEPT !.index = i]
       IN CASE i > Len(matcher) /\ ch = SP ->
                 Take([next EXCEPT !.state = "s_req_spaces_before_url"]) /\ Quiet
            [] i <= Len(matcher) /\ ch = matcher[i] -> Take(next) /\ Quiet
            [] parser.method = "POST" /\ i = 2 /\ ch = "U" ->
                 Take([next EXCEPT !.method = "PUT"]) /\ Quiet
            [] OTHER -> Fail("HPE_INVALID_METHOD")

SpacesBeforeUrl ==
    /\ At({"s_req_spaces_before_url"})
    /\ LET s == ParseUrlChar(IF parser.method = "CONNECT" THEN "s_req_server_start"
                             ELSE parser.state, ch)
       IN CASE ch = SP -> Skip
            [] ch # SP /\ s = "s_dead" -> Fail("HPE_INVALID_URL")
            [] OTHER -> /\ Take([cur EXCEPT !.state = s])
                        /\ mark' = Marked("url") /\ UNCHANGED api

Url ==
    /\ At(UrlStates)
    /\ LET s == ParseUrlChar(parser.state, ch)
           partial == parser.state \in {"s_req_schema", "s_req_schema_slash",
                                        "s_req_schema_slash_slash", "s_req_server_start"}
       IN CASE ch \in {SP, CR, LF} /\ ~partial ->
                 /\ Callback(mark, "url", p - 1)
                 /\ IF ch = SP THEN Take([cur EXCEPT !.state = "s_req_http_start"])
                    ELSE Take([cur EXCEPT !.http_major = 0, !.http_minor = 9,
                                          !.state = IF ch = CR THEN "s_req_line_almost_done"
                                                    ELSE "s_header_field_start"])
            [] ch \notin {SP, CR, LF} /\ s # "s_dead" -> Go(s)
            [] OTHER -> Fail("HPE_INVALID_URL")

HttpStart ==
    /\ At({"s_req_http_start"})
    /\ CASE ch = SP -> Skip
         [] ch = "H" -> Go("s_req_http_H")
         [] OTHER -> Fail("HPE_INVALID_CONSTANT")

FirstStatusCode ==
    /\ At({"s_res_first_status_code"})
    /\ CASE IsNum(ch) -> /\ Quiet
                         /\ Take([cur EXCEPT !.status_code = Unhex(ch),
                                             !.state = "s_res_status_code"])
         [] ch = SP -> Skip
         [] OTHER -> Fail("HPE_INVALID_STATUS")
StatusCode ==
    /\ At({"s_res_status_code"})
    /\ LET code == 10 * parser.status_code + Unhex(ch)
       IN CASE IsNum(ch) /\ code <= 999 -> Take([cur EXCEPT !.status_code = code]) /\ Quiet
            [] ch = SP -> Go("s_res_status_start")
            [] ch \in {CR, LF} -> GoAgain("s_res_status_start")
            [] OTHER -> Fail("HPE_INVALID_STATUS")
StatusStart ==
    /\ At({"s_res_status_start"})
    /\ mark' = Marked("status") /\ UNCHANGED api
    /\ LET q == [cur EXCEPT !.state = "s_res_status", !.index = 0]
       IN IF ch \in {CR, LF} THEN Retake(q) ELSE Take(q)
Status ==
    /\ At({"s_res_status"})
    /\ IF ch \notin {CR, LF} THEN Skip
       ELSE /\ Callback(mark, "status", p - 1)
            /\ Take([cur EXCEPT !.state = IF ch = CR THEN "s_res_line_almost_done"
                                          ELSE "s_header_field_start"])

-----------------------------------------------------------------------------
\* Header names.
HeaderFieldStart ==
    /\ At({"s_header_field_start"})
    /\ LET first == [c |-> "h_C", p |-> "h_matching_proxy_connection",
                     t |-> "h_matching_transfer_encoding", u |-> "h_matching_upgrade"]
       IN CASE ch = CR -> Go("s_headers_almost_done")
            [] ch = LF -> GoAgain("s_headers_almost_done")
            [] TOKEN(ch) ->
                 /\ Take([cur EXCEPT !.index = 0, !.state = "s_header_field",
                              !.header_state = IF ch \in DOMAIN first THEN first[ch]
                                               ELSE "h_general"])
                 /\ mark' = Marked("header_field") /\ UNCHANGED api
            [] OTHER -> Fail("HPE_INVALID_HEADER_TOKEN")

\* One more symbol c of the word that q.header_state looks for; `other' is
\* the header state after a mismatch.
MatchWord(q, c, other) ==
    LET word == Words[q.header_state]
        i == q.index + 1                      \* the code's index, from 0
    IN [q EXCEPT !.index = i,
                 !.header_state = IF i >= Len(word) \/ c # word[i + 1] THEN other
                                  ELSE IF i = Len(word) - 1 THEN Matched[q.header_state]
                                  ELSE @]
FieldChar(q, c) ==
    LET h == q.header_state
        Becomes(x, s) == [q EXCEPT !.index = @ + 1,
                                   !.header_state = IF c = x THEN s ELSE "h_general"]
    IN CASE h = "h_general" -> q
         [] h = "h_C" -> Becomes("o", "h_CO")
         [] h = "h_CO" -> Becomes("n", "h_CON")
         [] h = "h_CON" /\ c = "t" -> Becomes("t", "h_matching_content_length")
         [] h = "h_CON" /\ c # "t" -> Becomes("n", "h_matching_connection")
         [] h \in DOMAIN Words -> MatchWord(q, c, "h_general")
         [] OTHER -> [q EXCEPT !.header_state = "h_general"]  \* a longer name

\* The inner loops count their symbols only when they leave: at `p' they have
\* read p - Begun symbols more than the outer loop has counted.
Begun == IF start = 0 THEN p ELSE start
\* Mutant: the symbols of an inner loop are not counted.
Looped_NotCounted(q) == q
Looped(q) == [q EXCEPT !.nread = @ + (p - Begun)]
\* One symbol of the loop: it goes on, or ends with the piece.
Loop(q) ==
    CASE p + 1 < end -> /\ parser' = q /\ p' = p + 1 /\ start' = Begun
                        /\ redo' = FALSE /\ UNCHANGED running /\ Quiet
      [] p + 1 = end /\ Looped(q).nread <= MaxHeaderSize -> Take(Looped(q)) /\ Quiet
      [] OTHER -> Fail("HPE_HEADER_OVERFLOW")

HeaderField ==
    /\ At({"s_header_field"})
    /\ CASE TOKEN(ch) -> Loop(FieldChar(cur, ch))
         [] ~TOKEN(ch) /\ Looped(cur).nread > MaxHeaderSize -> Fail("HPE_HEADER_OVERFLOW")
         [] ch = ":" /\ Looped(cur).nread <= MaxHeaderSize ->
              /\ Take([Looped(cur) EXCEPT !.state = "s_header_value_discard_ws"])
              /\ Callback(mark, "header_field", p - 1)
         [] OTHER -> Fail("HPE_INVALID_HEADER_TOKEN")

-----------------------------------------------------------------------------
\* Header values.  The first symbol decides what is looked for.
ConnectionWord == [k |-> "h_matching_connection_keep_alive",
                   c |-> "h_matching_connection_close",
                   u |-> "h_matching_connection_upgrade"]
Error(q, e) == [q EXCEPT !.http_errno = e]
ValueFirst(q, c) ==
    LET h == q.header_state
        To(s) == [q EXCEPT !.header_state = s]
    IN CASE h = "h_upgrade" -> [To("h_general") EXCEPT !.flags = @ \cup {"F_UPGRADE"}]
         [] h = "h_transfer_encoding" ->
              To(IF c = "c" THEN "h_matching_transfer_encoding_chunked" ELSE "h_general")
         [] h = "h_content_length" /\ ~IsNum(c) -> Error(q, "HPE_INVALID_CONTENT_LENGTH")
         [] h = "h_content_length" /\ IsNum(c) /\ "F_CONTENTLENGTH" \in q.flags ->
              Error(q, "HPE_UNEXPECTED_CONTENT_LENGTH")
         [] h = "h_content_length" /\ IsNum(c) /\ "F_CONTENTLENGTH" \notin q.flags ->
              [To("h_content_length_num") EXCEPT !.content_length = Unhex(c),
                                                 !.flags = @ \cup {"F_CONTENTLENGTH"}]
         [] h = "h_connection" ->
              To(IF c \in DOMAIN ConnectionWord THEN ConnectionWord[c]
                 ELSE "h_matching_connection_token")
         [] h \in {"h_content_length_ws", "h_matching_connection_token_start"} -> q
         [] OTHER -> To("h_general")

ValueStart ==
    LET q == ValueFirst([cur EXCEPT !.state = "s_header_value", !.index = 0], ch)
    IN IF q.http_errno # "HPE_OK" THEN Fail(q.http_errno)
       ELSE Take(q) /\ mark' = Marked("header_value") /\ UNCHANGED api

HeaderValueDiscardWs ==
    /\ At({"s_header_value_discard_ws"})
    /\ CASE ch \in {SP, "TAB"} -> Skip
         [] ch = CR -> Go("s_header_value_discard_ws_almost_done")
         [] ch = LF -> Go("s_header_value_discard_lws")
         [] OTHER -> ValueStart
HeaderValueStart == At({"s_header_value_start"}) /\ ValueStart

\* The flag that a header leaves behind once its value has ended.
ValueFlags(h) ==
    CASE h = "h_connection_keep_alive" -> {"F_CONNECTION_KEEP_ALIVE"}
      [] h = "h_connection_close" -> {"F_CONNECTION_CLOSE"}
      [] h = "h_connection_upgrade" -> {"F_CONNECTION_UPGRADE"}
      [] h = "h_transfer_encoding_chunked" -> {"F_CHUNKED"}
      [] OTHER -> {}

\* Mutant: no test before the digit is added.
LengthChar_NoOverflowCheck(q, c) ==
    CASE c = SP -> [q EXCEPT !.header_state = "h_content_length_ws"]
      [] ~IsNum(c) /\ c # SP -> Error(q, "HPE_INVALID_CONTENT_LENGTH")
      [] OTHER -> [q EXCEPT !.content_length = 10 * @ + Unhex(c)]
\* A digit more: t = 10 * content_length + c, unless it might overflow.
LengthChar(q, c) ==
    CASE c = SP -> [q EXCEPT !.header_state = "h_content_length_ws"]
      [] ~IsNum(c) /\ c # SP -> Error(q, "HPE_INVALID_CONTENT_LENGTH")
      [] IsNum(c) /\ (MaxLength - 10) \div 10 < q.content_length ->
           Error(q, "HPE_INVALID_CONTENT_LENGTH")
      [] OTHER -> [q EXCEPT !.content_length = 10 * @ + Unhex(c)]

\* In a list of Connection a TAB is compared when LOWER has changed it already,
\* so it is no white space: the rest of the list is not looked at.
ValueChar(q, c) ==
    LET h == q.header_state
        To(s) == [q EXCEPT !.header_state = s]
    IN IF ~IsHeaderChar(c) THEN Error(q, "HPE_INVALID_HEADER_TOKEN") ELSE
       CASE h = "h_content_length_num" -> LengthChar(q, c)
         [] h = "h_content_length_ws" ->
              IF c = SP THEN q ELSE Error(q, "HPE_INVALID_CONTENT_LENGTH")
         [] h = "h_matching_transfer_encoding_chunked" -> MatchWord(q, c, "h_general")
         [] h \in {"h_matching_connection_keep_alive", "h_matching_connection_close",
                   "h_matching_connection_upgrade"} ->
              MatchWord(q, c, "h_matching_connection_token")
         [] h = "h_matching_connection_token_start" ->
              To(CASE c \in DOMAIN ConnectionWord -> ConnectionWord[c]
                   [] c = SP -> h
                   [] TOKEN(c) /\ c \notin DOMAIN ConnectionWord ->
                        "h_matching_connection_token"
                   [] OTHER -> "h_general")
         [] h = "h_matching_connection_token" ->
              IF c = "," THEN [To("h_matching_connection_token_start") EXCEPT !.index = 0]
              ELSE q
         [] h = "h_transfer_encoding_chunked" -> IF c = SP THEN q ELSE To("h_general")
         [] h \in {"h_connection_keep_alive", "h_connection_close",
                   "h_connection_upgrade"} ->
              (CASE c = "," -> [To("h_matching_connection_token_start")
                                  EXCEPT !.index = 0, !.flags = @ \cup ValueFlags(h)]
                 [] c = SP -> q
                 [] OTHER -> To("h_matching_connection_token"))
         [] OTHER -> To("h_general")

HeaderValue ==
    /\ At({"s_header_value"})
    /\ LET ended == [Looped(cur) EXCEPT !.state = "s_header_almost_done"]
           next == ValueChar(cur, ch)
       IN CASE ch \in {CR, LF} /\ ended.nread > MaxHeaderSize -> Fail("HPE_HEADER_OVERFLOW")
            [] ch \in {CR, LF} /\ ended.nread <= MaxHeaderSize ->
                 /\ Callback(mark, "header_value", p - 1)
                 /\ IF ch = CR THEN Take(ended) ELSE Retake(ended)
            [] ch \notin {CR, LF} /\ next.http_errno # "HPE_OK" -> Fail(next.http_errno)
            [] OTHER -> Loop(next)

\* The value goes on in the next line, or the header is finished.
HeaderValueLws ==
    /\ At({"s_header_value_lws"})
    /\ Quiet
    /\ Retake(IF ch \in {SP, "TAB"}
              THEN [cur EXCEPT !.state = "s_header_value_start",
                               !.header_state = IF @ = "h_content_length_num"
                                                THEN "h_content_length_ws" ELSE @]
              ELSE [cur EXCEPT !.state = "s_header_field_start",
                               !.flags = @ \cup ValueFlags(cur.header_state)])

\* No value in the first line of a header.
HeaderValueDiscardLws ==
    /\ At({"s_header_value_discard_lws"})
    /\ CASE ch \in {SP, "TAB"} -> Go("s_header_value_discard_ws")
         [] ch \notin {SP, "TAB"} /\ parser.header_state = "h_content_length" ->
              Fail("HPE_INVALID_CONTENT_LENGTH")
         [] OTHER -> /\ Callback(Marked("header_value"), "header_value", p - 1)
                     /\ Retake([cur EXCEPT !.state = "s_header_field_start",
                                           !.flags = @ \cup ValueFlags(cur.header_state)])

-----------------------------------------------------------------------------
\* The end of the headers and what follows from them.
HeadersAlmostDone ==
    /\ At({"s_headers_almost_done"})
    /\ LET has == parser.flags
           upgrade == IF {"F_UPGRADE", "F_CONNECTION_UPGRADE"} \subseteq has
                      THEN parser.type = "HTTP_REQUEST" \/ parser.status_code = 101
                      ELSE parser.method = "CONNECT"
       IN CASE ch # LF -> Fail("HPE_STRICT")
            [] ch = LF /\ "F_TRAILING" \in has ->
                 /\ Retake([cur EXCEPT !.state = "s_message_done"])
                 /\ Notify(OnChunkComplete(api))
            [] ch = LF /\ "F_TRAILING" \notin has
                       /\ {"F_CHUNKED", "F_CONTENTLENGTH"} \subseteq has ->
                 Fail("HPE_UNEXPECTED_CONTENT_LENGTH")
            [] OTHER -> /\ Retake([cur EXCEPT !.state = "s_headers_done",
                                              !.upgrade = upgrade])
                        /\ Notify(OnHeadersComplete(api))

HasBody == "F_CHUNKED" \in parser.flags \/ parser.content_length \notin {0, MaxLength}
\* The state for the body, unless there is none.
BodyState(q) ==
    CASE q.upgrade /\ (q.method = "CONNECT" \/ ~HasBody) -> "none"
      [] ~(q.upgrade /\ (q.method = "CONNECT" \/ ~HasBody)) ->
           (CASE "F_CHUNKED" \in q.flags -> "s_chunk_size_start"
              [] "F_CHUNKED" \notin q.flags /\ HasBody -> "s_body_identity"
              [] ~HasBody /\ NeedsEof(q) -> "s_body_identity_eof"
              [] OTHER -> "none")
DoneAs(q, s) == IF s = "none" THEN Complete(q) ELSE Take([q EXCEPT !.state = s]) /\ Quiet
HeadersDone ==
    /\ At({"s_headers_done"})
    /\ IF ch # LF THEN Fail("HPE_STRICT")
       ELSE DoneAs([cur EXCEPT !.nread = 0], BodyState(cur))

\* MIN(content_length, what is left of the piece).
ToRead == IF parser.content_length < end - p THEN parser.content_length ELSE end - p
BodyIdentity ==
    /\ At({"s_body_identity"})
    /\ LET left == parser.content_length - ToRead
           q == [cur EXCEPT !.content_length = left]
       IN /\ redo' = (left = 0) /\ start' = 0 /\ UNCHANGED running
          /\ IF left = 0
             THEN /\ parser' = [q EXCEPT !.state = "s_message_done"]
                  /\ p' = p + ToRead - 1
                  /\ Callback(Marked("body"), "body", p + ToRead - 1)
             ELSE /\ parser' = q /\ p' = p + ToRead
                  /\ mark' = Marked("body") /\ UNCHANGED api
BodyIdentityEof ==
    /\ At({"s_body_identity_eof"})
    /\ p' = end /\ parser' = cur
    /\ mark' = Marked("body") /\ UNCHANGED <<running, redo, start, api>>
MessageDone == At({"s_message_done"}) /\ Complete(cur)

ChunkSizeStart ==
    /\ At({"s_chunk_size_start"})
    /\ IF ~IsHex(ch) THEN Fail("HPE_INVALID_CHUNK_SIZE")
       ELSE Take([cur EXCEPT !.content_length = Unhex(ch), !.state = "s_chunk_size"]) /\ Quiet
ChunkSize ==
    /\ At({"s_chunk_size"})
    /\ CASE ch = CR -> Go("s_chunk_size_almost_done")
         [] IsHex(ch) -> IF (MaxLength - 16) \div 16 < parser.content_length
                         THEN Fail("HPE_INVALID_CONTENT_LENGTH")
                         ELSE Take([cur EXCEPT !.content_length = 16 * @ + Unhex(ch)]) /\ Quiet
         [] ch \in {";", SP} -> Go("s_chunk_parameters")
         [] OTHER -> Fail("HPE_INVALID_CHUNK_SIZE")
ChunkParameters ==
    /\ At({"s_chunk_parameters"})
    /\ IF ch = CR THEN Go("s_chunk_size_almost_done") ELSE Skip
ChunkSizeAlmostDone ==
    /\ At({"s_chunk_size_almost_done"})
    /\ LET q == [cur EXCEPT !.nread = 0]
       IN IF ch # LF THEN Fail("HPE_STRICT")
          ELSE /\ Notify(OnChunkHeader(api))
               /\ Take(IF q.content_length = 0
                       THEN [q EXCEPT !.flags = @ \cup {"F_TRAILING"},
                                      !.state = "s_header_field_start"]
                       ELSE [q EXCEPT !.state = "s_chunk_data"])
ChunkData ==
    /\ At({"s_chunk_data"})
    /\ parser' = [cur EXCEPT !.content_length = @ - ToRead,
                             !.state = IF parser.content_length = ToRead
                                       THEN "s_chunk_data_almost_done" ELSE @]
    /\ p' = p + ToRead
    /\ mark' = Marked("body") /\ UNCHANGED <<running, redo, start, api>>
ChunkDataAlmostDone ==
    /\ At({"s_chunk_data_almost_done"})
    /\ IF ch # CR THEN Fail("HPE_STRICT")
       ELSE /\ Take([cur EXCEPT !.state = "s_chunk_data_done"])
            /\ Callback(mark, "body", p - 1)
ChunkDataDone ==
    /\ At({"s_chunk_data_done"})
    /\ IF ch # LF THEN Fail("HPE_STRICT")
       ELSE /\ Take([cur EXCEPT !.nread = 0, !.state = "s_chunk_size_start"])
            /\ Notify(OnChunkComplete(api))

HeaderOverflow == running /\ p < end /\ Counted > MaxHeaderSize /\ Fail("HPE_HEADER_OVERFLOW")

-----------------------------------------------------------------------------
\* Mutant: a value that goes on in the next piece is not marked.
StartMark_NoHeaderValue(s) == CASE s = "s_header_field" -> {"header_field"}
                                [] s \in UrlStates -> {"url"}
                                [] s = "s_res_status" -> {"status"}
                                [] OTHER -> {}
\* The mark that http_parser_execute sets again at the start of a piece.
StartMark(s) == CASE s = "s_header_field" -> {"header_field"}
                  [] s = "s_header_value" -> {"header_value"}
                  [] s \in UrlStates -> {"url"}
                  [] s = "s_res_status" -> {"status"}
                  [] OTHER -> {}

\* Mutant: http_errno is not tested at the entry.
TryParse_IgnoresErrno(n) ==
    /\ ~running /\ p + n - 1 <= Len(wire)
    /\ end' = p + n
    /\ UNCHANGED <<input, redo, start, parser>>
    /\ IF parser.upgrade
       THEN /\ api' = HandOver(api, SubSeq(wire, p, p + n - 1))
            /\ p' = p + n /\ UNCHANGED <<running, mark>>
       ELSE /\ running' = TRUE
            /\ mark' = [k \in Marks |-> IF k \in StartMark(parser.state) THEN p ELSE 0]
            /\ UNCHANGED <<p, api>>
\* try_parse(data, n): an upgraded connection is the websocket parser's, one
\* in error swallows everything.
TryParse(n) ==
    /\ ~running /\ p + n - 1 <= Len(wire)
    /\ end' = p + n
    /\ UNCHANGED <<input, redo, start, parser>>
    /\ CASE parser.upgrade ->
              /\ api' = HandOver(api, SubSeq(wire, p, p + n - 1))
              /\ p' = p + n /\ UNCHANGED <<running, mark>>
         [] ~parser.upgrade /\ parser.http_errno # "HPE_OK" ->
              p' = p + n /\ UNCHANGED <<running, mark, api>>
         [] OTHER ->
              /\ running' = TRUE
              /\ mark' = [k \in Marks |-> IF k \in StartMark(parser.state) THEN p ELSE 0]
              /\ UNCHANGED <<p, api>>

\* Out of bytes: the data of a mark that is left is reported so far.
EndOfBuffer ==
    /\ running /\ p = end
    /\ running' = FALSE
    /\ UNCHANGED <<input, p, end, redo, start, parser>>
    /\ IF mark = NoMarks THEN Quiet
       ELSE \E k \in Marks : mark[k] # 0 /\ Callback(mark, k, p - 1)

Step ==
    \/ Literal \/ Version \/ LineAlmostDone \/ VersionNumber \/ Dead \/ StartResponse
    \/ StartRequest \/ Method \/ SpacesBeforeUrl \/ Url \/ HttpStart \/ FirstStatusCode
    \/ StatusCode \/ StatusStart \/ Status \/ HeaderFieldStart \/ HeaderField
    \/ HeaderValueDiscardWs \/ HeaderValueStart \/ HeaderValue \/ HeaderValueLws
    \/ HeaderValueDiscardLws \/ HeadersAlmostDone \/ HeadersDone \/ BodyIdentity
    \/ BodyIdentityEof \/ MessageDone \/ ChunkSizeStart \/ ChunkSize \/ ChunkParameters
    \/ ChunkSizeAlmostDone \/ ChunkData \/ ChunkDataAlmostDone \/ ChunkDataDone
    \/ HeaderOverflow

Init == /\ input \in Inputs
        /\ p = 1 /\ end = 1 /\ running = FALSE /\ redo = FALSE /\ start = 0
        /\ mark = NoMarks /\ parser = NewParser(input.type) /\ api = NewApi
Execute == Step /\ UNCHANGED <<input, end>>
Next == \/ \E n \in input.sizes \cup {Len(wire) - p + 1} : n > 0 /\ TryParse(n)
        \/ Execute
        \/ EndOfBuffer
Spec == Init /\ [][Next]_vars

-----------------------------------------------------------------------------
HeaderStates == {"h_general", "h_C", "h_CO", "h_CON", "h_content_length_num",
                 "h_content_length_ws", "h_matching_connection_token_start",
                 "h_matching_connection_token"}
                \cup DOMAIN Words \cup {Matched[w] : w \in DOMAIN Words}
Flags == {"F_CHUNKED", "F_CONNECTION_KEEP_ALIVE", "F_CONNECTION_CLOSE",
          "F_CONNECTION_UPGRADE", "F_TRAILING", "F_UPGRADE", "F_CONTENTLENGTH"}
(* The variables have their types: in particular content_length stays within
   64 bits, whatever number a header or a chunk spells. *)
TypeOK ==
    /\ p \in 1..(Len(wire) + 1) /\ end \in p..(Len(wire) + 1)
    /\ running \in BOOLEAN /\ redo \in BOOLEAN /\ start \in 0..p
    /\ \A k \in Marks : mark[k] \in 0..p
    /\ parser.header_state \in HeaderStates /\ parser.flags \subseteq Flags
    /\ parser.content_length \in 0..MaxLength
    /\ parser.nread \in Nat /\ parser.index \in 0..127
    /\ parser.upgrade \in BOOLEAN /\ parser.method \in DOMAIN Methods \cup {"DELETE"}

(* The assertions of http_parser_execute hold, whatever the pieces and the
   bytes: at most one mark is left at the end of a piece, and none outlives
   it (2441-2455); a chunk size is the first byte counted (2319); chunk states
   belong to chunked messages; a body that is read has a length left (2272,
   2401), a chunk's data has none left at its end (2419); and a value never
   starts in a header state that is meant for names (1922). *)
AtMostOneMark ==
    /\ \A k, l \in Marks : mark[k] # 0 /\ mark[l] # 0 => k = l
    /\ ~running => mark = NoMarks
AssertsHold ==
    /\ AtMostOneMark
    /\ running /\ p < end /\ parser.http_errno = "HPE_OK" =>
        LET s == parser.state
        IN /\ s = "s_chunk_size_start" => Counted = 1
           /\ s \in {"s_chunk_size_start", "s_chunk_size", "s_chunk_parameters",
                     "s_chunk_size_almost_done", "s_chunk_data",
                     "s_chunk_data_almost_done", "s_chunk_data_done"}
                 => "F_CHUNKED" \in parser.flags
           /\ s \in {"s_chunk_data", "s_body_identity"}
                 => parser.content_length \notin {0, MaxLength}
           /\ s = "s_chunk_data_almost_done" => parser.content_length = 0
           /\ s = "s_header_value"
                 => parser.header_state \notin {"h_connection", "h_transfer_encoding"}

(* However the bytes are cut into pieces, the callback has seen the messages
   so far, in order, with their headers and bodies whole; in the end it has
   seen all of them, and the websocket parser exactly what followed an
   upgrade. *)
DeliveredAsSent ==
    input.known =>
        /\ IsPrefix(api.delivered, input.expect)
        /\ ~running /\ p > Len(wire) =>
               /\ api.delivered = input.expect
               /\ api.ws = input.ws /\ api.handshake = input.handshake
               /\ parser.http_errno = "HPE_OK"
=============================================================================
