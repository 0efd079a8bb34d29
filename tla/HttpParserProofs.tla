-------------------------- MODULE HttpParserProofs --------------------------
(***************************************************************************)
(* What holds of http_parser_execute for any bytes, cut in any way, and    *)
(* for any limits: the types, the assertions in its text, that an error is *)
(* final, and that no block of a message is longer than max_header_size.   *)
(***************************************************************************)
EXTENDS HttpCuts, TLAPS

Errors ==
    {"HPE_CLOSED_CONNECTION", "HPE_HEADER_OVERFLOW", "HPE_INVALID_CHUNK_SIZE",
     "HPE_INVALID_CONSTANT", "HPE_INVALID_CONTENT_LENGTH", "HPE_INVALID_HEADER_TOKEN",
     "HPE_INVALID_METHOD", "HPE_INVALID_STATUS", "HPE_INVALID_URL", "HPE_INVALID_VERSION",
     "HPE_LF_EXPECTED", "HPE_STRICT", "HPE_UNEXPECTED_CONTENT_LENGTH"}
LineStates ==
    {"s_dead", "s_start_req", "s_start_res", "s_res_H", "s_res_HT", "s_res_HTT",
     "s_res_HTTP", "s_res_http_major", "s_res_http_dot", "s_res_http_minor",
     "s_res_http_end", "s_res_first_status_code", "s_res_status_code",
     "s_res_status_start", "s_res_status", "s_res_line_almost_done", "s_req_method",
     "s_req_spaces_before_url", "s_req_http_start", "s_req_http_H", "s_req_http_HT",
     "s_req_http_HTT", "s_req_http_HTTP", "s_req_http_major", "s_req_http_dot",
     "s_req_http_minor", "s_req_http_end", "s_req_line_almost_done"}
BlockStates ==
    {"s_header_field_start", "s_header_field", "s_header_value_discard_ws",
     "s_header_value_discard_ws_almost_done", "s_header_value_discard_lws",
     "s_header_value_start", "s_header_value", "s_header_almost_done",
     "s_header_value_lws", "s_headers_almost_done", "s_headers_done",
     "s_chunk_size_start", "s_chunk_size", "s_chunk_parameters",
     "s_chunk_size_almost_done"}
States == LineStates \cup BlockStates \cup UrlStates \cup BodyStates
ParserRecord ==
    [type : {"HTTP_REQUEST", "HTTP_RESPONSE"}, state : States, header_state : HeaderStates, index : 0..127,
     flags : SUBSET Flags, nread : Nat, content_length : 0..MaxLength,
     http_major : Nat, http_minor : Nat, status_code : Nat,
     method : DOMAIN Methods \cup {"DELETE"}, upgrade : BOOLEAN, http_errno : Errors \cup {"HPE_OK"}]

\* How far the index has come in the word that a header state looks for.
IndexFits(h, i) ==
    /\ i <= 6
    /\ h = "h_C" => i = 0
    /\ h = "h_CO" => i = 1
    /\ h = "h_CON" => i = 2
    /\ h = "h_matching_connection_token_start" => i = 0
    /\ h \in DOMAIN Words => i < Len(Words[h])

ChunkStates == {"s_chunk_size_start", "s_chunk_size", "s_chunk_parameters",
                "s_chunk_size_almost_done", "s_chunk_data",
                "s_chunk_data_almost_done", "s_chunk_data_done"}
\* What a parser has gathered when it is in a state.
Gathered(q) ==
    LET s == q.state
    IN /\ q \in ParserRecord
       /\ s = "s_req_method" => /\ q.method \in DOMAIN Methods
                                /\ q.index <= Len(Methods[q.method])
       /\ s \in {"s_header_field", "s_header_value"} => IndexFits(q.header_state, q.index)
       /\ s = "s_header_value" => q.header_state \notin {"h_connection", "h_transfer_encoding"}
       /\ s \in ChunkStates => "F_CHUNKED" \in q.flags
       /\ s \in {"s_chunk_size", "s_chunk_parameters", "s_chunk_size_almost_done"}
            => q.content_length # MaxLength
       /\ s \in {"s_chunk_data", "s_body_identity"} => q.content_length \notin {0, MaxLength}
       /\ s = "s_chunk_data_almost_done" => q.content_length = 0
       /\ s = "s_chunk_size_start" /\ q.http_errno = "HPE_OK" => q.nread = 0

\* The mark that may be set in a state.
MarkOf(s) ==
    CASE s \in UrlStates -> "url"
      [] s = "s_header_field" -> "header_field"
      [] s = "s_header_value" -> "header_value"
      [] s = "s_res_status" -> "status"
      [] s \in {"s_body_identity", "s_body_identity_eof", "s_chunk_data",
                "s_chunk_data_almost_done"} -> "body"
      [] OTHER -> "none"
Positions ==
    /\ input \in Inputs
    /\ p \in Nat \ {0} /\ end \in Nat /\ p <= end /\ end <= Len(wire) + 1
    /\ running \in BOOLEAN /\ redo \in BOOLEAN /\ start \in 0..p
    /\ mark \in [Marks -> 0..p]
InPlace ==
    /\ \A k \in Marks : mark[k] # 0 => k = MarkOf(parser.state)
    /\ ~running => mark = NoMarks
    /\ running => parser.http_errno = "HPE_OK"
    /\ parser.state = "s_chunk_size_start" /\ parser.http_errno = "HPE_OK"
         => ~redo /\ start = 0
IInv == Positions /\ Gathered(parser) /\ InPlace

-----------------------------------------------------------------------------
\* COUNT_HEADER_SIZE touches nothing but nread.
LEMMA CountKeeps ==
    ASSUME IInv
    PROVE  /\ cur \in ParserRecord /\ cur.nread = Counted
           /\ cur.state = parser.state /\ cur.header_state = parser.header_state
           /\ cur.index = parser.index /\ cur.flags = parser.flags
           /\ cur.content_length = parser.content_length /\ cur.method = parser.method
           /\ cur.type = parser.type /\ cur.upgrade = parser.upgrade
           /\ cur.http_errno = parser.http_errno
<1>1. parser \in ParserRecord
    BY DEF IInv, Gathered
<1>2. Counted \in Nat
    BY <1>1 DEF Counted, ParserRecord
<1> QED  BY <1>1, <1>2 DEF cur, ParserRecord

\* Outside of s_chunk_size_start the count is no part of what is gathered.
LEMMA CurGathered ==
    ASSUME IInv, parser.state # "s_chunk_size_start"
    PROVE  Gathered(cur)
BY CountKeeps DEF IInv, Gathered

\* A step of the loop that stays in the piece.
LEMMA Advance ==
    ASSUME IInv, running, p < end, UNCHANGED <<input, end, running>>,
           p' \in p..end, redo' \in BOOLEAN, start' \in 0..p',
           Gathered(parser'), parser'.http_errno = "HPE_OK",
           parser'.state = "s_chunk_size_start" => redo' = FALSE /\ start' = 0,
           mark' \in [Marks -> 0..p],
           \A k \in Marks : mark'[k] # 0 => k = MarkOf(parser'.state)
    PROVE  IInv'
<1>1. Positions'
    <2>1. mark' \in [Marks -> 0..p']
        BY DEF IInv, Positions
    <2> QED  BY <2>1 DEF IInv, Positions, wire
<1>2. InPlace'
    BY DEF IInv, Positions, InPlace
<1> QED  BY <1>1, <1>2 DEF IInv

LEMMA NoMarksTyped ==
    /\ NoMarks \in [Marks -> {0}]
    /\ \A k \in Marks : NoMarks[k] = 0
BY DEF NoMarks

\* goto error.
LEMMA FailStep ==
    ASSUME IInv, running, p < end, UNCHANGED <<input, end>>,
           NEW e \in Errors, Fail(e)
    PROVE  IInv'
<1>1. p' = end /\ running' = FALSE /\ redo' = FALSE /\ start' = 0 /\ mark' = NoMarks
    BY DEF Fail
<1>2. Positions'
    <2>1. 0 \in 0..p' /\ p' \in Nat \ {0}
        BY <1>1 DEF IInv, Positions
    <2>2. NoMarks \in [Marks -> 0..p']
        BY <2>1 DEF NoMarks
    <2>3. input' \in Inputs /\ end' <= Len(wire') + 1
        BY DEF IInv, Positions, wire
    <2>4. p' <= end' /\ end' \in Nat /\ start' \in 0..p'
        BY <1>1, <2>1 DEF IInv, Positions
    <2>5. running' \in BOOLEAN /\ redo' \in BOOLEAN
        BY <1>1
    <2> QED  BY <1>1, <2>1, <2>2, <2>3, <2>4, <2>5 DEF Positions
<1>3. /\ parser' \in ParserRecord /\ parser'.state = cur.state /\ parser'.http_errno = e /\ e # "HPE_OK"
      /\ parser'.header_state = cur.header_state /\ parser'.index = cur.index
      /\ parser'.flags = cur.flags /\ parser'.content_length = cur.content_length
      /\ parser'.method = cur.method
    BY CountKeeps DEF Fail, ParserRecord, Errors
<1>4. Gathered(parser')
    BY <1>3, CountKeeps DEF IInv, Gathered
<1>5. InPlace'
    BY <1>1, <1>3, NoMarksTyped DEF InPlace
<1> QED  BY <1>2, <1>4, <1>5 DEF IInv

\* States with nothing to show of what was gathered.
Conditional == ChunkStates \cup {"s_req_method", "s_header_field", "s_header_value",
                                 "s_body_identity"}
\* A new state, and nothing else: no mark may be left that it does not have.
LEMMA Move ==
    ASSUME IInv, running, p < end, UNCHANGED <<input, end>>,
           NEW s \in States, s \notin Conditional,
           MarkOf(parser.state) \in {"none", MarkOf(s)},
           Go(s) \/ GoAgain(s)
    PROVE  IInv'
<1> DEFINE q == [cur EXCEPT !.state = s]
<1>1. q \in ParserRecord /\ q.state = s /\ q.http_errno = "HPE_OK"
    BY CountKeeps DEF ParserRecord, IInv, InPlace
<1>2. Gathered(q)
    BY <1>1 DEF Gathered, Conditional, ChunkStates
<1>3. parser' = q /\ p' \in {p, p + 1} /\ redo' \in BOOLEAN /\ start' = 0
      /\ running' = running /\ mark' = mark
    BY DEF Go, GoAgain, Take, Retake, Quiet
<1>5. p' \in p..end /\ start' \in 0..p'
    BY <1>3 DEF IInv, Positions
<1>4. mark' \in [Marks -> 0..p] /\ \A k \in Marks : mark'[k] # 0 => k = MarkOf(s)
    BY <1>3 DEF IInv, Positions, InPlace, Marks
<1> QED  BY <1>1, <1>2, <1>3, <1>4, <1>5, Advance DEF Conditional, ChunkStates

\* A symbol that changes nothing.
LEMMA SkipStep ==
    ASSUME IInv, running, p < end, UNCHANGED <<input, end>>,
           parser.state # "s_chunk_size_start", Skip
    PROVE  IInv'
<1>1. Gathered(cur) /\ cur.http_errno = "HPE_OK" /\ cur.state = parser.state
    BY CurGathered, CountKeeps DEF IInv, InPlace
<1>2. p' \in p..end /\ start' \in 0..p'
    BY DEF Skip, Take, IInv, Positions
<1> QED  BY <1>1, <1>2, Advance DEF Skip, Take, Quiet, IInv, Positions, InPlace

-----------------------------------------------------------------------------
\* The tables.
LEMMA DigitValues ==
    ASSUME NEW c
    PROVE  /\ IsNum(c) => Unhex(c) \in 0..9
           /\ IsHex(c) => Unhex(c) \in 0..15
<1>1. ASSUME IsHex(c)  PROVE \E i \in DOMAIN HexDigits : HexDigits[i] = c
    BY <1>1 DEF IsHex, IsNum, HexDigits
<1>2. ASSUME IsHex(c)  PROVE Unhex(c) + 1 \in 1..16 /\ HexDigits[Unhex(c) + 1] = c
    <2> DEFINE i == CHOOSE i \in DOMAIN HexDigits : HexDigits[i] = c
    <2>1. i \in DOMAIN HexDigits /\ HexDigits[i] = c
        BY <1>1, <1>2
    <2>2. i \in 1..16
        BY <2>1 DEF HexDigits
    <2> HIDE DEF i
    <2>3. Unhex(c) = i - 1
        BY DEF Unhex, i
    <2> QED  BY <2>1, <2>2, <2>3
<1>3. ASSUME IsNum(c)  PROVE Unhex(c) + 1 \in 1..10
    <2>1. IsHex(c)
        BY <1>3 DEF IsHex
    <2>2. ASSUME NEW i \in 11..16  PROVE ~IsNum(HexDigits[i])
        BY DEF HexDigits, IsNum
    <2> QED  BY <1>2, <1>3, <2>1, <2>2
<1>4. ASSUME IsHex(c)  PROVE Unhex(c) \in Int
    <2> DEFINE i == CHOOSE i \in DOMAIN HexDigits : HexDigits[i] = c
    <2>1. i \in 1..16
        <3>1. i \in DOMAIN HexDigits
            BY <1>1, <1>4
        <3> QED  BY <3>1 DEF HexDigits
    <2> HIDE DEF i
    <2>2. Unhex(c) = i - 1
        BY DEF Unhex, i
    <2> QED  BY <2>1, <2>2
<1>5. IsNum(c) => IsHex(c)
    BY DEF IsHex
<1> QED  BY <1>2, <1>3, <1>4, <1>5

LEMMA UrlCharStates ==
    ASSUME NEW s \in UrlStates \cup {"s_req_spaces_before_url"}, NEW c
    PROVE  ParseUrlChar(s, c) \in UrlStates \cup {"s_dead"}
BY DEF ParseUrlChar, UrlStates

LEMMA MarkValues ==
    /\ \A s \in UrlStates : MarkOf(s) = "url"
    /\ MarkOf("s_header_field") = "header_field"
    /\ MarkOf("s_header_value") = "header_value"
    /\ MarkOf("s_res_status") = "status"
    /\ \A s \in {"s_body_identity", "s_body_identity_eof", "s_chunk_data",
                 "s_chunk_data_almost_done"} : MarkOf(s) = "body"
    /\ \A s : s \notin UrlStates \cup
                 {"s_header_field", "s_header_value", "s_res_status", "s_body_identity",
                  "s_body_identity_eof", "s_chunk_data", "s_chunk_data_almost_done"}
              => MarkOf(s) = "none"
BY DEF MarkOf, UrlStates

-----------------------------------------------------------------------------
\* Ways to end an action.
LEMMA TakeStep ==
    ASSUME IInv, running, p < end, UNCHANGED <<input, end>>,
           NEW q, Gathered(q), q.http_errno = "HPE_OK",
           Take(q) \/ (Retake(q) /\ q.state # "s_chunk_size_start"),
           mark' \in [Marks -> 0..p], \A k \in Marks : mark'[k] # 0 => k = MarkOf(q.state)
    PROVE  IInv'
<1>1. /\ parser' = q /\ p' \in {p, p + 1} /\ redo' \in BOOLEAN /\ start' = 0
      /\ running' = running /\ (q.state = "s_chunk_size_start" => redo' = FALSE)
    BY DEF Take, Retake
<1>2. p' \in p..end /\ start' \in 0..p'
    BY <1>1 DEF IInv, Positions
<1> QED  BY <1>1, <1>2, Advance

\* The mark k is set here, or was set before.
LEMMA MarkedTyped ==
    ASSUME IInv, NEW k \in Marks, MarkOf(parser.state) \in {"none", k}
    PROVE  Marked(k) \in [Marks -> 0..p] /\ \A j \in Marks : Marked(k)[j] # 0 => j = k
<1>1. "none" \notin Marks
    BY DEF Marks
<1> QED  BY <1>1 DEF IInv, Positions, InPlace, Marked

LEMMA OwnMark ==
    ASSUME IInv, NEW k \in Marks, MarkOf(parser.state) \in {"none", k}
    PROVE  mark \in [Marks -> 0..p] /\ \A j \in Marks : mark[j] # 0 => j = k
<1>1. "none" \notin Marks
    BY DEF Marks
<1> QED  BY <1>1 DEF IInv, Positions, InPlace

LEMMA NoMark ==
    ASSUME IInv, MarkOf(parser.state) = "none"
    PROVE  mark \in [Marks -> 0..p] /\ \A j \in Marks : mark[j] = 0
<1>1. "none" \notin Marks
    BY DEF Marks
<1> QED  BY <1>1 DEF IInv, Positions, InPlace

\* CALLBACK_DATA leaves no mark if only its own can be set.
LEMMA CallbackClears ==
    ASSUME p \in Nat, NEW m \in [Marks -> 0..p], NEW k \in Marks, NEW to,
           \A j \in Marks : m[j] # 0 => j = k, Callback(m, k, to)
    PROVE  mark' \in [Marks -> 0..p] /\ \A j \in Marks : mark'[j] = 0
<1>1. mark' = [m EXCEPT ![k] = 0]
    BY DEF Callback
<1> QED  BY <1>1

-----------------------------------------------------------------------------
\* The first line.
LEMMA LineSteps ==
    ASSUME IInv, UNCHANGED <<input, end>>,
           Literal \/ Version \/ LineAlmostDone \/ Dead
    PROVE  IInv'
<1>1. CASE Literal
    <2>1. running /\ p < end /\ parser.state \in DOMAIN Literals
        BY <1>1 DEF Literal, At
    <2>2. MarkOf(parser.state) = "none"
        BY <2>1, MarkValues DEF Literals, UrlStates
    <2>3. Literals[parser.state][2] \in States \ Conditional
        BY <2>1 DEF Literals, States, LineStates, BlockStates, Conditional, ChunkStates
    <2>4. Go(Literals[parser.state][2]) \/ Fail("HPE_STRICT")
        BY <1>1 DEF Literal, Expect
    <2> QED  BY <2>1, <2>2, <2>3, <2>4, Move, FailStep DEF Errors
<1>2. CASE Version
    <2>1. running /\ p < end
          /\ parser.state \in {"s_res_http_dot", "s_req_http_dot", "s_res_http_end", "s_req_http_end"}
        BY <1>2 DEF Version, At
    <2>2. MarkOf(parser.state) = "none"
        BY <2>1, MarkValues DEF UrlStates
    <2>3. \/ \E s \in {"s_res_http_minor", "s_req_http_minor", "s_res_first_status_code",
                      "s_req_line_almost_done", "s_header_field_start"} : Go(s)
          \/ Fail("HPE_INVALID_VERSION")
        BY <1>2 DEF Version, Expect
    <2> QED  BY <2>1, <2>2, <2>3, Move, FailStep
             DEF Conditional, ChunkStates, Errors, States, LineStates, BlockStates
<1>3. CASE LineAlmostDone
    <2>1. running /\ p < end /\ parser.state \in {"s_req_line_almost_done", "s_header_almost_done"}
        BY <1>3 DEF LineAlmostDone, At
    <2>2. MarkOf(parser.state) = "none"
        BY <2>1, MarkValues DEF UrlStates
    <2>3. \/ \E s \in {"s_header_field_start", "s_header_value_lws"} : Go(s)
          \/ Fail("HPE_LF_EXPECTED")
        BY <1>3 DEF LineAlmostDone, Expect
    <2> QED  BY <2>1, <2>2, <2>3, Move, FailStep
             DEF Conditional, ChunkStates, Errors, States, LineStates, BlockStates
<1>4. CASE Dead
    <2>1. running /\ p < end /\ parser.state = "s_dead"
        BY <1>4 DEF Dead, At
    <2>2. Skip \/ Fail("HPE_CLOSED_CONNECTION")
        BY <1>4 DEF Dead
    <2> QED  BY <2>1, <2>2, SkipStep, FailStep DEF Errors
<1> QED  BY <1>1, <1>2, <1>3, <1>4

LEMMA VersionNumberStep == ASSUME IInv, UNCHANGED <<input, end>>, VersionNumber  PROVE IInv'
<1>1. running /\ p < end /\ parser.state \in {"s_res_http_major", "s_req_http_major",
                                             "s_res_http_minor", "s_req_http_minor"}
    BY DEF VersionNumber, At
<1>2. CASE Fail("HPE_INVALID_VERSION")
    BY <1>1, <1>2, FailStep DEF Errors
<1>3. CASE ~Fail("HPE_INVALID_VERSION")
    <2>1. IsNum(ch) /\ Unhex(ch) \in Nat
        BY <1>3, DigitValues DEF VersionNumber
    <2>2. PICK q : /\ Take(q) /\ Quiet
                   /\ q \in {[cur EXCEPT !.http_major = Unhex(ch), !.state = "s_res_http_dot"],
                             [cur EXCEPT !.http_major = Unhex(ch), !.state = "s_req_http_dot"],
                             [cur EXCEPT !.http_minor = Unhex(ch), !.state = "s_res_http_end"],
                             [cur EXCEPT !.http_minor = Unhex(ch), !.state = "s_req_http_end"]}
        BY <1>1, <1>3 DEF VersionNumber
    <2>3. /\ q \in ParserRecord /\ q.http_errno = "HPE_OK"
          /\ q.state \in {"s_res_http_dot", "s_req_http_dot", "s_res_http_end", "s_req_http_end"}
        <3>1. cur \in ParserRecord /\ cur.http_errno = "HPE_OK"
            BY <1>1, CountKeeps DEF IInv, InPlace
        <3>2. {"s_res_http_dot", "s_req_http_dot", "s_res_http_end", "s_req_http_end"} \subseteq States
            BY DEF States, LineStates
        <3>3. CASE q = [cur EXCEPT !.http_major = Unhex(ch), !.state = "s_res_http_dot"]
            BY <2>1, <3>1, <3>2, <3>3 DEF ParserRecord
        <3>4. CASE q = [cur EXCEPT !.http_major = Unhex(ch), !.state = "s_req_http_dot"]
            BY <2>1, <3>1, <3>2, <3>4 DEF ParserRecord
        <3>5. CASE q = [cur EXCEPT !.http_minor = Unhex(ch), !.state = "s_res_http_end"]
            BY <2>1, <3>1, <3>2, <3>5 DEF ParserRecord
        <3>6. CASE q = [cur EXCEPT !.http_minor = Unhex(ch), !.state = "s_req_http_end"]
            BY <2>1, <3>1, <3>2, <3>6 DEF ParserRecord
        <3> QED  BY <2>2, <3>3, <3>4, <3>5, <3>6
    <2>4. Gathered(q)
        BY <2>3 DEF Gathered, ChunkStates
    <2>5. mark' \in [Marks -> 0..p] /\ \A j \in Marks : mark'[j] = 0
        BY <1>1, <2>2, NoMark, MarkValues DEF UrlStates, Quiet
    <2> QED  BY <1>1, <2>2, <2>3, <2>4, <2>5, TakeStep
<1> QED  BY <1>2, <1>3

\* A message begins: no number and no flag is left of the one before.
LEMMA FreshTyped ==
    ASSUME IInv
    PROVE  /\ Fresh \in ParserRecord /\ Fresh.http_errno = cur.http_errno
           /\ Fresh.state = cur.state /\ Fresh.method = cur.method
<1>1. MaxLength \in 0..MaxLength /\ {} \in SUBSET Flags
    BY SizesAssumption
<1> QED  BY <1>1, CountKeeps DEF Fresh, ParserRecord

LEMMA StartSteps ==
    ASSUME IInv, UNCHANGED <<input, end>>, StartResponse \/ StartRequest
    PROVE  IInv'
<1>1. running /\ p < end /\ parser.state \in {"s_start_res", "s_start_req"}
      /\ parser.http_errno = "HPE_OK"
    BY DEF StartResponse, StartRequest, At, IInv, InPlace
<1>2. CASE Skip \/ Fail("HPE_INVALID_CONSTANT") \/ Fail("HPE_INVALID_METHOD")
    BY <1>1, <1>2, SkipStep, FailStep DEF Errors
<1> DEFINE first == [Fresh EXCEPT !.state = "s_res_H"]
           next(m) == [Fresh EXCEPT !.method = m, !.index = 1, !.state = "s_req_method"]
<1>3. ASSUME NEW q, q = first \/ q \in {next(m) : m \in {"GET", "HEAD", "POST", "CONNECT"}},
             Take(q), UNCHANGED mark
      PROVE  IInv'
    <2>1. /\ q \in ParserRecord /\ q.http_errno = "HPE_OK" /\ q.state \in {"s_res_H", "s_req_method"}
          /\ q.state = "s_req_method" => q.method \in DOMAIN Methods /\ q.index = 1
        <3>1. Fresh \in ParserRecord /\ Fresh.http_errno = "HPE_OK"
            BY <1>1, FreshTyped, CountKeeps
        <3>2. /\ {"s_res_H", "s_req_method"} \subseteq States
              /\ {"GET", "HEAD", "POST", "CONNECT"} \subseteq DOMAIN Methods
            BY DEF States, LineStates, Methods
        <3>3. CASE q = first
            BY <3>1, <3>2, <3>3 DEF ParserRecord
        <3>4. ASSUME NEW m \in {"GET", "HEAD", "POST", "CONNECT"}, q = next(m)
              PROVE  /\ q \in ParserRecord /\ q.http_errno = "HPE_OK" /\ q.state = "s_req_method"
                     /\ q.method \in DOMAIN Methods /\ q.index = 1
            <4>1. m \in DOMAIN Methods /\ 1 \in 0..127 /\ "s_req_method" \in States
                BY <3>2
            <4>2. q = [Fresh EXCEPT !.method = m, !.index = 1, !.state = "s_req_method"]
                BY <3>4
            <4> QED  BY <3>1, <4>1, <4>2 DEF ParserRecord
        <3> QED  BY <1>3, <3>3, <3>4
    <2>2. Gathered(q)
        BY <2>1 DEF Gathered, ChunkStates, Methods
    <2>3. mark' \in [Marks -> 0..p] /\ \A j \in Marks : mark'[j] = 0
        BY <1>1, <1>3, NoMark, MarkValues DEF UrlStates
    <2> QED  BY <1>1, <1>3, <2>1, <2>2, <2>3, TakeStep
<1>4. CASE Take(first) /\ UNCHANGED mark
    BY <1>3, <1>4
<1>5. ASSUME NEW m \in {"GET", "HEAD", "POST", "CONNECT"}, Take(next(m)), UNCHANGED mark
      PROVE  IInv'
    BY <1>3, <1>5
<1>6. CASE StartResponse
    BY <1>2, <1>4, <1>6 DEF StartResponse, Notify
<1>7. CASE StartRequest
    <2>1. ch \in DOMAIN FirstMethod => FirstMethod[ch] \in {"GET", "HEAD", "POST", "CONNECT"}
        BY DEF FirstMethod
    <2> QED  BY <1>2, <1>5, <1>7, <2>1 DEF StartRequest, Notify
<1> QED  BY <1>6, <1>7

\* What is left of cur when a step changes some fields of it.
LEMMA CurOK ==
    ASSUME IInv, running
    PROVE  cur \in ParserRecord /\ cur.http_errno = "HPE_OK"
BY CountKeeps DEF IInv, InPlace

LEMMA StateChange ==
    ASSUME IInv, running, NEW s \in States \ Conditional
    PROVE  LET q == [cur EXCEPT !.state = s]
           IN q \in ParserRecord /\ q.state = s /\ q.http_errno = "HPE_OK" /\ Gathered(q)
<1> DEFINE q == [cur EXCEPT !.state = s]
<1>1. q \in ParserRecord /\ q.state = s /\ q.http_errno = "HPE_OK"
    BY CurOK DEF ParserRecord
<1>2. Gathered(q)
    BY <1>1 DEF Gathered, Conditional, ChunkStates
<1> QED  BY <1>1, <1>2

\* The index stays within the method, and POST may turn out to be PUT.
LEMMA MethodStep == ASSUME IInv, UNCHANGED <<input, end>>, Method  PROVE IInv'
<1>1. running /\ p < end /\ parser.state = "s_req_method"
    BY DEF Method, At
<1> DEFINE i == parser.index + 1
           next == [cur EXCEPT !.index = i]
           put == [next EXCEPT !.method = "PUT"]
           url == [next EXCEPT !.state = "s_req_spaces_before_url"]
<1>2. /\ cur \in ParserRecord /\ cur.http_errno = "HPE_OK" /\ cur.state = "s_req_method"
      /\ cur.method = parser.method /\ cur.method \in DOMAIN Methods
      /\ cur.index = parser.index /\ parser.index \in Nat /\ parser.index <= Len(Methods[cur.method])
    <2>1. parser.index \in Nat
        <3>1. parser \in ParserRecord
            BY DEF IInv, Gathered
        <3>2. parser.index \in 0..127
            BY <3>1 DEF ParserRecord
        <3> QED  BY <3>2
    <2> QED  BY <1>1, <2>1, CurOK, CountKeeps DEF IInv, Gathered
<1>3. \A m \in DOMAIN Methods : Len(Methods[m]) \in 3..4
    BY DEF Methods
<1>4. i \in 0..127 /\ i <= 5 /\ {"s_req_method", "s_req_spaces_before_url"} \subseteq States
    <2>1. Len(Methods[cur.method]) \in 3..4
        BY <1>2, <1>3
    <2>2. parser.index \in 0..4
        <3>1. ASSUME NEW n \in 3..4, NEW k \in Nat, k <= n  PROVE k \in 0..4
            BY <3>1
        <3> QED  BY <1>2, <2>1, <3>1
    <2>3. i \in 0..127 /\ i <= 5
        BY <2>2
    <2> QED  BY <2>3 DEF States, LineStates
<1>5. next \in ParserRecord /\ next.http_errno = "HPE_OK" /\ next.state = "s_req_method"
      /\ next.method = cur.method /\ next.index = i
    BY <1>2, <1>4 DEF ParserRecord
<1>6. put \in ParserRecord /\ put.http_errno = "HPE_OK" /\ put.state = "s_req_method"
      /\ put.method = "PUT" /\ put.index = i
    <2>1. "PUT" \in DOMAIN Methods
        BY DEF Methods
    <2> HIDE DEF next
    <2> QED  BY <1>5, <2>1 DEF ParserRecord
<1>7. url \in ParserRecord /\ url.http_errno = "HPE_OK" /\ url.state = "s_req_spaces_before_url"
    <2> HIDE DEF next
    <2> QED  BY <1>4, <1>5 DEF ParserRecord
<1>8. mark \in [Marks -> 0..p] /\ \A j \in Marks : mark[j] = 0
    BY <1>1, NoMark, MarkValues DEF UrlStates
<1>9. CASE Take(url) /\ Quiet
    <2>1. Gathered(url)
        BY <1>7 DEF Gathered, ChunkStates
    <2> HIDE DEF url
    <2> QED  BY <1>1, <1>7, <1>8, <1>9, <2>1, TakeStep DEF Quiet
<1>10. CASE Take(next) /\ Quiet /\ i <= Len(Methods[parser.method])
    <2>1. Gathered(next)
        BY <1>2, <1>5, <1>10 DEF Gathered, ChunkStates
    <2> HIDE DEF next
    <2> QED  BY <1>1, <1>5, <1>8, <1>10, <2>1, TakeStep DEF Quiet
<1>11. CASE Take(put) /\ Quiet /\ i = 2
    <2>1. Gathered(put)
        BY <1>6, <1>11 DEF Gathered, ChunkStates, Methods
    <2> HIDE DEF put
    <2> QED  BY <1>1, <1>6, <1>8, <1>11, <2>1, TakeStep DEF Quiet
<1>12. CASE Fail("HPE_INVALID_METHOD")
    BY <1>1, <1>12, FailStep DEF Errors
<1> QED  BY <1>9, <1>10, <1>11, <1>12 DEF Method

LEMMA UrlSteps ==
    ASSUME IInv, UNCHANGED <<input, end>>, SpacesBeforeUrl \/ Url
    PROVE  IInv'
<1>1. running /\ p < end /\ parser.state \in UrlStates \cup {"s_req_spaces_before_url"}
    BY DEF SpacesBeforeUrl, Url, At
<1>2. MarkOf(parser.state) \in {"none", "url"} /\ "url" \in Marks
    BY <1>1, MarkValues DEF UrlStates, Marks
<1>3. CASE Skip \/ Fail("HPE_INVALID_URL")
    <2>1. parser.state # "s_chunk_size_start"
        BY <1>1 DEF UrlStates
    <2> QED  BY <1>1, <1>3, <2>1, SkipStep, FailStep DEF Errors
<1>4. UrlStates \subseteq States \ Conditional
    BY DEF UrlStates, States, Conditional, ChunkStates
<1>5. CASE SpacesBeforeUrl /\ ~Skip /\ ~Fail("HPE_INVALID_URL")
    <2> DEFINE s == ParseUrlChar(IF parser.method = "CONNECT" THEN "s_req_server_start"
                                 ELSE parser.state, ch)
               q == [cur EXCEPT !.state = s]
    <2>1. parser.state = "s_req_spaces_before_url"
        BY <1>5 DEF SpacesBeforeUrl, At
    <2>2. s \in UrlStates \cup {"s_dead"}
        BY <2>1, UrlCharStates DEF UrlStates
    <2>3. s # "s_dead" /\ Take(q) /\ mark' = Marked("url")
        BY <1>5 DEF SpacesBeforeUrl
    <2> HIDE DEF s
    <2>4. q.state = s /\ q.http_errno = "HPE_OK" /\ Gathered(q)
        BY <1>1, <1>4, <2>2, <2>3, StateChange
    <2> HIDE DEF q
    <2>5. MarkOf(s) = "url"
        BY <2>2, <2>3, MarkValues
    <2> QED  BY <1>1, <1>2, <2>3, <2>4, <2>5, MarkedTyped, TakeStep
<1>6. CASE Url /\ ~Fail("HPE_INVALID_URL")
    <2>1. parser.state \in UrlStates
        BY <1>6 DEF Url, At
    <2>2. CASE Go(ParseUrlChar(parser.state, ch)) /\ ParseUrlChar(parser.state, ch) # "s_dead"
        <3>1. ParseUrlChar(parser.state, ch) \in UrlStates
            BY <2>1, <2>2, UrlCharStates
        <3>2. MarkOf(ParseUrlChar(parser.state, ch)) = "url"
            BY <3>1, MarkValues
        <3> QED  BY <1>1, <1>2, <1>4, <2>2, <3>1, <3>2, Move
    <2> DEFINE http == [cur EXCEPT !.state = "s_req_http_start"]
               old(s) == [cur EXCEPT !.http_major = 0, !.http_minor = 9, !.state = s]
    <2>3. ASSUME Callback(mark, "url", p - 1)
          PROVE  mark' \in [Marks -> 0..p] /\ \A j \in Marks : mark'[j] = 0
        <3>1. p \in Nat
            BY DEF IInv, Positions
        <3> QED  BY <1>2, <2>3, <3>1, OwnMark, CallbackClears
    <2>4. CASE Callback(mark, "url", p - 1) /\ Take(http)
        <3>1. http.http_errno = "HPE_OK" /\ Gathered(http)
            BY <1>1, StateChange DEF States, LineStates, Conditional, ChunkStates
        <3> HIDE DEF http
        <3> QED  BY <1>1, <2>3, <2>4, <3>1, TakeStep
    <2>5. ASSUME NEW s \in {"s_req_line_almost_done", "s_header_field_start"},
                 Callback(mark, "url", p - 1), Take(old(s))
          PROVE  IInv'
        <3>1. s \in States
            BY DEF States, LineStates, BlockStates
        <3>2. /\ old(s) \in ParserRecord /\ old(s).state = s /\ old(s).http_errno = "HPE_OK"
            BY <1>1, <3>1, CurOK DEF ParserRecord
        <3> HIDE DEF old
        <3>3. Gathered(old(s))
            BY <3>2 DEF Gathered, ChunkStates
        <3> QED  BY <1>1, <2>3, <2>5, <3>2, <3>3, TakeStep
    <2>6. \/ Callback(mark, "url", p - 1) /\ Take(http)
          \/ \E s \in {"s_req_line_almost_done", "s_header_field_start"} :
                 Callback(mark, "url", p - 1) /\ Take(old(s))
          \/ Go(ParseUrlChar(parser.state, ch)) /\ ParseUrlChar(parser.state, ch) # "s_dead"
        BY <1>6 DEF Url
    <2> QED  BY <2>2, <2>4, <2>5, <2>6
<1> QED  BY <1>3, <1>5, <1>6

LEMMA HttpStartStep == ASSUME IInv, UNCHANGED <<input, end>>, HttpStart  PROVE IInv'
<1>1. running /\ p < end /\ parser.state = "s_req_http_start"
    BY DEF HttpStart, At
<1>2. MarkOf(parser.state) = "none"
    BY <1>1, MarkValues DEF UrlStates
<1>3. Skip \/ Go("s_req_http_H") \/ Fail("HPE_INVALID_CONSTANT")
    BY DEF HttpStart
<1> QED  BY <1>1, <1>2, <1>3, SkipStep, Move, FailStep
            DEF Conditional, ChunkStates, Errors, States, LineStates

LEMMA StatusCodeSteps ==
    ASSUME IInv, UNCHANGED <<input, end>>, FirstStatusCode \/ StatusCode
    PROVE  IInv'
<1>1. running /\ p < end /\ parser.state \in {"s_res_first_status_code", "s_res_status_code"}
    BY DEF FirstStatusCode, StatusCode, At
<1>2. MarkOf(parser.state) = "none"
    BY <1>1, MarkValues DEF UrlStates
<1>3. CASE Skip \/ Fail("HPE_INVALID_STATUS") \/ Go("s_res_status_start") \/ GoAgain("s_res_status_start")
    BY <1>1, <1>2, <1>3, SkipStep, Move, FailStep
       DEF Conditional, ChunkStates, Errors, States, LineStates
<1> DEFINE q(code) == [cur EXCEPT !.status_code = code, !.state = "s_res_status_code"]
           same(code) == [cur EXCEPT !.status_code = code]
<1>4. parser.status_code \in Nat
    <2>1. parser \in ParserRecord
        BY DEF IInv, Gathered
    <2> QED  BY <2>1 DEF ParserRecord
<1>5. ASSUME NEW code \in Nat, Quiet,
             Take(q(code)) \/ (parser.state = "s_res_status_code" /\ Take(same(code)))
      PROVE  IInv'
    <2>1. mark' \in [Marks -> 0..p] /\ \A j \in Marks : mark'[j] = 0
        BY <1>2, <1>5, NoMark DEF Quiet
    <2>2. CASE Take(q(code))
        <3>1. q(code) \in ParserRecord /\ q(code).http_errno = "HPE_OK"
              /\ q(code).state = "s_res_status_code"
            BY <1>1, CurOK DEF ParserRecord, States, LineStates
        <3> HIDE DEF q
        <3>2. Gathered(q(code))
            BY <3>1 DEF Gathered, ChunkStates
        <3> QED  BY <1>1, <2>1, <2>2, <3>1, <3>2, TakeStep
    <2>3. CASE parser.state = "s_res_status_code" /\ Take(same(code))
        <3>1. same(code) \in ParserRecord /\ same(code).http_errno = "HPE_OK"
              /\ same(code).state = cur.state
            BY <1>1, CurOK DEF ParserRecord
        <3>2. cur.state = "s_res_status_code"
            BY <2>3, CountKeeps
        <3> HIDE DEF same
        <3>3. Gathered(same(code))
            BY <3>1, <3>2 DEF Gathered, ChunkStates
        <3> QED  BY <1>1, <2>1, <2>3, <3>1, <3>3, TakeStep
    <2> QED  BY <1>5, <2>2, <2>3
<1>6. CASE FirstStatusCode
    <2>1. IsNum(ch) => Unhex(ch) \in Nat
        BY DigitValues
    <2> QED  BY <1>3, <1>5, <1>6, <2>1 DEF FirstStatusCode
<1>7. CASE StatusCode
    <2>1. parser.state = "s_res_status_code"
        BY <1>7 DEF StatusCode, At
    <2>2. IsNum(ch) => 10 * parser.status_code + Unhex(ch) \in Nat
        BY <1>4, DigitValues
    <2> QED  BY <1>3, <1>5, <1>7, <2>1, <2>2 DEF StatusCode
<1> QED  BY <1>6, <1>7

LEMMA StatusSteps ==
    ASSUME IInv, UNCHANGED <<input, end>>, StatusStart \/ Status
    PROVE  IInv'
<1>1. running /\ p < end /\ parser.state \in {"s_res_status_start", "s_res_status"}
    BY DEF StatusStart, Status, At
<1>2. MarkOf(parser.state) \in {"none", "status"} /\ "status" \in Marks
    BY <1>1, MarkValues DEF UrlStates, Marks
<1>3. CASE StatusStart
    <2> DEFINE q == [cur EXCEPT !.state = "s_res_status", !.index = 0]
    <2>1. q \in ParserRecord /\ q.http_errno = "HPE_OK" /\ q.state = "s_res_status"
        <3>1. "s_res_status" \in States /\ 0 \in 0..127
            BY DEF States, LineStates
        <3> QED  BY <1>1, <3>1, CurOK DEF ParserRecord
    <2>2. mark' = Marked("status") /\ (Take(q) \/ Retake(q))
        BY <1>3 DEF StatusStart
    <2> HIDE DEF q
    <2>3. Gathered(q)
        BY <2>1 DEF Gathered, ChunkStates
    <2>4. \A j \in Marks : mark'[j] # 0 => j = MarkOf(q.state)
        BY <1>2, <2>1, <2>2, MarkedTyped, MarkValues
    <2> QED  BY <1>1, <1>2, <2>1, <2>2, <2>3, <2>4, MarkedTyped, TakeStep
<1>4. CASE Status /\ Skip
    BY <1>1, <1>4, SkipStep
<1>5. CASE Status /\ ~Skip
    <2>1. PICK s \in {"s_res_line_almost_done", "s_header_field_start"} :
              Callback(mark, "status", p - 1) /\ Take([cur EXCEPT !.state = s])
        BY <1>5 DEF Status
    <2> DEFINE q == [cur EXCEPT !.state = s]
    <2>2. s \in States \ Conditional
        BY DEF States, LineStates, BlockStates, Conditional, ChunkStates
    <2>3. q.http_errno = "HPE_OK" /\ Gathered(q)
        BY <1>1, <2>2, StateChange
    <2> HIDE DEF q
    <2>4. p \in Nat
        BY DEF IInv, Positions
    <2>5. mark' \in [Marks -> 0..p] /\ \A j \in Marks : mark'[j] = 0
        BY <1>2, <2>1, <2>4, OwnMark, CallbackClears
    <2>6. Take(q)
        BY <2>1 DEF q
    <2> QED  BY <1>1, <2>3, <2>5, <2>6, TakeStep
<1> QED  BY <1>3, <1>4, <1>5

-----------------------------------------------------------------------------
\* Header names.
LEMMA WordLengths ==
    /\ \A h \in DOMAIN Words : Len(Words[h]) \in 3..6 /\ Matched[h] \in HeaderStates \ DOMAIN Words
    /\ \A h \in DOMAIN Words : Matched[h] \notin {"h_C", "h_CO", "h_CON",
                                                  "h_matching_connection_token_start"}
    /\ DOMAIN Words \subseteq HeaderStates /\ DOMAIN Matched = DOMAIN Words
BY DEF Words, Matched, HeaderStates

LEMMA HeaderFieldStartStep ==
    ASSUME IInv, UNCHANGED <<input, end>>, HeaderFieldStart
    PROVE  IInv'
<1>1. running /\ p < end /\ parser.state = "s_header_field_start"
    BY DEF HeaderFieldStart, At
<1>2. MarkOf(parser.state) = "none" /\ "header_field" \in Marks
    BY <1>1, MarkValues DEF UrlStates, Marks
<1> DEFINE q(h) == [cur EXCEPT !.index = 0, !.state = "s_header_field", !.header_state = h]
           Firsts == {"h_C", "h_matching_proxy_connection", "h_matching_transfer_encoding",
                      "h_matching_upgrade", "h_general"}
<1>3. \/ Go("s_headers_almost_done") \/ GoAgain("s_headers_almost_done")
      \/ Fail("HPE_INVALID_HEADER_TOKEN")
      \/ \E h \in Firsts : Take(q(h)) /\ mark' = Marked("header_field")
    <2> DEFINE first == [c |-> "h_C", p |-> "h_matching_proxy_connection",
                         t |-> "h_matching_transfer_encoding", u |-> "h_matching_upgrade"]
               h == IF ch \in DOMAIN first THEN first[ch] ELSE "h_general"
    <2>1. h \in Firsts
        OBVIOUS
    <2>2. \/ Go("s_headers_almost_done") \/ GoAgain("s_headers_almost_done")
          \/ Fail("HPE_INVALID_HEADER_TOKEN")
          \/ Take(q(h)) /\ mark' = Marked("header_field")
        BY DEF HeaderFieldStart
    <2> HIDE DEF h, q
    <2> QED  BY <2>1, <2>2
<1>4. ASSUME NEW h \in Firsts, Take(q(h)), mark' = Marked("header_field")  PROVE IInv'
    <2>1. h \in HeaderStates /\ IndexFits(h, 0)
        BY DEF HeaderStates, IndexFits, Words
    <2>2. q(h) \in ParserRecord /\ q(h).http_errno = "HPE_OK" /\ q(h).state = "s_header_field"
          /\ q(h).header_state = h /\ q(h).index = 0
        <3>1. "s_header_field" \in States /\ 0 \in 0..127
            BY DEF States, BlockStates
        <3> QED  BY <1>1, <2>1, <3>1, CurOK DEF ParserRecord
    <2> HIDE DEF q
    <2>3. Gathered(q(h))
        BY <2>1, <2>2 DEF Gathered, ChunkStates
    <2>4. \A j \in Marks : mark'[j] # 0 => j = MarkOf(q(h).state)
        BY <1>2, <1>4, <2>2, MarkedTyped, MarkValues
    <2> QED  BY <1>1, <1>2, <1>4, <2>2, <2>3, <2>4, MarkedTyped, TakeStep
<1> QED  BY <1>1, <1>2, <1>3, <1>4, Move, FailStep
            DEF Conditional, ChunkStates, Errors, States, BlockStates

\* The symbols that an inner loop has read are none or more.
LEMMA LoopedGathered ==
    ASSUME IInv, NEW q, Gathered(q), q.state # "s_chunk_size_start"
    PROVE  /\ Gathered(Looped(q)) /\ Looped(q) \in ParserRecord /\ Looped(q).state = q.state
           /\ Looped(q).http_errno = q.http_errno /\ Begun \in 0..p
<1>1. Begun \in Nat /\ Begun <= p /\ p - Begun \in Nat
    BY DEF IInv, Positions, Begun
<1>2. q \in ParserRecord /\ q.nread \in Nat
    BY DEF Gathered, ParserRecord
<1>3. q.nread + (p - Begun) \in Nat
    BY <1>1, <1>2
<1>4. /\ Looped(q) \in ParserRecord /\ Looped(q).state = q.state
      /\ Looped(q).http_errno = q.http_errno /\ Looped(q).method = q.method
      /\ Looped(q).index = q.index /\ Looped(q).header_state = q.header_state
      /\ Looped(q).flags = q.flags /\ Looped(q).content_length = q.content_length
    BY <1>2, <1>3 DEF Looped, ParserRecord
<1> QED  BY <1>1, <1>4 DEF Gathered

LEMMA LoopStep ==
    ASSUME IInv, running, p < end, UNCHANGED <<input, end>>,
           parser.state \in {"s_header_field", "s_header_value"},
           NEW q, Gathered(q), q.state = parser.state, q.http_errno = "HPE_OK", Loop(q)
    PROVE  IInv'
<1>1. /\ Gathered(Looped(q)) /\ Looped(q) \in ParserRecord /\ Looped(q).state = q.state
      /\ Looped(q).http_errno = "HPE_OK" /\ Begun \in 0..p
    BY LoopedGathered
<1>2. CASE Fail("HPE_HEADER_OVERFLOW")
    BY <1>2, FailStep DEF Errors
<1>3. CASE Take(Looped(q)) /\ Quiet
    BY <1>1, <1>3, TakeStep DEF Quiet, IInv, Positions, InPlace
<1>4. CASE /\ parser' = q /\ p' = p + 1 /\ p + 1 < end /\ start' = Begun
           /\ redo' = FALSE /\ UNCHANGED running /\ Quiet
    <2>1. p' \in p..end /\ start' \in 0..p'
        BY <1>1, <1>4 DEF IInv, Positions
    <2>2. mark' = mark /\ mark \in [Marks -> 0..p] /\ \A k \in Marks : mark[k] # 0 => k = MarkOf(q.state)
        BY <1>4 DEF Quiet, IInv, Positions, InPlace
    <2> QED  BY <1>4, <2>1, <2>2, Advance
<1> QED  BY <1>2, <1>3, <1>4 DEF Loop

\* A symbol of a name or a value changes what is looked for, and the index
\* stays within the word.
Kept(m, q) == /\ m \in ParserRecord /\ m.state = q.state
              /\ m.http_errno = q.http_errno /\ IndexFits(m.header_state, m.index)

LEMMA MatchWordKeeps ==
    ASSUME NEW q \in ParserRecord, NEW c, IndexFits(q.header_state, q.index),
           q.header_state \in DOMAIN Words,
           NEW other \in {"h_general", "h_matching_connection_token"}
    PROVE  /\ Kept(MatchWord(q, c, other), q)
           /\ MatchWord(q, c, other).header_state
                \in {other, q.header_state, Matched[q.header_state]}
<1> DEFINE h == q.header_state
           word == Words[h]
           i == q.index + 1
           to == IF i >= Len(word) \/ c # word[i + 1] THEN other
                 ELSE IF i = Len(word) - 1 THEN Matched[h] ELSE h
<1>1. MatchWord(q, c, other) = [q EXCEPT !.index = i, !.header_state = to]
    BY DEF MatchWord
<1>2. Len(word) \in 3..6 /\ Matched[h] \in HeaderStates \ DOMAIN Words
      /\ Matched[h] \notin {"h_C", "h_CO", "h_CON", "h_matching_connection_token_start"}
      /\ h \in HeaderStates /\ h \notin {"h_C", "h_CO", "h_CON", "h_matching_connection_token_start"}
    BY WordLengths DEF Words
<1>3. q.index \in 0..127 /\ q.index < Len(word)
    BY DEF IndexFits, ParserRecord
<1>4. i \in 1..6
    <2>1. ASSUME NEW n \in 3..6, NEW k \in 0..127, k < n  PROVE k + 1 \in 1..6
        BY <2>1
    <2> HIDE DEF word
    <2> QED  BY <1>2, <1>3, <2>1
<1>5. other \in HeaderStates /\ IndexFits(other, i)
    BY <1>4 DEF HeaderStates, IndexFits, Words
<1>6. to \in {other, h, Matched[h]} /\ to \in HeaderStates
    BY <1>2, <1>5
<1>7. IndexFits(to, i)
    <2>1. IndexFits(Matched[h], i)
        BY <1>2, <1>4 DEF IndexFits
    <2>2. i < Len(word) => IndexFits(h, i)
        BY <1>2, <1>4 DEF IndexFits
    <2> HIDE DEF word
    <2> QED  BY <1>2, <1>4, <1>5, <2>1, <2>2
<1>8. i \in 0..127
    BY <1>4
<1> HIDE DEF to, i
<1>9. LET m == [q EXCEPT !.index = i, !.header_state = to]
      IN /\ m \in ParserRecord /\ m.state = q.state /\ m.http_errno = q.http_errno
         /\ m.header_state = to /\ m.index = i
    BY <1>6, <1>8 DEF ParserRecord
<1> QED  BY <1>1, <1>6, <1>7, <1>9 DEF Kept

LEMMA FieldCharKeeps ==
    ASSUME NEW q \in ParserRecord, NEW c, IndexFits(q.header_state, q.index)
    PROVE  Kept(FieldChar(q, c), q)
<1> DEFINE h == q.header_state
           Becomes(s) == [q EXCEPT !.index = @ + 1, !.header_state = s]
           general == [q EXCEPT !.header_state = "h_general"]
<1>1. q.index \in 0..127 /\ q.index <= 6
    BY DEF IndexFits, ParserRecord
<1>2. ASSUME NEW s \in {"h_general", "h_CO", "h_CON", "h_matching_content_length",
                         "h_matching_connection"},
             IndexFits(s, q.index + 1)
      PROVE  Kept(Becomes(s), q)
    <2>1. s \in HeaderStates
        BY DEF HeaderStates, Words
    <2>2. q.index + 1 \in 0..127
        BY <1>1
    <2>3. Becomes(s) \in ParserRecord /\ Becomes(s).state = q.state
          /\ Becomes(s).http_errno = q.http_errno /\ Becomes(s).header_state = s
          /\ Becomes(s).index = q.index + 1
        BY <2>1, <2>2 DEF ParserRecord
    <2> QED  BY <1>2, <2>3 DEF Kept
<1>3. Kept(general, q)
    <2>1. general \in ParserRecord /\ general.state = q.state /\ general.index = q.index
          /\ general.http_errno = q.http_errno /\ general.header_state = "h_general"
        BY DEF ParserRecord, HeaderStates
    <2>2. IndexFits("h_general", q.index)
        BY <1>1 DEF IndexFits, Words
    <2> QED  BY <2>1, <2>2 DEF Kept
<1>4. Kept(q, q)
    BY DEF Kept
<1>5. CASE h \in {"h_C", "h_CO", "h_CON"}
    <2>1. /\ h = "h_C" => IndexFits("h_CO", q.index + 1)
          /\ h = "h_CO" => IndexFits("h_CON", q.index + 1)
          /\ h = "h_CON" => /\ IndexFits("h_matching_content_length", q.index + 1)
                            /\ IndexFits("h_matching_connection", q.index + 1)
          /\ IndexFits("h_general", q.index + 1)
        BY <1>1, <1>5 DEF IndexFits, Words
    <2> h \notin DOMAIN Words
        BY <1>5 DEF Words
    <2>2. CASE h = "h_C"
        <3>1. FieldChar(q, c) = Becomes("h_CO") \/ FieldChar(q, c) = Becomes("h_general")
            BY <2>2 DEF FieldChar
        <3> QED  BY <1>2, <2>1, <2>2, <3>1
    <2>3. CASE h = "h_CO"
        <3>1. FieldChar(q, c) = Becomes("h_CON") \/ FieldChar(q, c) = Becomes("h_general")
            BY <2>3 DEF FieldChar
        <3> QED  BY <1>2, <2>1, <2>3, <3>1
    <2>4. CASE h = "h_CON"
        <3>1. \/ FieldChar(q, c) = Becomes("h_matching_content_length")
              \/ FieldChar(q, c) = Becomes("h_matching_connection")
              \/ FieldChar(q, c) = Becomes("h_general")
            BY <2>4 DEF FieldChar
        <3> QED  BY <1>2, <2>1, <2>4, <3>1
    <2> QED  BY <1>5, <2>2, <2>3, <2>4
<1>6. CASE h \notin {"h_C", "h_CO", "h_CON"}
    <2>1. CASE h = "h_general"
        <3>1. h \notin DOMAIN Words
            BY <2>1 DEF Words
        <3>2. FieldChar(q, c) = q
            BY <2>1, <3>1 DEF FieldChar
        <3> QED  BY <1>4, <3>2
    <2>2. CASE h \in DOMAIN Words
        <3>1. h # "h_general"
            BY <2>2 DEF Words
        <3>2. FieldChar(q, c) = MatchWord(q, c, "h_general")
            BY <1>6, <2>2, <3>1 DEF FieldChar
        <3> QED  BY <2>2, <3>2, MatchWordKeeps
    <2>3. CASE h \notin DOMAIN Words /\ h # "h_general"
        <3>1. FieldChar(q, c) = general
            BY <1>6, <2>3 DEF FieldChar
        <3> QED  BY <1>3, <3>1
    <2> QED  BY <2>1, <2>2, <2>3
<1> QED  BY <1>5, <1>6

LEMMA HeaderFieldStep == ASSUME IInv, UNCHANGED <<input, end>>, HeaderField  PROVE IInv'
<1>1. running /\ p < end /\ parser.state = "s_header_field"
    BY DEF HeaderField, At
<1>2. /\ cur \in ParserRecord /\ cur.http_errno = "HPE_OK" /\ cur.state = "s_header_field"
      /\ IndexFits(cur.header_state, cur.index)
    BY <1>1, CurOK, CountKeeps DEF IInv, Gathered
<1>3. CASE Fail("HPE_HEADER_OVERFLOW") \/ Fail("HPE_INVALID_HEADER_TOKEN")
    BY <1>1, <1>3, FailStep DEF Errors
<1>4. CASE Loop(FieldChar(cur, ch))
    <2>1. Kept(FieldChar(cur, ch), cur)
        BY <1>2, FieldCharKeeps
    <2>2. Gathered(FieldChar(cur, ch))
        BY <1>2, <2>1 DEF Kept, Gathered, ChunkStates
    <2> QED  BY <1>1, <1>2, <1>4, <2>1, <2>2, LoopStep DEF Kept
<1>5. CASE /\ Take([Looped(cur) EXCEPT !.state = "s_header_value_discard_ws"])
           /\ Callback(mark, "header_field", p - 1)
    <2> DEFINE q == [Looped(cur) EXCEPT !.state = "s_header_value_discard_ws"]
    <2>1. Looped(cur) \in ParserRecord /\ Looped(cur).http_errno = "HPE_OK"
        BY <1>1, <1>2, CurGathered, LoopedGathered
    <2>2. q \in ParserRecord /\ q.http_errno = "HPE_OK" /\ q.state = "s_header_value_discard_ws"
        BY <2>1 DEF ParserRecord, States, BlockStates
    <2> HIDE DEF q
    <2>3. Gathered(q)
        BY <2>2 DEF Gathered, ChunkStates
    <2>4. p \in Nat /\ "header_field" \in Marks /\ MarkOf(parser.state) = "header_field"
        BY <1>1, MarkValues DEF IInv, Positions, Marks
    <2>5. mark' \in [Marks -> 0..p] /\ \A j \in Marks : mark'[j] = 0
        BY <1>5, <2>4, OwnMark, CallbackClears
    <2>6. Take(q)
        BY <1>5 DEF q
    <2> QED  BY <1>1, <2>2, <2>3, <2>5, <2>6, TakeStep
<1> QED  BY <1>3, <1>4, <1>5 DEF HeaderField

-----------------------------------------------------------------------------
\* Header values: a step fails, or looks for something that values have.
ValueFits(m) ==
    /\ m \in ParserRecord /\ m.state = "s_header_value"
    /\ m.http_errno = "HPE_OK" => /\ IndexFits(m.header_state, m.index)
                                  /\ m.header_state \notin {"h_connection", "h_transfer_encoding"}

LEMMA ValueGathered ==
    ASSUME NEW m, ValueFits(m), m.http_errno = "HPE_OK"
    PROVE  Gathered(m)
BY DEF ValueFits, Gathered, ChunkStates

LEMMA ErrorFits ==
    ASSUME NEW q \in ParserRecord, q.state = "s_header_value", NEW e \in Errors
    PROVE  ValueFits(Error(q, e))
<1>1. Error(q, e) \in ParserRecord /\ Error(q, e).state = "s_header_value"
      /\ Error(q, e).http_errno = e
    BY DEF Error, ParserRecord
<1> QED  BY <1>1 DEF ValueFits, Errors

\* A new header state, perhaps with a flag and a reset index.
LEMMA ToFits ==
    ASSUME NEW q \in ParserRecord, q.state = "s_header_value", q.index <= 6,
           NEW h \in HeaderStates \ {"h_connection", "h_transfer_encoding", "h_C", "h_CO", "h_CON"},
           h \in DOMAIN Words \cup {"h_matching_connection_token_start"} => q.index = 0
    PROVE  ValueFits([q EXCEPT !.header_state = h])
<1> DEFINE m == [q EXCEPT !.header_state = h]
<1>1. m \in ParserRecord /\ m.state = "s_header_value" /\ m.header_state = h /\ m.index = q.index
    BY DEF ParserRecord
<1>2. IndexFits(h, q.index)
    <2>1. ASSUME h \in DOMAIN Words  PROVE 0 < Len(Words[h])
        <3>1. Len(Words[h]) \in 3..6
            BY <2>1, WordLengths
        <3>2. ASSUME NEW n \in 3..6  PROVE 0 < n
            BY <3>2
        <3> QED  BY <3>1, <3>2
    <2>2. h \in DOMAIN Words => q.index < Len(Words[h])
        BY <2>1
    <2> QED  BY <2>2 DEF IndexFits
<1> QED  BY <1>1, <1>2 DEF ValueFits

LEMMA ConnectionWords ==
    /\ \A c \in DOMAIN ConnectionWord :
          ConnectionWord[c] \in {"h_matching_connection_keep_alive", "h_matching_connection_close",
                                "h_matching_connection_upgrade"}
    /\ {"h_matching_connection_keep_alive", "h_matching_connection_close",
        "h_matching_connection_upgrade", "h_matching_transfer_encoding_chunked"} \subseteq DOMAIN Words
    /\ {"h_general", "h_matching_connection_token", "h_matching_connection_token_start",
        "h_content_length_num", "h_content_length_ws"} \cap DOMAIN Words = {}
    /\ {"h_general", "h_matching_connection_token", "h_matching_connection_token_start",
        "h_content_length_num", "h_content_length_ws"} \cup DOMAIN Words
         \subseteq HeaderStates \ {"h_connection", "h_transfer_encoding", "h_C", "h_CO", "h_CON"}
BY DEF ConnectionWord, Words, HeaderStates

LEMMA ValueFirstFits ==
    ASSUME NEW q \in ParserRecord, NEW c, q.state = "s_header_value", q.index = 0,
           q.http_errno = "HPE_OK"
    PROVE  ValueFits(ValueFirst(q, c))
<1> DEFINE h == q.header_state
           To(s) == [q EXCEPT !.header_state = s]
           upgrade == [To("h_general") EXCEPT !.flags = @ \cup {"F_UPGRADE"}]
           length == [To("h_content_length_num")
                         EXCEPT !.content_length = Unhex(c), !.flags = @ \cup {"F_CONTENTLENGTH"}]
           Targets == {"h_general", "h_matching_connection_token"} \cup DOMAIN Words
<1>1. ASSUME NEW s \in Targets  PROVE ValueFits(To(s))
    BY <1>1, ToFits, ConnectionWords
<1>2. CASE h = "h_upgrade"
    <2>1. To("h_general") \in ParserRecord /\ To("h_general").state = "s_header_value"
          /\ To("h_general").header_state = "h_general" /\ To("h_general").index = 0
        BY DEF ParserRecord, HeaderStates
    <2>2. upgrade \in ParserRecord /\ upgrade.state = "s_header_value"
          /\ upgrade.header_state = "h_general" /\ upgrade.index = 0
        <3> HIDE DEF To
        <3> QED  BY <2>1 DEF ParserRecord, Flags
    <2>3. ValueFirst(q, c) = upgrade
        BY <1>2 DEF ValueFirst
    <2>4. IndexFits("h_general", 0)
        BY DEF IndexFits, Words
    <2> QED  BY <2>2, <2>3, <2>4 DEF ValueFits
<1>3. CASE h = "h_transfer_encoding"
    <2>1. ValueFirst(q, c) = To("h_matching_transfer_encoding_chunked") \/ ValueFirst(q, c) = To("h_general")
        BY <1>3 DEF ValueFirst
    <2> QED  BY <1>1, <2>1, ConnectionWords
<1>4. CASE h = "h_content_length"
    <2>1. CASE ~IsNum(c)
        <3>1. ValueFirst(q, c) = Error(q, "HPE_INVALID_CONTENT_LENGTH")
            BY <1>4, <2>1 DEF ValueFirst
        <3> QED  BY <3>1, ErrorFits DEF Errors
    <2>2. CASE IsNum(c) /\ "F_CONTENTLENGTH" \in q.flags
        <3>1. ValueFirst(q, c) = Error(q, "HPE_UNEXPECTED_CONTENT_LENGTH")
            BY <1>4, <2>2 DEF ValueFirst
        <3> QED  BY <3>1, ErrorFits DEF Errors
    <2>3. CASE IsNum(c) /\ "F_CONTENTLENGTH" \notin q.flags
        <3>1. ValueFirst(q, c) = length
            BY <1>4, <2>3 DEF ValueFirst
        <3>2. Unhex(c) \in 0..MaxLength
            BY <2>3, DigitValues, SizesAssumption
        <3>3. To("h_content_length_num") \in ParserRecord /\ To("h_content_length_num").state = "s_header_value"
              /\ To("h_content_length_num").header_state = "h_content_length_num"
              /\ To("h_content_length_num").index = 0
            BY DEF ParserRecord, HeaderStates
        <3>4. length \in ParserRecord /\ length.state = "s_header_value"
              /\ length.header_state = "h_content_length_num" /\ length.index = 0
            <4> HIDE DEF To
            <4> QED  BY <3>2, <3>3 DEF ParserRecord, Flags
        <3>5. IndexFits("h_content_length_num", 0)
            BY DEF IndexFits, Words
        <3> QED  BY <3>1, <3>4, <3>5 DEF ValueFits
    <2> QED  BY <2>1, <2>2, <2>3
<1>5. CASE h = "h_connection"
    <2>1. CASE c \in DOMAIN ConnectionWord
        <3>1. ValueFirst(q, c) = To(ConnectionWord[c])
            BY <1>5, <2>1 DEF ValueFirst
        <3> QED  BY <1>1, <2>1, <3>1, ConnectionWords
    <2>2. CASE c \notin DOMAIN ConnectionWord
        <3>1. ValueFirst(q, c) = To("h_matching_connection_token")
            BY <1>5, <2>2 DEF ValueFirst
        <3> QED  BY <1>1, <3>1
    <2> QED  BY <2>1, <2>2
<1>6. CASE h \in {"h_content_length_ws", "h_matching_connection_token_start"}
    <2>1. ValueFirst(q, c) = q
        BY <1>6 DEF ValueFirst
    <2>2. IndexFits(h, 0)
        BY <1>6 DEF IndexFits, Words
    <2> QED  BY <1>6, <2>1, <2>2 DEF ValueFits
<1>7. CASE h \notin {"h_upgrade", "h_transfer_encoding", "h_content_length", "h_connection",
                     "h_content_length_ws", "h_matching_connection_token_start"}
    <2>1. ValueFirst(q, c) = To("h_general")
        BY <1>7 DEF ValueFirst
    <2> QED  BY <1>1, <2>1
<1> QED  BY <1>2, <1>3, <1>4, <1>5, <1>6, <1>7

\* The first symbol of a value.
LEMMA ValueStartStep ==
    ASSUME IInv, running, p < end, UNCHANGED <<input, end>>,
           MarkOf(parser.state) = "none", ValueStart
    PROVE  IInv'
<1> DEFINE first == [cur EXCEPT !.state = "s_header_value", !.index = 0]
           q == ValueFirst(first, ch)
<1>1. first \in ParserRecord /\ first.state = "s_header_value" /\ first.index = 0
      /\ first.http_errno = "HPE_OK"
    <2>1. "s_header_value" \in States /\ 0 \in 0..127
        BY DEF States, BlockStates
    <2> QED  BY <2>1, CurOK DEF ParserRecord
<1>2. ValueFits(q)
    <2> HIDE DEF first
    <2> QED  BY <1>1, ValueFirstFits
<1>3. q.http_errno \in Errors \cup {"HPE_OK"} /\ q.state = "s_header_value"
    BY <1>2 DEF ValueFits, ParserRecord
<1>4. IF q.http_errno # "HPE_OK" THEN Fail(q.http_errno)
      ELSE Take(q) /\ mark' = Marked("header_value")
    BY DEF ValueStart
<1> HIDE DEF q
<1>5. CASE q.http_errno # "HPE_OK"
    BY <1>3, <1>4, <1>5, FailStep
<1>6. CASE q.http_errno = "HPE_OK"
    <2>1. "header_value" \in Marks
        BY DEF Marks
    <2>2. \A j \in Marks : mark'[j] # 0 => j = MarkOf(q.state)
        BY <1>3, <1>4, <1>6, <2>1, MarkedTyped, MarkValues
    <2> QED  BY <1>2, <1>3, <1>4, <1>6, <2>1, <2>2, MarkedTyped, ValueGathered, TakeStep
<1> QED  BY <1>5, <1>6

LEMMA HeaderValueStartSteps ==
    ASSUME IInv, UNCHANGED <<input, end>>, HeaderValueDiscardWs \/ HeaderValueStart
    PROVE  IInv'
<1>1. running /\ p < end /\ parser.state \in {"s_header_value_discard_ws", "s_header_value_start"}
    BY DEF HeaderValueDiscardWs, HeaderValueStart, At
<1>2. MarkOf(parser.state) = "none"
    BY <1>1, MarkValues DEF UrlStates
<1>3. \/ Skip \/ ValueStart
      \/ \E s \in {"s_header_value_discard_ws_almost_done", "s_header_value_discard_lws"} : Go(s)
    BY DEF HeaderValueDiscardWs, HeaderValueStart
<1> QED  BY <1>1, <1>2, <1>3, SkipStep, ValueStartStep, Move
            DEF Conditional, ChunkStates, States, BlockStates

\* One more digit: the number stays below the "none" of content_length.
LEMMA LengthGrows ==
    ASSUME NEW len \in 0..MaxLength, NEW d \in 0..9, ~((MaxLength - 10) \div 10 < len)
    PROVE  10 * len + d \in 0..(MaxLength - 1)
<1>1. MaxLength - 10 \in Nat
    BY SizesAssumption
<1>2. 10 * ((MaxLength - 10) \div 10) <= MaxLength - 10 /\ (MaxLength - 10) \div 10 \in Nat
    BY <1>1
<1> QED  BY <1>1, <1>2, SizesAssumption

LEMMA LengthCharFits ==
    ASSUME NEW q, ValueFits(q), q.http_errno = "HPE_OK", NEW c
    PROVE  ValueFits(LengthChar(q, c))
<1>0. q \in ParserRecord /\ q.state = "s_header_value" /\ q.content_length \in 0..MaxLength
      /\ IndexFits(q.header_state, q.index) /\ q.index <= 6
    BY DEF ValueFits, ParserRecord, IndexFits
<1>1. CASE c = SP
    <2>1. LengthChar(q, c) = [q EXCEPT !.header_state = "h_content_length_ws"]
        BY <1>1 DEF LengthChar, SP, IsNum
    <2> QED  BY <1>0, <2>1, ToFits, ConnectionWords
<1>2. CASE (c # SP /\ ~IsNum(c)) \/ (IsNum(c) /\ (MaxLength - 10) \div 10 < q.content_length)
    <2>1. LengthChar(q, c) = Error(q, "HPE_INVALID_CONTENT_LENGTH")
        BY <1>2 DEF LengthChar, SP, IsNum
    <2> QED  BY <1>0, <2>1, ErrorFits DEF Errors
<1>3. CASE IsNum(c) /\ ~((MaxLength - 10) \div 10 < q.content_length)
    <2>1. LengthChar(q, c) = [q EXCEPT !.content_length = 10 * @ + Unhex(c)]
        BY <1>3 DEF LengthChar, SP, IsNum
    <2>2. 10 * q.content_length + Unhex(c) \in 0..MaxLength
        BY <1>0, <1>3, DigitValues, LengthGrows, SizesAssumption
    <2> DEFINE m == [q EXCEPT !.content_length = 10 * @ + Unhex(c)]
    <2>3. m \in ParserRecord /\ m.state = "s_header_value" /\ m.header_state = q.header_state
          /\ m.index = q.index
        BY <1>0, <2>2 DEF ParserRecord
    <2> QED  BY <1>0, <2>1, <2>3 DEF ValueFits
<1> QED  BY <1>1, <1>2, <1>3

LEMMA ValueCharFits ==
    ASSUME NEW q, ValueFits(q), q.http_errno = "HPE_OK", NEW c
    PROVE  ValueFits(ValueChar(q, c))
<1> DEFINE h == q.header_state
           To(s) == [q EXCEPT !.header_state = s]
           token(s) == [To(s) EXCEPT !.index = 0]
           next == [To("h_matching_connection_token_start")
                       EXCEPT !.index = 0, !.flags = @ \cup ValueFlags(h)]
           Words3 == {"h_matching_connection_keep_alive", "h_matching_connection_close",
                      "h_matching_connection_upgrade"}
           Ends == {"h_connection_keep_alive", "h_connection_close", "h_connection_upgrade"}
<1>1. q \in ParserRecord /\ q.state = "s_header_value" /\ IndexFits(h, q.index) /\ q.index <= 6
    BY DEF ValueFits, IndexFits
<1>2. ASSUME NEW s \in {"h_general", "h_matching_connection_token"}  PROVE ValueFits(To(s))
    BY <1>1, <1>2, ToFits, ConnectionWords
<1>3. CASE ~IsHeaderChar(c)
    <2>1. ValueChar(q, c) = Error(q, "HPE_INVALID_HEADER_TOKEN")
        BY <1>3 DEF ValueChar
    <2> QED  BY <1>1, <2>1, ErrorFits DEF Errors
<1>4. CASE IsHeaderChar(c) /\ h = "h_content_length_num"
    <2>1. ValueChar(q, c) = LengthChar(q, c)
        BY <1>4 DEF ValueChar
    <2> QED  BY <2>1, LengthCharFits
<1>5. CASE IsHeaderChar(c) /\ h = "h_content_length_ws"
    <2>1. ValueChar(q, c) = q \/ ValueChar(q, c) = Error(q, "HPE_INVALID_CONTENT_LENGTH")
        BY <1>5 DEF ValueChar
    <2> QED  BY <1>1, <2>1, ErrorFits DEF Errors
<1>6. CASE IsHeaderChar(c) /\ h \in Words3 \cup {"h_matching_transfer_encoding_chunked"}
    <2>1. \/ ValueChar(q, c) = MatchWord(q, c, "h_general")
          \/ ValueChar(q, c) = MatchWord(q, c, "h_matching_connection_token")
        BY <1>6 DEF ValueChar
    <2>2. ASSUME NEW other \in {"h_general", "h_matching_connection_token"}
          PROVE  ValueFits(MatchWord(q, c, other))
        <3>1. h \in DOMAIN Words
            BY <1>6, ConnectionWords
        <3>2. Kept(MatchWord(q, c, other), q)
              /\ MatchWord(q, c, other).header_state \in {other, h, Matched[h]}
            BY <1>1, <3>1, MatchWordKeeps
        <3>3. Matched[h] \notin {"h_connection", "h_transfer_encoding"}
            BY <1>6 DEF Matched
        <3> QED  BY <1>1, <1>6, <3>2, <3>3 DEF Kept, ValueFits
    <2> QED  BY <2>1, <2>2
<1>7. CASE IsHeaderChar(c) /\ h = "h_matching_connection_token_start"
    <2>1. q.index = 0
        BY <1>1, <1>7 DEF IndexFits
    <2>2. PICK s \in Words3 \cup {h, "h_matching_connection_token", "h_general"} :
              ValueChar(q, c) = To(s)
        <3>1. CASE c \in DOMAIN ConnectionWord
            <4>1. ValueChar(q, c) = To(ConnectionWord[c])
                BY <1>7, <3>1 DEF ValueChar, ConnectionWord, SP
            <4> QED  BY <3>1, <4>1, ConnectionWords
        <3>2. CASE c \notin DOMAIN ConnectionWord
            BY <1>7, <3>2 DEF ValueChar
        <3> QED  BY <3>1, <3>2
    <2>3. s \in HeaderStates \ {"h_connection", "h_transfer_encoding", "h_C", "h_CO", "h_CON"}
        BY <1>7, ConnectionWords
    <2> QED  BY <1>1, <2>1, <2>2, <2>3, ToFits
<1>8. CASE IsHeaderChar(c) /\ h = "h_matching_connection_token"
    <2>1. ValueChar(q, c) = token("h_matching_connection_token_start") \/ ValueChar(q, c) = q
        BY <1>8 DEF ValueChar
    <2>2. ValueFits(token("h_matching_connection_token_start"))
        <3>1. "h_matching_connection_token_start" \in HeaderStates /\ 0 \in 0..127
            BY DEF HeaderStates
        <3>2. token("h_matching_connection_token_start") \in ParserRecord
              /\ token("h_matching_connection_token_start").state = "s_header_value"
              /\ token("h_matching_connection_token_start").header_state
                   = "h_matching_connection_token_start"
              /\ token("h_matching_connection_token_start").index = 0
            BY <1>1, <3>1 DEF ParserRecord
        <3>3. IndexFits("h_matching_connection_token_start", 0)
            BY DEF IndexFits, Words
        <3> QED  BY <3>2, <3>3 DEF ValueFits
    <2> QED  BY <2>1, <2>2
<1>9. CASE IsHeaderChar(c) /\ h = "h_transfer_encoding_chunked"
    <2>1. ValueChar(q, c) = q \/ ValueChar(q, c) = To("h_general")
        BY <1>9 DEF ValueChar
    <2> QED  BY <1>2, <2>1
<1>10. CASE IsHeaderChar(c) /\ h \in Ends
    <2>1. ValueChar(q, c) = next \/ ValueChar(q, c) = q \/ ValueChar(q, c) = To("h_matching_connection_token")
        BY <1>10 DEF ValueChar
    <2>2. ValueFits(next)
        <3>1. "h_matching_connection_token_start" \in HeaderStates /\ 0 \in 0..127
            BY DEF HeaderStates
        <3>2. ValueFlags(h) \subseteq Flags /\ q.flags \subseteq Flags
            BY <1>1 DEF ValueFlags, Flags, ParserRecord
        <3>3. q.flags \cup ValueFlags(h) \in SUBSET Flags
            BY <3>2
        <3>4. next \in ParserRecord /\ next.state = "s_header_value"
              /\ next.header_state = "h_matching_connection_token_start" /\ next.index = 0
            BY <1>1, <3>1, <3>3 DEF ParserRecord
        <3>5. IndexFits("h_matching_connection_token_start", 0)
            BY DEF IndexFits, Words
        <3> QED  BY <3>4, <3>5 DEF ValueFits
    <2> QED  BY <1>2, <2>1, <2>2
<1>11. CASE /\ IsHeaderChar(c)
            /\ h \notin Words3 \cup Ends \cup
                 {"h_content_length_num", "h_content_length_ws",
                  "h_matching_transfer_encoding_chunked", "h_matching_connection_token_start",
                  "h_matching_connection_token", "h_transfer_encoding_chunked"}
    <2>1. ValueChar(q, c) = To("h_general")
        BY <1>11 DEF ValueChar
    <2> QED  BY <1>2, <2>1
<1> QED  BY <1>3, <1>4, <1>5, <1>6, <1>7, <1>8, <1>9, <1>10, <1>11

LEMMA HeaderValueStep == ASSUME IInv, UNCHANGED <<input, end>>, HeaderValue  PROVE IInv'
<1> DEFINE ended == [Looped(cur) EXCEPT !.state = "s_header_almost_done"]
           next == ValueChar(cur, ch)
<1>1. running /\ p < end /\ parser.state = "s_header_value"
    BY DEF HeaderValue, At
<1>2. /\ cur \in ParserRecord /\ cur.http_errno = "HPE_OK" /\ cur.state = "s_header_value"
      /\ Gathered(cur)
    BY <1>1, CurOK, CountKeeps, CurGathered
<1>3. ValueFits(next)
    <2>1. ValueFits(cur)
        BY <1>2 DEF ValueFits, Gathered
    <2> QED  BY <1>2, <2>1, ValueCharFits
<1>4. next.http_errno \in Errors \cup {"HPE_OK"} /\ next.state = "s_header_value"
    BY <1>3 DEF ValueFits, ParserRecord
<1> HIDE DEF next
<1>5. CASE Fail("HPE_HEADER_OVERFLOW")
    BY <1>1, <1>5, FailStep DEF Errors
<1>6. CASE next.http_errno # "HPE_OK" /\ Fail(next.http_errno)
    BY <1>1, <1>4, <1>6, FailStep
<1>7. CASE next.http_errno = "HPE_OK" /\ Loop(next)
    BY <1>1, <1>3, <1>4, <1>7, ValueGathered, LoopStep
<1>8. CASE Callback(mark, "header_value", p - 1) /\ (Take(ended) \/ Retake(ended))
    <2>1. Looped(cur) \in ParserRecord /\ Looped(cur).http_errno = "HPE_OK"
        BY <1>2, LoopedGathered
    <2>2. ended \in ParserRecord /\ ended.http_errno = "HPE_OK" /\ ended.state = "s_header_almost_done"
        BY <2>1 DEF ParserRecord, States, BlockStates
    <2> HIDE DEF ended
    <2>3. Gathered(ended)
        BY <2>2 DEF Gathered, ChunkStates
    <2>4. p \in Nat /\ "header_value" \in Marks /\ MarkOf(parser.state) = "header_value"
        BY <1>1, MarkValues DEF IInv, Positions, Marks
    <2>5. mark' \in [Marks -> 0..p] /\ \A j \in Marks : mark'[j] = 0
        BY <1>8, <2>4, OwnMark, CallbackClears
    <2> QED  BY <1>1, <1>8, <2>2, <2>3, <2>5, TakeStep
<1>9. CASE ch \in {CR, LF}
    <2>1. ended.nread \in Nat
        <3>1. Looped(cur) \in ParserRecord
            BY <1>2, LoopedGathered
        <3> QED  BY <3>1 DEF ParserRecord
    <2>2. ended.nread > MaxHeaderSize <=> ~(ended.nread <= MaxHeaderSize)
        BY <2>1, SizesAssumption
    <2>3. IF ended.nread <= MaxHeaderSize
          THEN Callback(mark, "header_value", p - 1) /\ (Take(ended) \/ Retake(ended))
          ELSE Fail("HPE_HEADER_OVERFLOW")
        BY <1>9, <2>2 DEF HeaderValue
    <2> QED  BY <1>5, <1>8, <2>3
<1>10. CASE ch \notin {CR, LF}
    BY <1>6, <1>7, <1>10 DEF HeaderValue, next
<1> QED  BY <1>9, <1>10

LEMMA ValueFlagsTyped == ASSUME NEW h  PROVE ValueFlags(h) \subseteq Flags
BY DEF ValueFlags, Flags

\* After the end of a line: the next header, or more of this one.
LEMMA HeaderValueLwsSteps ==
    ASSUME IInv, UNCHANGED <<input, end>>, HeaderValueLws \/ HeaderValueDiscardLws
    PROVE  IInv'
<1> DEFINE folded == [cur EXCEPT !.state = "s_header_value_start",
                                 !.header_state = IF @ = "h_content_length_num"
                                                  THEN "h_content_length_ws" ELSE @]
           done == [cur EXCEPT !.state = "s_header_field_start",
                               !.flags = @ \cup ValueFlags(cur.header_state)]
<1>1. running /\ p < end /\ parser.state \in {"s_header_value_lws", "s_header_value_discard_lws"}
    BY DEF HeaderValueLws, HeaderValueDiscardLws, At
<1>2. MarkOf(parser.state) = "none" /\ "header_value" \in Marks /\ p \in Nat
    BY <1>1, MarkValues DEF UrlStates, Marks, IInv, Positions
<1>3. folded \in ParserRecord /\ folded.state = "s_header_value_start" /\ folded.http_errno = "HPE_OK"
    <2>1. "s_header_value_start" \in States /\ "h_content_length_ws" \in HeaderStates
        BY DEF States, BlockStates, HeaderStates
    <2> QED  BY <1>1, <2>1, CurOK DEF ParserRecord
<1>4. done \in ParserRecord /\ done.state = "s_header_field_start" /\ done.http_errno = "HPE_OK"
    <2>1. "s_header_field_start" \in States
        BY DEF States, BlockStates
    <2>2. cur.flags \in SUBSET Flags
        BY <1>1, CurOK DEF ParserRecord
    <2>3. cur.flags \cup ValueFlags(cur.header_state) \in SUBSET Flags
        BY <2>2, ValueFlagsTyped
    <2> QED  BY <1>1, <2>1, <2>3, CurOK DEF ParserRecord
<1>5. \/ /\ Quiet /\ (Retake(folded) \/ Retake(done))
      \/ Go("s_header_value_discard_ws") \/ Fail("HPE_INVALID_CONTENT_LENGTH")
      \/ /\ Callback(Marked("header_value"), "header_value", p - 1) /\ Retake(done)
    BY DEF HeaderValueLws, HeaderValueDiscardLws
<1> HIDE DEF folded, done
<1>6. Gathered(folded) /\ Gathered(done)
    BY <1>3, <1>4 DEF Gathered, ChunkStates
<1>7. CASE Quiet /\ (Retake(folded) \/ Retake(done))
    BY <1>1, <1>2, <1>3, <1>4, <1>6, <1>7, NoMark, TakeStep DEF Quiet
<1>8. CASE Go("s_header_value_discard_ws") \/ Fail("HPE_INVALID_CONTENT_LENGTH")
    BY <1>1, <1>2, <1>8, Move, FailStep DEF Conditional, ChunkStates, Errors, States, BlockStates
<1>9. CASE Callback(Marked("header_value"), "header_value", p - 1) /\ Retake(done)
    <2>1. mark' \in [Marks -> 0..p] /\ \A j \in Marks : mark'[j] = 0
        BY <1>2, <1>9, MarkedTyped, CallbackClears
    <2> QED  BY <1>1, <1>4, <1>6, <1>9, <2>1, TakeStep
<1> QED  BY <1>5, <1>7, <1>8, <1>9

-----------------------------------------------------------------------------
\* The end of a message: after an upgrade the piece is finished.
LEMMA CompleteStep ==
    ASSUME IInv, running, p < end, UNCHANGED <<input, end>>, MarkOf(parser.state) = "none",
           NEW q \in ParserRecord, q.http_errno = "HPE_OK", Complete(q)
    PROVE  IInv'
<1> DEFINE n == NewMessageState(q)
<1>1. n \in ParserRecord /\ n.http_errno = "HPE_OK" /\ n.state \in {"s_start_req", "s_start_res", "s_dead"}
    BY DEF NewMessageState, StartState, ParserRecord, States, LineStates
<1>2. Gathered(n)
    BY <1>1 DEF Gathered, ChunkStates
<1>3. mark' = mark /\ mark \in [Marks -> 0..p] /\ \A j \in Marks : mark[j] = 0
    BY NoMark DEF Complete, CompleteAs
<1>4. \/ Take(n)
      \/ /\ parser' = n /\ p' = end /\ running' = FALSE /\ redo' = FALSE /\ start' = 0
    BY DEF Complete, CompleteAs
<1> HIDE DEF n
<1>5. CASE Take(n)
    BY <1>1, <1>2, <1>3, <1>5, TakeStep
<1>6. CASE parser' = n /\ p' = end /\ running' = FALSE /\ redo' = FALSE /\ start' = 0
    <2>1. Positions'
        <3>1. p' \in Nat \ {0} /\ p' <= end' /\ end' \in Nat /\ start' \in 0..p' /\ p <= p'
            BY <1>6 DEF IInv, Positions
        <3>2. mark' \in [Marks -> 0..p']
            BY <1>3, <3>1 DEF IInv, Positions
        <3>3. input' \in Inputs /\ end' <= Len(wire') + 1
            BY DEF IInv, Positions, wire
        <3>4. running' \in BOOLEAN /\ redo' \in BOOLEAN
            BY <1>6
        <3> QED  BY <3>1, <3>2, <3>3, <3>4 DEF Positions
    <2>2. mark = NoMarks
        BY <1>3 DEF NoMarks
    <2>3. InPlace'
        BY <1>1, <1>3, <1>6, <2>2, NoMarksTyped DEF InPlace
    <2> QED  BY <1>2, <1>6, <2>1, <2>3 DEF IInv
<1> QED  BY <1>4, <1>5, <1>6

LEMMA HeadersAlmostDoneStep ==
    ASSUME IInv, UNCHANGED <<input, end>>, HeadersAlmostDone
    PROVE  IInv'
<1> DEFINE Up == IF {"F_UPGRADE", "F_CONNECTION_UPGRADE"} \subseteq parser.flags
                 THEN parser.type = "HTTP_REQUEST" \/ parser.status_code = 101
                 ELSE parser.method = "CONNECT"
           trailing == [cur EXCEPT !.state = "s_message_done"]
           done == [cur EXCEPT !.state = "s_headers_done", !.upgrade = Up]
<1>1. running /\ p < end /\ parser.state = "s_headers_almost_done"
    BY DEF HeadersAlmostDone, At
<1>2. MarkOf(parser.state) = "none"
    BY <1>1, MarkValues DEF UrlStates
<1>3. trailing.http_errno = "HPE_OK" /\ Gathered(trailing) /\ trailing.state = "s_message_done"
    BY <1>1, StateChange DEF States, BodyStates, Conditional, ChunkStates
<1>4. done \in ParserRecord /\ done.http_errno = "HPE_OK" /\ done.state = "s_headers_done"
    <2>1. Up \in BOOLEAN /\ "s_headers_done" \in States
        BY DEF States, BlockStates
    <2> HIDE DEF Up
    <2> QED  BY <1>1, <2>1, CurOK DEF ParserRecord
<1>5. \/ /\ UNCHANGED mark /\ (Retake(trailing) \/ Retake(done))
      \/ Fail("HPE_STRICT") \/ Fail("HPE_UNEXPECTED_CONTENT_LENGTH")
    BY DEF HeadersAlmostDone, Notify
<1> HIDE DEF trailing, done
<1>6. Gathered(done)
    BY <1>4 DEF Gathered, ChunkStates
<1>7. CASE UNCHANGED mark /\ (Retake(trailing) \/ Retake(done))
    BY <1>1, <1>2, <1>3, <1>4, <1>6, <1>7, NoMark, TakeStep
<1> QED  BY <1>1, <1>5, <1>7, FailStep DEF Errors

LEMMA HeadersDoneStep == ASSUME IInv, UNCHANGED <<input, end>>, HeadersDone  PROVE IInv'
<1> DEFINE q == [cur EXCEPT !.nread = 0]
           s == BodyState(cur)
           body == [q EXCEPT !.state = s]
<1>1. running /\ p < end /\ parser.state = "s_headers_done"
    BY DEF HeadersDone, At
<1>2. MarkOf(parser.state) = "none"
    BY <1>1, MarkValues DEF UrlStates
<1>3. /\ q \in ParserRecord /\ q.http_errno = "HPE_OK" /\ q.nread = 0
      /\ q.flags = cur.flags /\ q.content_length = cur.content_length
    BY <1>1, CurOK DEF ParserRecord
<1>4. CASE Fail("HPE_STRICT")
    BY <1>1, <1>4, FailStep DEF Errors
<1>5. CASE DoneAs(q, s)
    <2>1. CASE Complete(q)
        <3> HIDE DEF q
        <3> QED  BY <1>1, <1>2, <1>3, <2>1, CompleteStep
    <2>2. CASE s # "none"
        <3>1. /\ s \in {"s_chunk_size_start", "s_body_identity", "s_body_identity_eof"}
              /\ s = "s_chunk_size_start" => "F_CHUNKED" \in cur.flags
              /\ s = "s_body_identity" => HasBody /\ "F_CHUNKED" \notin cur.flags
            BY <2>2 DEF BodyState
        <3>2. s = "s_body_identity" => cur.content_length \notin {0, MaxLength}
            BY <3>1, CountKeeps DEF HasBody
        <3>3. Take(body) /\ mark' = mark
            BY <1>5, <2>2 DEF DoneAs, Quiet
        <3>4. s \in States
            BY <3>1 DEF States, BlockStates, BodyStates
        <3> HIDE DEF q, s
        <3>5. /\ body \in ParserRecord /\ body.http_errno = "HPE_OK" /\ body.nread = 0
              /\ body.state = s /\ body.flags = q.flags /\ body.content_length = q.content_length
            BY <1>3, <3>4 DEF ParserRecord
        <3> HIDE DEF body
        <3>6. Gathered(body)
            BY <1>3, <3>1, <3>2, <3>5 DEF Gathered, ChunkStates
        <3> QED  BY <1>1, <1>2, <3>3, <3>5, <3>6, NoMark, TakeStep
    <2> QED  BY <1>5, <2>1, <2>2 DEF DoneAs
<1> QED  BY <1>4, <1>5 DEF HeadersDone

\* A read never takes more than the body or the piece has.
LEMMA ToReadBounds ==
    ASSUME IInv, p < end, parser.content_length \notin {0, MaxLength}
    PROVE  /\ ToRead \in Nat \ {0} /\ ToRead <= end - p
           /\ parser.content_length - ToRead \in 0..(MaxLength - 1)
           /\ parser.content_length \in 1..(MaxLength - 1)
           /\ parser.content_length # ToRead => ToRead = end - p
<1>1. p \in Nat /\ end \in Nat
    BY DEF IInv, Positions
<1>2. parser.content_length \in 0..MaxLength /\ MaxLength \in Nat
    <2>1. parser \in ParserRecord
        BY DEF IInv, Gathered
    <2> QED  BY <2>1, SizesAssumption DEF ParserRecord
<1> QED  BY <1>1, <1>2 DEF ToRead

LEMMA BodySteps ==
    ASSUME IInv, UNCHANGED <<input, end>>, BodyIdentity \/ BodyIdentityEof \/ MessageDone
    PROVE  IInv'
<1>1. running /\ p < end
      /\ parser.state \in {"s_body_identity", "s_body_identity_eof", "s_message_done"}
    BY DEF BodyIdentity, BodyIdentityEof, MessageDone, At
<1>2. /\ cur \in ParserRecord /\ cur.http_errno = "HPE_OK" /\ Gathered(cur)
      /\ cur.state = parser.state /\ cur.content_length = parser.content_length
    BY <1>1, CurOK, CountKeeps, CurGathered
<1>3. p \in Nat /\ end \in Nat /\ end \in p..end /\ 0 \in 0..end /\ "body" \in Marks
    BY <1>1 DEF IInv, Positions, Marks
<1>4. CASE BodyIdentity
    <2> DEFINE left == parser.content_length - ToRead
               q == [cur EXCEPT !.content_length = left]
               done == [q EXCEPT !.state = "s_message_done"]
    <2>1. parser.state = "s_body_identity" /\ parser.content_length \notin {0, MaxLength}
        BY <1>4 DEF BodyIdentity, At, IInv, Gathered
    <2>2. MarkOf(parser.state) = "body"
        BY <2>1, MarkValues
    <2>3. ToRead \in Nat \ {0} /\ ToRead <= end - p /\ left \in 0..(MaxLength - 1)
        BY <1>1, <2>1, ToReadBounds
    <2>4. left \in 0..MaxLength /\ left # MaxLength
        BY <2>3, SizesAssumption
    <2>5. redo' \in BOOLEAN /\ start' = 0 /\ running' = running
        BY <1>4 DEF BodyIdentity
    <2>6. IF left = 0
          THEN parser' = done /\ p' = p + ToRead - 1 /\ Callback(Marked("body"), "body", p + ToRead - 1)
          ELSE parser' = q /\ p' = p + ToRead /\ mark' = Marked("body")
        BY <1>4 DEF BodyIdentity
    <2> HIDE DEF left
    <2>7. /\ q \in ParserRecord /\ q.http_errno = "HPE_OK" /\ q.state = "s_body_identity"
          /\ q.content_length = left
        BY <1>2, <2>1, <2>4 DEF ParserRecord
    <2> HIDE DEF q
    <2>8. done \in ParserRecord /\ done.http_errno = "HPE_OK" /\ done.state = "s_message_done"
        BY <2>7 DEF ParserRecord, States, BodyStates
    <2> HIDE DEF done
    <2>9. CASE left = 0
        <3>1. mark' \in [Marks -> 0..p] /\ \A j \in Marks : mark'[j] = 0
            BY <1>3, <2>2, <2>6, <2>9, MarkedTyped, CallbackClears
        <3>2. Gathered(done)
            BY <2>8 DEF Gathered, ChunkStates
        <3>3. p' \in p..end /\ start' \in 0..p'
            BY <1>3, <2>3, <2>5, <2>6, <2>9
        <3> QED  BY <1>1, <2>5, <2>6, <2>8, <2>9, <3>1, <3>2, <3>3, Advance
    <2>10. CASE left # 0
        <3>1. mark' \in [Marks -> 0..p] /\ \A j \in Marks : mark'[j] # 0 => j = MarkOf(q.state)
            BY <1>3, <2>1, <2>2, <2>6, <2>7, <2>10, MarkedTyped
        <3>2. Gathered(q)
            BY <2>4, <2>7, <2>10 DEF Gathered, ChunkStates
        <3>3. p' \in p..end /\ start' \in 0..p'
            BY <1>3, <2>3, <2>5, <2>6, <2>10
        <3> QED  BY <1>1, <2>5, <2>6, <2>7, <2>10, <3>1, <3>2, <3>3, Advance
    <2> QED  BY <2>9, <2>10
<1>5. CASE BodyIdentityEof
    <2>1. parser.state = "s_body_identity_eof" /\ MarkOf(parser.state) = "body"
        BY <1>5, MarkValues DEF BodyIdentityEof, At
    <2>2. p' = end /\ parser' = cur /\ mark' = Marked("body") /\ UNCHANGED <<running, redo, start>>
        BY <1>5 DEF BodyIdentityEof
    <2>3. p' \in p..end /\ start' \in 0..p' /\ redo' \in BOOLEAN
        BY <1>3, <2>2 DEF IInv, Positions
    <2>4. mark' \in [Marks -> 0..p] /\ \A j \in Marks : mark'[j] # 0 => j = MarkOf(cur.state)
        BY <1>2, <1>3, <2>1, <2>2, MarkedTyped
    <2> QED  BY <1>1, <1>2, <2>1, <2>2, <2>3, <2>4, Advance
<1>6. CASE MessageDone
    <2>1. MarkOf(parser.state) = "none" /\ Complete(cur)
        BY <1>6, MarkValues DEF MessageDone, At, UrlStates
    <2> QED  BY <1>1, <1>2, <2>1, CompleteStep
<1> QED  BY <1>4, <1>5, <1>6

-----------------------------------------------------------------------------
\* Chunks.
LEMMA ChunkDigit ==
    ASSUME NEW len \in 0..MaxLength, NEW d \in 0..15, ~((MaxLength - 16) \div 16 < len)
    PROVE  16 * len + d \in 0..(MaxLength - 1)
<1>1. MaxLength - 16 \in Nat
    BY SizesAssumption
<1>2. 16 * ((MaxLength - 16) \div 16) <= MaxLength - 16 /\ (MaxLength - 16) \div 16 \in Nat
    BY <1>1
<1> QED  BY <1>1, <1>2, SizesAssumption

\* Another state of a chunk's first line, where no number is changed.
LEMMA ChunkLineMove ==
    ASSUME IInv, running, p < end, UNCHANGED <<input, end>>,
           parser.state \in {"s_chunk_size", "s_chunk_parameters"},
           NEW s \in {"s_chunk_parameters", "s_chunk_size_almost_done"}, Go(s)
    PROVE  IInv'
<1> DEFINE q == [cur EXCEPT !.state = s]
<1>1. cur \in ParserRecord /\ cur.http_errno = "HPE_OK" /\ cur.flags = parser.flags
      /\ cur.content_length = parser.content_length
    BY CurOK, CountKeeps
<1>2. "F_CHUNKED" \in parser.flags /\ parser.content_length # MaxLength
    BY DEF IInv, Gathered, ChunkStates
<1>3. /\ q \in ParserRecord /\ q.http_errno = "HPE_OK" /\ q.state = s
      /\ q.flags = cur.flags /\ q.content_length = cur.content_length
    BY <1>1 DEF ParserRecord, States, BlockStates
<1>4. Take(q) /\ mark' = mark
    BY DEF Go, Quiet
<1> HIDE DEF q
<1>5. Gathered(q)
    BY <1>1, <1>2, <1>3 DEF Gathered
<1>6. MarkOf(parser.state) = "none"
    BY MarkValues DEF UrlStates
<1> QED  BY <1>3, <1>4, <1>5, <1>6, NoMark, TakeStep

LEMMA ChunkSizeSteps ==
    ASSUME IInv, UNCHANGED <<input, end>>, ChunkSizeStart \/ ChunkSize \/ ChunkParameters
    PROVE  IInv'
<1>1. running /\ p < end
      /\ parser.state \in {"s_chunk_size_start", "s_chunk_size", "s_chunk_parameters"}
    BY DEF ChunkSizeStart, ChunkSize, ChunkParameters, At
<1>2. MarkOf(parser.state) = "none"
    BY <1>1, MarkValues DEF UrlStates
<1>3. cur \in ParserRecord /\ cur.http_errno = "HPE_OK" /\ cur.state = parser.state
      /\ cur.flags = parser.flags /\ cur.content_length = parser.content_length
      /\ parser.content_length \in 0..MaxLength /\ "F_CHUNKED" \in parser.flags
    <2>1. parser \in ParserRecord
        BY DEF IInv, Gathered
    <2>2. parser.content_length \in 0..MaxLength
        BY <2>1 DEF ParserRecord
    <2>3. "F_CHUNKED" \in parser.flags
        BY <1>1 DEF IInv, Gathered, ChunkStates
    <2> QED  BY <1>1, <2>2, <2>3, CurOK, CountKeeps
<1> DEFINE sized(n) == [cur EXCEPT !.content_length = n, !.state = "s_chunk_size"]
           same(n) == [cur EXCEPT !.content_length = n]
<1>4. ASSUME NEW n \in 0..(MaxLength - 1), mark' = mark,
             Take(sized(n)) \/ (parser.state = "s_chunk_size" /\ Take(same(n)))
      PROVE  IInv'
    <2>1. mark' \in [Marks -> 0..p] /\ \A j \in Marks : mark'[j] = 0
        BY <1>2, <1>4, NoMark
    <2>2. n \in 0..MaxLength /\ n # MaxLength
        BY SizesAssumption
    <2>3. PICK q : /\ Take(q) /\ q \in ParserRecord /\ q.http_errno = "HPE_OK"
                   /\ q.state = "s_chunk_size" /\ q.flags = cur.flags /\ q.content_length = n
        <3>1. CASE Take(sized(n))
            <4>1. "s_chunk_size" \in States
                BY DEF States, BlockStates
            <4>2. /\ sized(n) \in ParserRecord /\ sized(n).http_errno = "HPE_OK"
                  /\ sized(n).state = "s_chunk_size" /\ sized(n).flags = cur.flags
                  /\ sized(n).content_length = n
                BY <1>3, <2>2, <4>1 DEF ParserRecord
            <4> HIDE DEF sized
            <4> QED  BY <3>1, <4>2
        <3>2. CASE parser.state = "s_chunk_size" /\ Take(same(n))
            <4>1. /\ same(n) \in ParserRecord /\ same(n).http_errno = "HPE_OK"
                  /\ same(n).state = "s_chunk_size" /\ same(n).flags = cur.flags
                  /\ same(n).content_length = n
                BY <1>3, <2>2, <3>2 DEF ParserRecord
            <4> HIDE DEF same
            <4> QED  BY <3>2, <4>1
        <3> QED  BY <1>4, <3>1, <3>2
    <2>4. Gathered(q)
        BY <1>3, <2>2, <2>3 DEF Gathered
    <2> QED  BY <1>1, <2>1, <2>3, <2>4, TakeStep
<1>5. CASE ChunkSizeStart
    <2>1. CASE ~IsHex(ch)
        BY <1>1, <1>5, <2>1, FailStep DEF ChunkSizeStart, Errors
    <2>2. CASE IsHex(ch)
        <3>1. Unhex(ch) \in 0..(MaxLength - 1)
            <4>1. Unhex(ch) \in 0..15
                BY <2>2, DigitValues
            <4> QED  BY <4>1, SizesAssumption
        <3>2. Take(sized(Unhex(ch))) /\ mark' = mark
            BY <1>5, <2>2 DEF ChunkSizeStart, Quiet
        <3> QED  BY <1>4, <3>1, <3>2
    <2> QED  BY <2>1, <2>2
<1>6. CASE ChunkSize
    <2>1. parser.state = "s_chunk_size"
        BY <1>6 DEF ChunkSize, At
    <2>2. CASE \/ Go("s_chunk_size_almost_done") \/ Go("s_chunk_parameters")
               \/ Fail("HPE_INVALID_CONTENT_LENGTH") \/ Fail("HPE_INVALID_CHUNK_SIZE")
        BY <1>1, <2>1, <2>2, ChunkLineMove, FailStep DEF Errors
    <2>3. CASE /\ IsHex(ch) /\ ~((MaxLength - 16) \div 16 < parser.content_length)
               /\ Take([cur EXCEPT !.content_length = 16 * @ + Unhex(ch)]) /\ mark' = mark
        <3>1. 16 * parser.content_length + Unhex(ch) \in 0..(MaxLength - 1)
            <4>1. Unhex(ch) \in 0..15
                BY <2>3, DigitValues
            <4> QED  BY <1>3, <2>3, <4>1, ChunkDigit
        <3>2. Take(same(16 * parser.content_length + Unhex(ch)))
            BY <1>3, <2>3
        <3> QED  BY <1>4, <2>1, <2>3, <3>1, <3>2
    <2> QED  BY <1>6, <2>2, <2>3 DEF ChunkSize, Quiet
<1>7. CASE ChunkParameters
    <2>1. parser.state = "s_chunk_parameters" /\ (Go("s_chunk_size_almost_done") \/ Skip)
        BY <1>7 DEF ChunkParameters, At
    <2> QED  BY <1>1, <2>1, ChunkLineMove, SkipStep
<1> QED  BY <1>5, <1>6, <1>7

LEMMA ChunkSizeAlmostDoneStep ==
    ASSUME IInv, UNCHANGED <<input, end>>, ChunkSizeAlmostDone
    PROVE  IInv'
<1> DEFINE q == [cur EXCEPT !.nread = 0]
           last == [q EXCEPT !.flags = @ \cup {"F_TRAILING"}, !.state = "s_header_field_start"]
           data == [q EXCEPT !.state = "s_chunk_data"]
<1>1. running /\ p < end /\ parser.state = "s_chunk_size_almost_done"
    BY DEF ChunkSizeAlmostDone, At
<1>2. MarkOf(parser.state) = "none"
    BY <1>1, MarkValues DEF UrlStates
<1>3. /\ q \in ParserRecord /\ q.http_errno = "HPE_OK" /\ q.flags = cur.flags
      /\ q.content_length = cur.content_length
    BY <1>1, CurOK DEF ParserRecord
<1>4. "F_CHUNKED" \in q.flags /\ q.content_length # MaxLength
    BY <1>1, <1>3, CountKeeps DEF IInv, Gathered, ChunkStates
<1>5. \/ Fail("HPE_STRICT")
      \/ /\ mark' = mark
         /\ IF q.content_length = 0 THEN Take(last) ELSE Take(data)
    BY DEF ChunkSizeAlmostDone, Notify
<1> HIDE DEF q
<1>6. last \in ParserRecord /\ last.http_errno = "HPE_OK" /\ last.state = "s_header_field_start"
    <2>1. "s_header_field_start" \in States
        BY DEF States, BlockStates
    <2>2. q.flags \cup {"F_TRAILING"} \in SUBSET Flags
        BY <1>3 DEF ParserRecord, Flags
    <2> QED  BY <1>3, <2>1, <2>2 DEF ParserRecord
<1>7. /\ data \in ParserRecord /\ data.http_errno = "HPE_OK" /\ data.state = "s_chunk_data"
      /\ data.flags = q.flags /\ data.content_length = q.content_length
    BY <1>3 DEF ParserRecord, States, BodyStates
<1> HIDE DEF last, data
<1>8. Gathered(last) /\ (q.content_length # 0 => Gathered(data))
    BY <1>4, <1>6, <1>7 DEF Gathered, ChunkStates
<1> QED  BY <1>1, <1>2, <1>5, <1>6, <1>7, <1>8, NoMark, TakeStep, FailStep DEF Errors

LEMMA ChunkDataStep == ASSUME IInv, UNCHANGED <<input, end>>, ChunkData  PROVE IInv'
<1> DEFINE left == parser.content_length - ToRead
           q == [cur EXCEPT !.content_length = left]
           last == [q EXCEPT !.state = "s_chunk_data_almost_done"]
<1>1. running /\ p < end /\ parser.state = "s_chunk_data"
    BY DEF ChunkData, At
<1>2. parser.content_length \notin {0, MaxLength} /\ "F_CHUNKED" \in parser.flags
    BY <1>1 DEF IInv, Gathered, ChunkStates
<1>3. MarkOf(parser.state) = "body" /\ MarkOf("s_chunk_data_almost_done") = "body"
    BY <1>1, MarkValues
<1>4. p \in Nat /\ end \in Nat /\ "body" \in Marks
    BY DEF IInv, Positions, Marks
<1>5. /\ ToRead \in Nat \ {0} /\ ToRead <= end - p /\ left \in 0..(MaxLength - 1)
      /\ parser.content_length \in Nat
    BY <1>1, <1>2, ToReadBounds, SizesAssumption
<1>6. left \in 0..MaxLength /\ left # MaxLength /\ (left = 0 <=> parser.content_length = ToRead)
    BY <1>5, SizesAssumption
<1>7. /\ cur \in ParserRecord /\ cur.http_errno = "HPE_OK" /\ cur.state = parser.state
      /\ cur.flags = parser.flags /\ cur.content_length = parser.content_length
    BY <1>1, CurOK, CountKeeps
<1>8. /\ p' = p + ToRead /\ mark' = Marked("body") /\ UNCHANGED <<running, redo, start>>
      /\ parser' = [cur EXCEPT !.content_length = cur.content_length - ToRead,
                               !.state = IF parser.content_length = ToRead
                                         THEN "s_chunk_data_almost_done" ELSE cur.state]
    BY DEF ChunkData
<1>9. parser' = IF left = 0 THEN last ELSE q
    BY <1>6, <1>7, <1>8 DEF ParserRecord
<1>10. p' \in p..end /\ start' \in 0..p' /\ redo' \in BOOLEAN
    <2>1. start \in 0..p /\ redo \in BOOLEAN
        BY DEF IInv, Positions
    <2> QED  BY <1>4, <1>5, <1>8, <2>1
<1> HIDE DEF left
<1>11. /\ q \in ParserRecord /\ q.http_errno = "HPE_OK" /\ q.state = "s_chunk_data"
       /\ q.flags = parser.flags /\ q.content_length = left
    BY <1>1, <1>6, <1>7 DEF ParserRecord
<1> HIDE DEF q
<1>12. /\ last \in ParserRecord /\ last.http_errno = "HPE_OK"
       /\ last.state = "s_chunk_data_almost_done"
       /\ last.flags = parser.flags /\ last.content_length = left
    BY <1>11 DEF ParserRecord, States, BodyStates
<1> HIDE DEF last
<1>13. (left = 0 => Gathered(last)) /\ (left # 0 => Gathered(q))
    BY <1>2, <1>6, <1>11, <1>12 DEF Gathered, ChunkStates
<1>14. /\ Gathered(parser') /\ parser'.http_errno = "HPE_OK"
       /\ parser'.state \in {"s_chunk_data", "s_chunk_data_almost_done"}
    BY <1>9, <1>11, <1>12, <1>13
<1>15. /\ mark' \in [Marks -> 0..p]
       /\ \A j \in Marks : mark'[j] # 0 => j = MarkOf(parser'.state)
    BY <1>1, <1>3, <1>4, <1>8, <1>14, MarkedTyped
<1> QED  BY <1>1, <1>8, <1>10, <1>14, <1>15, Advance

LEMMA ChunkEndSteps ==
    ASSUME IInv, UNCHANGED <<input, end>>, ChunkDataAlmostDone \/ ChunkDataDone
    PROVE  IInv'
<1> DEFINE done == [cur EXCEPT !.state = "s_chunk_data_done"]
           next == [cur EXCEPT !.nread = 0, !.state = "s_chunk_size_start"]
<1>1. running /\ p < end /\ parser.state \in {"s_chunk_data_almost_done", "s_chunk_data_done"}
    BY DEF ChunkDataAlmostDone, ChunkDataDone, At
<1>2. "F_CHUNKED" \in parser.flags /\ "body" \in Marks /\ p \in Nat
    BY <1>1 DEF IInv, Positions, Gathered, ChunkStates, Marks
<1>3. /\ cur \in ParserRecord /\ cur.http_errno = "HPE_OK" /\ cur.flags = parser.flags
    BY <1>1, CurOK, CountKeeps
<1>4. "s_chunk_data_done" \in States /\ "s_chunk_size_start" \in States
    BY DEF States, BlockStates, BodyStates
<1>5. /\ done \in ParserRecord /\ done.http_errno = "HPE_OK" /\ done.flags = cur.flags
      /\ done.state = "s_chunk_data_done"
      /\ next \in ParserRecord /\ next.http_errno = "HPE_OK" /\ next.flags = cur.flags
      /\ next.state = "s_chunk_size_start" /\ next.nread = 0
    BY <1>3, <1>4 DEF ParserRecord
<1>6. CASE Fail("HPE_STRICT")
    BY <1>1, <1>6, FailStep DEF Errors
<1>7. CASE ChunkDataAlmostDone /\ ~Fail("HPE_STRICT")
    <2>1. parser.state = "s_chunk_data_almost_done" /\ Take(done) /\ Callback(mark, "body", p - 1)
        BY <1>7 DEF ChunkDataAlmostDone, At
    <2>2. MarkOf(parser.state) = "body"
        BY <2>1, MarkValues
    <2> HIDE DEF done
    <2>3. Gathered(done)
        BY <1>2, <1>3, <1>5 DEF Gathered, ChunkStates
    <2>4. mark' \in [Marks -> 0..p] /\ \A j \in Marks : mark'[j] = 0
        BY <1>2, <2>1, <2>2, OwnMark, CallbackClears
    <2> QED  BY <1>1, <1>5, <2>1, <2>3, <2>4, TakeStep
<1>8. CASE ChunkDataDone /\ ~Fail("HPE_STRICT")
    <2>1. parser.state = "s_chunk_data_done" /\ Take(next) /\ mark' = mark
        BY <1>8 DEF ChunkDataDone, At, Notify
    <2>2. MarkOf(parser.state) = "none"
        BY <2>1, MarkValues DEF UrlStates
    <2> HIDE DEF next
    <2>3. Gathered(next)
        BY <1>2, <1>3, <1>5 DEF Gathered, ChunkStates
    <2> QED  BY <1>1, <1>5, <2>1, <2>2, <2>3, NoMark, TakeStep
<1> QED  BY <1>6, <1>7, <1>8

-----------------------------------------------------------------------------
\* All of http_parser_execute, and what is around it.
LEMMA ExecuteStep == ASSUME IInv, Execute  PROVE IInv'
<1> UNCHANGED <<input, end>> /\ Step
    BY DEF Execute
<1>1. CASE Literal \/ Version \/ LineAlmostDone \/ VersionNumber \/ Dead
    BY <1>1, LineSteps, VersionNumberStep
<1>2. CASE StartResponse \/ StartRequest \/ Method \/ SpacesBeforeUrl \/ Url \/ HttpStart
    BY <1>2, StartSteps, MethodStep, UrlSteps, HttpStartStep
<1>3. CASE FirstStatusCode \/ StatusCode \/ StatusStart \/ Status
    BY <1>3, StatusCodeSteps, StatusSteps
<1>4. CASE HeaderFieldStart \/ HeaderField \/ HeaderValueDiscardWs \/ HeaderValueStart
    BY <1>4, HeaderFieldStartStep, HeaderFieldStep, HeaderValueStartSteps
<1>5. CASE HeaderValue \/ HeaderValueLws \/ HeaderValueDiscardLws
    BY <1>5, HeaderValueStep, HeaderValueLwsSteps
<1>6. CASE HeadersAlmostDone \/ HeadersDone \/ BodyIdentity \/ BodyIdentityEof \/ MessageDone
    BY <1>6, HeadersAlmostDoneStep, HeadersDoneStep, BodySteps
<1>7. CASE ChunkSizeStart \/ ChunkSize \/ ChunkParameters \/ ChunkSizeAlmostDone
    BY <1>7, ChunkSizeSteps, ChunkSizeAlmostDoneStep
<1>8. CASE ChunkData \/ ChunkDataAlmostDone \/ ChunkDataDone
    BY <1>8, ChunkDataStep, ChunkEndSteps
<1>9. CASE HeaderOverflow
    BY <1>9, FailStep DEF HeaderOverflow, Errors
<1> QED  BY <1>1, <1>2, <1>3, <1>4, <1>5, <1>6, <1>7, <1>8, <1>9 DEF Step

LEMMA StartMarks ==
    ASSUME NEW s, NEW k \in StartMark(s)
    PROVE  k = MarkOf(s)
BY DEF StartMark, MarkOf, UrlStates

LEMMA TryParseStep == ASSUME IInv, NEW n \in Nat, TryParse(n)  PROVE IInv'
<1>1. /\ ~running /\ p + n - 1 <= Len(wire) /\ end' = p + n
      /\ UNCHANGED <<input, redo, start, parser>> /\ mark = NoMarks
    BY DEF TryParse, IInv, InPlace
<1>2. \/ p' = p + n /\ UNCHANGED <<running, mark>>
      \/ /\ running' = TRUE /\ p' = p /\ parser.http_errno = "HPE_OK"
         /\ mark' = [k \in Marks |-> IF k \in StartMark(parser.state) THEN p ELSE 0]
    BY DEF TryParse
<1>3. p \in Nat \ {0} /\ Len(wire) \in Nat /\ wire' = wire
    BY <1>1, InputAssumption DEF IInv, Positions, wire
<1>4. /\ p' \in Nat \ {0} /\ end' \in Nat /\ p' <= end' /\ end' <= Len(wire') + 1
      /\ start' \in 0..p' /\ 0..p \subseteq 0..p' /\ p \in 0..p' /\ 0 \in 0..p'
    <2>1. start \in 0..p
        BY DEF IInv, Positions
    <2> QED  BY <1>1, <1>2, <1>3, <2>1
<1>5. mark' \in [Marks -> 0..p'] /\ \A k \in Marks : mark'[k] # 0 => k = MarkOf(parser'.state)
    <2>1. CASE mark' = NoMarks
        BY <1>4, <2>1, NoMarksTyped DEF NoMarks
    <2>2. CASE mark' = [k \in Marks |-> IF k \in StartMark(parser.state) THEN p ELSE 0]
        BY <1>1, <1>4, <2>2, StartMarks
    <2> QED  BY <1>1, <1>2, <2>1, <2>2
<1>6. Positions'
    BY <1>1, <1>2, <1>4, <1>5 DEF IInv, Positions
<1>7. InPlace'
    BY <1>1, <1>2, <1>5 DEF IInv, InPlace
<1> QED  BY <1>1, <1>6, <1>7 DEF IInv

LEMMA EndOfBufferStep == ASSUME IInv, EndOfBuffer  PROVE IInv'
<1>1. /\ running' = FALSE /\ UNCHANGED <<input, p, end, redo, start, parser>>
      /\ wire' = wire
    BY DEF EndOfBuffer, wire
<1>2. mark' = NoMarks
    <2>1. mark \in [Marks -> 0..p] /\ 0 \in 0..p /\ NoMarks \in [Marks -> 0..p]
        BY DEF IInv, Positions, NoMarks
    <2>2. ASSUME NEW k \in Marks, mark[k] # 0, Callback(mark, k, p - 1)  PROVE mark' = NoMarks
        <3>1. \A j \in Marks : mark[j] # 0 => j = k
            BY <2>2 DEF IInv, InPlace
        <3>2. mark' \in [Marks -> 0..p] /\ \A j \in Marks : mark'[j] = 0
            BY <2>1, <2>2, <3>1 DEF Callback
        <3> QED  BY <2>1, <3>2, NoMarksTyped
    <2> QED  BY <2>2 DEF EndOfBuffer, Quiet
<1>3. Positions'
    <2>1. Positions /\ 0 \in 0..p
        BY DEF IInv, Positions
    <2>2. NoMarks \in [Marks -> 0..p]
        BY <2>1 DEF NoMarks
    <2> QED  BY <1>1, <1>2, <2>1, <2>2 DEF Positions
<1>4. InPlace'
    BY <1>1, <1>2, NoMarksTyped DEF IInv, InPlace
<1> QED  BY <1>1, <1>3, <1>4 DEF IInv

LEMMA NewParserOK ==
    ASSUME NEW t \in {"HTTP_REQUEST", "HTTP_RESPONSE"}
    PROVE  /\ Gathered(NewParser(t)) /\ NewParser(t).http_errno = "HPE_OK"
           /\ NewParser(t).state # "s_chunk_size_start"
<1> DEFINE s == StartState(t)
<1>1. s \in {"s_start_req", "s_start_res"} /\ s \in States
    BY DEF StartState, States, LineStates
<1>2. 0 \in 0..127 /\ 0 \in 0..MaxLength
    BY SizesAssumption
<1>3. "h_general" \in HeaderStates /\ "DELETE" \in DOMAIN Methods \cup {"DELETE"}
    BY DEF HeaderStates
<1> HIDE DEF s
<1>4. /\ NewParser(t) \in ParserRecord /\ NewParser(t).state = s
      /\ NewParser(t).http_errno = "HPE_OK"
    BY <1>1, <1>2, <1>3 DEF NewParser, ParserRecord, s
<1> QED  BY <1>1, <1>4 DEF Gathered, ChunkStates

\* A parser that has seen nothing.
LEMMA NewParserStep ==
    ASSUME input \in Inputs, parser = NewParser(input.type), mark = NoMarks,
           p = 1, end = 1, running = FALSE, redo = FALSE, start = 0
    PROVE  IInv
<1>1. input.type \in {"HTTP_REQUEST", "HTTP_RESPONSE"} /\ Len(wire) \in Nat
    BY InputAssumption DEF wire
<1>2. Positions
    <2>1. NoMarks \in [Marks -> 0..1]
        BY DEF NoMarks
    <2>2. 0 \in 0..1 /\ 1 \in Nat \ {0} /\ 1 <= Len(wire) + 1
        BY <1>1
    <2>3. mark \in [Marks -> 0..p]
        BY <2>1
    <2>4. start \in 0..p /\ running \in BOOLEAN /\ redo \in BOOLEAN
        BY <2>2
    <2>5. p \in Nat \ {0} /\ end \in Nat /\ p <= end /\ end <= Len(wire) + 1
        BY <2>2
    <2> QED  BY <2>3, <2>4, <2>5 DEF Positions
<1> QED  BY <1>1, <1>2, NewParserOK, NoMarksTyped DEF IInv, InPlace

LEMMA NextStep == ASSUME IInv, Next  PROVE IInv'
<1>1. \A n \in input.sizes \cup {Len(wire) - p + 1} : n > 0 => n \in Nat
    BY InputAssumption DEF IInv, Positions, wire
<1> QED  BY <1>1, TryParseStep, ExecuteStep, EndOfBufferStep DEF Next

LEMMA AgainStep == ASSUME IInv, Again  PROVE IInv'
<1>1. /\ input' \in Inputs /\ parser' = NewParser(input'.type) /\ mark' = NoMarks
      /\ p' = 1 /\ end' = 1 /\ running' = FALSE /\ redo' = FALSE /\ start' = 0
    BY DEF IInv, Positions, InPlace, Again, Idle
<1>2. input'.type \in {"HTTP_REQUEST", "HTTP_RESPONSE"} /\ Len(wire') \in Nat
    BY <1>1, InputAssumption DEF wire
<1>3. Positions'
    <2>1. NoMarks \in [Marks -> 0..1]
        BY DEF NoMarks
    <2>2. 0 \in 0..1 /\ 1 \in Nat \ {0} /\ 1 <= Len(wire') + 1
        BY <1>2
    <2>3. mark' \in [Marks -> 0..p']
        BY <1>1, <2>1
    <2>4. start' \in 0..p' /\ running' \in BOOLEAN /\ redo' \in BOOLEAN
        BY <1>1, <2>2
    <2>5. p' \in Nat \ {0} /\ end' \in Nat /\ p' <= end' /\ end' <= Len(wire') + 1
        BY <1>1, <2>2
    <2> QED  BY <1>1, <2>3, <2>4, <2>5 DEF Positions
<1> QED  BY <1>1, <1>2, <1>3, NewParserOK, NoMarksTyped DEF IInv, InPlace

LEMMA InvariantHolds == CutsSpec => []IInv
<1>1. CutsInit => IInv
    BY NewParserStep DEF CutsInit, Init
<1>2. IInv /\ [CutsNext]_<<vars, whole, begun>> => IInv'
    <2> SUFFICES ASSUME IInv, [CutsNext]_<<vars, whole, begun>>  PROVE IInv'
        OBVIOUS
    <2>1. CASE InOnePiece
        <3>1. Len(wire) \in Nat
            BY InputAssumption DEF IInv, Positions, wire
        <3> QED  BY <2>1, <3>1, TryParseStep, ExecuteStep, EndOfBufferStep DEF InOnePiece
    <2>2. CASE Again
        BY <2>2, AgainStep
    <2>3. CASE InPieces
        BY <2>3, NextStep DEF InPieces
    <2>4. CASE UNCHANGED <<vars, whole, begun>>
        BY <2>4 DEF vars, IInv, Positions, Gathered, InPlace, wire
    <2> QED  BY <2>1, <2>2, <2>3, <2>4 DEF CutsNext
<1> QED  BY <1>1, <1>2, PTL DEF CutsSpec

\* Every variable of the parser keeps its type: content_length in particular
\* stays within its 64 bits, whatever the bytes are (http_parser.h:1949, 2359).
THEOREM ParserTypeCorrect == CutsSpec => []TypeOK
<1>1. IInv => TypeOK
    <2> SUFFICES ASSUME IInv  PROVE TypeOK
        OBVIOUS
    <2>1. /\ p \in 1..(Len(wire) + 1) /\ end \in p..(Len(wire) + 1)
          /\ running \in BOOLEAN /\ redo \in BOOLEAN /\ start \in 0..p
          /\ \A k \in Marks : mark[k] \in 0..p
        BY InputAssumption DEF IInv, Positions, wire
    <2>2. parser \in ParserRecord
        BY DEF IInv, Gathered
    <2> QED  BY <2>1, <2>2 DEF TypeOK, ParserRecord
<1> QED  BY <1>1, InvariantHolds, PTL

\* The assertions in the text of http_parser_execute hold for every input, cut
\* in any way (http_parser.h:1922, 2272, 2319, 2401, 2419, 2441).
THEOREM AssertionsHold == CutsSpec => []AssertsHold
<1>1. IInv => AssertsHold
    <2> SUFFICES ASSUME IInv  PROVE AssertsHold
        OBVIOUS
    <2>1. AtMostOneMark
        BY DEF IInv, InPlace, AtMostOneMark
    <2>2. parser.state = "s_chunk_size_start" /\ parser.http_errno = "HPE_OK" => Counted = 1
        BY DEF IInv, InPlace, Gathered, Counted, BodyStates
    <2> QED  BY <2>1, <2>2 DEF AssertsHold, IInv, Gathered, ChunkStates
<1> QED  BY <1>1, InvariantHolds, PTL

\* After an error nothing more is parsed or delivered: try_parse drops what is
\* received (http_parser_api.h:477, http_parser.h:1051).
THEOREM ErrorsStayFinal == CutsSpec => ErrorsAreFinal
<1>1. IInv /\ [CutsNext]_<<vars, whole, begun>> =>
        [parser.http_errno # "HPE_OK" /\ ~parser.upgrade /\ parser' # NewParser(input.type) =>
            /\ parser'.http_errno = parser.http_errno
            /\ api' = api]_<<vars, whole>>
    <2> SUFFICES ASSUME IInv, CutsNext, parser.http_errno # "HPE_OK", ~parser.upgrade,
                        parser' # NewParser(input.type)
                 PROVE  parser' = parser /\ api' = api
        BY DEF vars
    <2>1. ~running
        BY DEF IInv, InPlace
    <2>2. ~Again
        BY DEF Again
    <2>3. ~Step
        BY <2>1 DEF Step, Literal, Version, LineAlmostDone, VersionNumber, Dead, StartResponse,
            StartRequest, Method, SpacesBeforeUrl, Url, HttpStart, FirstStatusCode, StatusCode,
            StatusStart, Status, HeaderFieldStart, HeaderField, HeaderValueDiscardWs,
            HeaderValueStart, HeaderValue, HeaderValueLws, HeaderValueDiscardLws,
            HeadersAlmostDone, HeadersDone, BodyIdentity, BodyIdentityEof, MessageDone,
            ChunkSizeStart, ChunkSize, ChunkParameters, ChunkSizeAlmostDone, ChunkData,
            ChunkDataAlmostDone, ChunkDataDone, HeaderOverflow, At
    <2>4. ~Execute /\ ~EndOfBuffer
        BY <2>1, <2>3 DEF Execute, EndOfBuffer
    <2>5. ASSUME NEW n, TryParse(n)  PROVE parser' = parser /\ api' = api
        BY <2>5 DEF TryParse
    <2> QED  BY <2>2, <2>4, <2>5 DEF CutsNext, InOnePiece, InPieces, Next
<1> QED  BY <1>1, InvariantHolds, PTL DEF CutsSpec, ErrorsAreFinal

-----------------------------------------------------------------------------
\* What is counted: nread is the length of the block so far, less what an inner
\* loop has still to add, and 0 in a body.  `begun' is where the block began.

\* A parser that counts nothing: it is in a body, or behind one.
InBody(q) == /\ q.state \in BodyStates
             /\ "F_TRAILING" \notin q.flags \/ q.state # "s_message_done"

\* The first symbol that is not counted yet.
Uncounted == IF start # 0 THEN start + 1 ELSE IF redo THEN p + 1 ELSE p

\* Where a symbol may be looked at again, and where the inner loops are.
Retakes ==
    LET s == parser.state
    IN /\ start # 0 => s \in {"s_header_field", "s_header_value"} /\ ~redo
       /\ start # 0 \/ redo => p < end
       /\ s \in {"s_headers_done", "s_message_done"} => redo
       /\ s \in BodyStates \ {"s_message_done"} => ~redo
       /\ s \in {"s_headers_done", "s_body_identity"} => "F_TRAILING" \notin parser.flags

Counts ==
    /\ parser.nread <= MaxHeaderSize
    /\ Retakes
    /\ IF parser.upgrade /\ ~running THEN begun = p
       ELSE parser.nread = IF InBody(parser) THEN 0 ELSE Uncounted - begun

\* The invariant: the count is right until there is an error, and an overflow is
\* that of the block.
CountInv ==
    /\ begun \in Nat
    /\ ~running => p = end /\ ~redo /\ start = 0
    /\ parser.http_errno = "HPE_HEADER_OVERFLOW" => end - begun > MaxHeaderSize
    /\ parser.http_errno = "HPE_OK" => Counts

\* The symbols counted once this one is: the outer loop's, and the inner one's.
Total == Counted + (p - Begun)

\* What a step of http_parser_execute may do to the count: it fails, reads a
\* symbol, goes on in an inner loop, hands over to the next protocol, or ends
\* the block or a part of the body.
Fails ==
    /\ parser'.http_errno # "HPE_OK"
    /\ p' = end /\ running' = FALSE /\ redo' = FALSE /\ start' = 0
    /\ parser'.http_errno = "HPE_HEADER_OVERFLOW" => Total > MaxHeaderSize
Plain == parser'.http_errno = "HPE_OK"
NoBody(s) == s \notin BodyStates \cup {"s_headers_done"}
Reads ==
    /\ Plain /\ parser'.nread = Total /\ parser'.nread <= MaxHeaderSize
    /\ start' = 0 /\ running' = TRUE
    /\ \/ p' = p + 1 /\ redo' = FALSE /\ NoBody(parser'.state)
       \/ p' = p /\ redo' = TRUE /\ (\/ NoBody(parser'.state)
                                      \/ /\ parser'.state = "s_headers_done"
                                         /\ "F_TRAILING" \notin parser'.flags
                                      \/ /\ parser'.state = "s_message_done"
                                         /\ "F_TRAILING" \in parser'.flags)
Loops ==
    /\ Plain /\ parser'.nread = Counted /\ Counted <= MaxHeaderSize
    /\ p' = p + 1 /\ p' < end /\ start' = Begun /\ redo' = FALSE /\ running' = TRUE
    /\ parser'.state \in {"s_header_field", "s_header_value"}
HandsOver ==
    /\ Plain /\ p' = end /\ running' = FALSE /\ redo' = FALSE /\ start' = 0
    /\ parser'.nread <= MaxHeaderSize /\ NoBody(parser'.state) /\ parser'.upgrade
Ends ==
    /\ EndsBlock /\ Plain /\ parser'.nread = 0 /\ start' = 0 /\ running' = TRUE
    /\ \/ redo' = FALSE /\ parser'.state \notin {"s_headers_done", "s_message_done"}
       \/ redo' = TRUE /\ p' < end /\ parser'.state = "s_message_done"
    /\ parser'.state \in {"s_body_identity", "s_message_done"} => "F_TRAILING" \notin parser'.flags
Effect == Fails \/ (~EndsBlock /\ (Reads \/ Loops)) \/ HandsOver \/ Ends

\* Each of them keeps the count.
LEMMA CountedSoFar ==
    ASSUME IInv, CountInv, running, p < end, ~InBody(parser)
    PROVE  Total = p + 1 - begun /\ Counted = Begun + 1 - begun
<1>1. /\ parser.http_errno = "HPE_OK" /\ parser.nread \in Nat /\ p \in Nat /\ start \in Nat
      /\ begun \in Nat
    BY DEF IInv, InPlace, Gathered, ParserRecord, Positions, CountInv
<1>2. parser.nread = Uncounted - begun /\ Retakes
    BY <1>1 DEF CountInv, Counts
<1>3. parser.state \in BodyStates => redo /\ start = 0
    BY <1>2 DEF InBody, Retakes, BodyStates
<1> QED  BY <1>1, <1>2, <1>3 DEF Total, Counted, Begun, Uncounted

LEMMA BodyCountsNothing ==
    ASSUME IInv, CountInv, running, p < end, InBody(parser)
    PROVE  Total = 0 /\ Counted = 0
<1>1. parser.http_errno = "HPE_OK" /\ p \in Nat
    BY DEF IInv, InPlace, Positions
<1>2. parser.nread = 0 /\ Retakes
    BY <1>1 DEF CountInv, Counts
<1>3. Counted = 0 /\ start = 0
    BY <1>2 DEF Counted, InBody, Retakes, BodyStates
<1>4. Begun = p
    BY <1>3 DEF Begun
<1> QED  BY <1>1, <1>3, <1>4 DEF Total

LEMMA ReadsKeepsCount ==
    ASSUME IInv, IInv', CountInv, running, p < end, UNCHANGED <<input, end>>,
           ~EndsBlock, Reads, Observe
    PROVE  CountInv'
<1>1. /\ parser.http_errno = "HPE_OK" /\ p \in Nat /\ p' \in Nat /\ end \in Nat /\ begun \in Nat
    BY DEF IInv, InPlace, Positions, CountInv
<1>2. ~InBody(parser)
    BY DEF EndsBlock, InBody
<1>3. parser'.nread = p + 1 - begun
    BY <1>2, CountedSoFar DEF Reads
<1>4. begun' = begun
    BY DEF Observe, Reads
<1>5. Retakes'
    BY <1>1 DEF Reads, Retakes, NoBody, BodyStates
<1>6. ~InBody(parser')
    BY DEF Reads, InBody, NoBody, BodyStates
<1>7. Uncounted' = p + 1
    BY <1>1 DEF Reads, Uncounted
<1>8. parser'.nread = Uncounted' - begun'
    BY <1>1, <1>3, <1>4, <1>7
<1>9. Counts'
    BY <1>5, <1>6, <1>8 DEF Counts, Reads, InBody
<1> QED  BY <1>1, <1>4, <1>9 DEF Reads, Plain, CountInv

LEMMA LoopsKeepsCount ==
    ASSUME IInv, IInv', CountInv, running, p < end, UNCHANGED <<input, end>>,
           ~EndsBlock, Loops, Observe
    PROVE  CountInv'
<1>1. /\ parser.http_errno = "HPE_OK" /\ p \in Nat /\ p' \in Nat /\ end \in Nat /\ begun \in Nat
      /\ start \in Nat /\ p # 0
    BY DEF IInv, InPlace, Positions, CountInv
<1>2. ~InBody(parser) /\ Begun \in Nat /\ Begun # 0
    BY <1>1 DEF EndsBlock, InBody, Begun
<1>3. parser'.nread = Begun + 1 - begun
    BY <1>2, CountedSoFar DEF Loops
<1>4. begun' = begun
    BY DEF Observe, Loops
<1>5. Retakes'
    BY <1>1 DEF Loops, Retakes, BodyStates
<1>6. ~InBody(parser')
    BY DEF Loops, InBody, BodyStates
<1>7. Uncounted' = Begun + 1
    BY <1>2 DEF Loops, Uncounted
<1>8. parser'.nread = Uncounted' - begun'
    BY <1>1, <1>2, <1>3, <1>4, <1>7
<1>9. Counts'
    BY <1>5, <1>6, <1>8 DEF Counts, Loops, InBody
<1> QED  BY <1>1, <1>4, <1>9 DEF Loops, Plain, CountInv

LEMMA EffectKeepsCount ==
    ASSUME IInv, IInv', CountInv, running, p < end, UNCHANGED <<input, end>>, Effect, Observe
    PROVE  CountInv'
<1>1. /\ parser.http_errno = "HPE_OK" /\ p \in Nat /\ p' \in Nat /\ end \in Nat /\ begun \in Nat
      /\ MaxHeaderSize \in Nat
    BY SizesAssumption DEF IInv, InPlace, Positions, CountInv
<1>2. begun' = IF Plain /\ (EndsBlock \/ (parser'.upgrade /\ ~running')) THEN p' ELSE begun
    BY DEF Observe, Plain
<1>3. CASE Fails
  <2>1. Total > MaxHeaderSize => end - begun > MaxHeaderSize
    <3>1. CASE InBody(parser)
        BY <1>1, <3>1, BodyCountsNothing
    <3>2. CASE ~InBody(parser)
      <4>1. Total = p + 1 - begun /\ p + 1 <= end
        BY <1>1, <3>2, CountedSoFar
      <4> QED  BY <1>1, <4>1
    <3> QED  BY <3>1, <3>2
  <2> QED  BY <1>1, <1>2, <1>3, <2>1 DEF CountInv, Fails, Plain
<1>4. CASE ~EndsBlock /\ (Reads \/ Loops)
    BY <1>4, ReadsKeepsCount, LoopsKeepsCount
<1>5. CASE HandsOver
  <2>1. begun' = p'
    BY <1>2, <1>5 DEF HandsOver
  <2>2. Retakes'
    BY <1>5 DEF HandsOver, Retakes, NoBody, BodyStates
  <2>3. Counts'
    BY <1>5, <2>1, <2>2 DEF HandsOver, Counts
  <2> QED  BY <1>1, <1>5, <2>1, <2>3 DEF HandsOver, CountInv, Plain
<1>6. CASE Ends
  <2>1. begun' = p'
    BY <1>2, <1>6 DEF Ends
  <2>2. Retakes'
    BY <1>6 DEF Ends, Retakes, BodyStates
  <2>3. ~InBody(parser') => Uncounted' = p'
    BY <1>6 DEF Ends, InBody, Uncounted, BodyStates
  <2>4. parser'.nread = IF InBody(parser') THEN 0 ELSE Uncounted' - begun'
    BY <1>1, <1>6, <2>1, <2>3 DEF Ends
  <2>5. Counts'
    BY <1>1, <1>6, <2>2, <2>4 DEF Ends, Counts, InBody
  <2> QED  BY <1>1, <1>6, <2>1, <2>5 DEF Ends, CountInv, Plain
<1> QED  BY <1>3, <1>4, <1>5, <1>6 DEF Effect

-----------------------------------------------------------------------------
\* What a step of the outer loop starts from.
LEMMA Ready ==
    ASSUME IInv, CountInv, running, p < end
    PROVE  /\ parser.http_errno = "HPE_OK" /\ Retakes /\ parser.nread <= MaxHeaderSize
           /\ cur \in ParserRecord /\ cur.nread = Counted /\ cur.http_errno = "HPE_OK"
           /\ cur.state = parser.state /\ cur.flags = parser.flags /\ cur.upgrade = parser.upgrade
           /\ p \in Nat /\ end \in Nat /\ p + 1 <= end /\ Counted \in Nat
           /\ parser.nread = IF InBody(parser) THEN 0 ELSE Uncounted - begun
<1>1. parser.http_errno = "HPE_OK" /\ p \in Nat /\ end \in Nat
    BY DEF IInv, InPlace, Positions
<1>2. Counts
    BY <1>1 DEF CountInv
<1>3. cur.nread = Counted /\ cur \in ParserRecord /\ Counted \in Nat
    BY CountKeeps DEF ParserRecord
<1> QED  BY <1>1, <1>2, <1>3, CountKeeps DEF Counts

\* Outside of the inner loops nothing is added to the count but the symbol.
LEMMA TotalIsCounted ==
    ASSUME IInv, CountInv, running, p < end,
           parser.state \notin {"s_header_field", "s_header_value"}
    PROVE  start = 0 /\ Total = Counted
<1>1. start = 0 /\ p \in Nat /\ Counted \in Nat
    BY Ready DEF Retakes
<1> QED  BY <1>1 DEF Total, Begun

LEMMA Refuses ==
    ASSUME IInv, CountInv, running, p < end, NEW e \in Errors, e # "HPE_HEADER_OVERFLOW", Fail(e)
    PROVE  Effect
<1>1. parser'.http_errno = e
    BY Ready DEF Fail, ParserRecord
<1> QED  BY <1>1 DEF Effect, Fails, Fail, Errors

Separate == {"s_headers_done", "s_chunk_size_almost_done", "s_header_field", "s_header_value"}
                \cup BodyStates
LEMMA ReadsOn ==
    ASSUME IInv, CountInv, running, p < end, Counted <= MaxHeaderSize,
           parser.state \notin Separate,
           NEW q, q.nread = Counted, q.http_errno = "HPE_OK",
           \/ Take(q) /\ NoBody(q.state)
           \/ Retake(q) /\ (\/ NoBody(q.state)
                            \/ q.state = "s_headers_done" /\ "F_TRAILING" \notin q.flags
                            \/ q.state = "s_message_done" /\ "F_TRAILING" \in q.flags)
    PROVE  Effect
<1>1. ~EndsBlock /\ start = 0 /\ Total = Counted
    BY TotalIsCounted DEF EndsBlock, Separate
<1>2. Reads
    BY <1>1 DEF Reads, Plain, Take, Retake
<1> QED  BY <1>1, <1>2 DEF Effect

\* A new state, and nothing else.
LEMMA GoesOn ==
    ASSUME IInv, CountInv, running, p < end, Counted <= MaxHeaderSize,
           parser.state \notin Separate, NEW s, NoBody(s), Go(s) \/ GoAgain(s)
    PROVE  Effect
<1> DEFINE q == [cur EXCEPT !.state = s]
<1>1. q.nread = Counted /\ q.http_errno = "HPE_OK" /\ q.state = s
    BY Ready DEF ParserRecord
<1>2. Take(q) \/ Retake(q)
    BY DEF Go, GoAgain
<1> HIDE DEF q
<1> QED  BY <1>1, <1>2, ReadsOn

LEMMA SkipsOn ==
    ASSUME IInv, CountInv, running, p < end, Counted <= MaxHeaderSize,
           parser.state \notin Separate, Skip
    PROVE  Effect
<1>1. cur.nread = Counted /\ cur.http_errno = "HPE_OK" /\ cur.state = parser.state /\ Take(cur)
    BY Ready DEF Skip
<1> QED  BY <1>1, ReadsOn DEF Separate, NoBody

-----------------------------------------------------------------------------
\* The first line.
LEMMA LineCounts ==
    ASSUME IInv, CountInv, Literal \/ Version \/ LineAlmostDone \/ Dead \/ HttpStart
    PROVE  Effect
<1>1. CASE Literal
    <2>1. /\ running /\ p < end /\ parser.state \in DOMAIN Literals
          /\ Counted <= MaxHeaderSize
        BY <1>1 DEF Literal, At
    <2>2. NoBody(Literals[parser.state][2]) /\ parser.state \notin Separate
        BY <2>1 DEF Literals, NoBody, BodyStates, Separate
    <2>3. Go(Literals[parser.state][2]) \/ Fail("HPE_STRICT")
        BY <1>1 DEF Literal, Expect
    <2> QED  BY <2>1, <2>2, <2>3, GoesOn, Refuses DEF Errors
<1>2. CASE Version
    <2>1. /\ running /\ p < end /\ Counted <= MaxHeaderSize
          /\ parser.state \in {"s_res_http_dot", "s_req_http_dot", "s_res_http_end", "s_req_http_end"}
        BY <1>2 DEF Version, At
    <2>2. \/ \E s \in {"s_res_http_minor", "s_req_http_minor", "s_res_first_status_code",
                      "s_req_line_almost_done", "s_header_field_start"} : Go(s)
          \/ Fail("HPE_INVALID_VERSION")
        BY <1>2 DEF Version, Expect
    <2> QED  BY <2>1, <2>2, GoesOn, Refuses DEF Errors, NoBody, BodyStates, Separate
<1>3. CASE LineAlmostDone
    <2>1. /\ running /\ p < end /\ Counted <= MaxHeaderSize
          /\ parser.state \in {"s_req_line_almost_done", "s_header_almost_done"}
        BY <1>3 DEF LineAlmostDone, At
    <2>2. \/ \E s \in {"s_header_field_start", "s_header_value_lws"} : Go(s)
          \/ Fail("HPE_LF_EXPECTED")
        BY <1>3 DEF LineAlmostDone, Expect
    <2> QED  BY <2>1, <2>2, GoesOn, Refuses DEF Errors, NoBody, BodyStates, Separate
<1>4. CASE Dead
    <2>1. /\ running /\ p < end /\ Counted <= MaxHeaderSize /\ parser.state = "s_dead"
          /\ Skip \/ Fail("HPE_CLOSED_CONNECTION")
        BY <1>4 DEF Dead, At
    <2> QED  BY <2>1, SkipsOn, Refuses DEF Errors, BodyStates, Separate
<1>5. CASE HttpStart
    <2>1. /\ running /\ p < end /\ Counted <= MaxHeaderSize /\ parser.state = "s_req_http_start"
          /\ Skip \/ Go("s_req_http_H") \/ Fail("HPE_INVALID_CONSTANT")
        BY <1>5 DEF HttpStart, At
    <2> QED  BY <2>1, SkipsOn, GoesOn, Refuses DEF Errors, NoBody, BodyStates, Separate
<1> QED  BY <1>1, <1>2, <1>3, <1>4, <1>5

LEMMA VersionNumberCounts == ASSUME IInv, CountInv, VersionNumber  PROVE Effect
<1>1. /\ running /\ p < end /\ Counted <= MaxHeaderSize
      /\ parser.state \in {"s_res_http_major", "s_req_http_major", "s_res_http_minor",
                           "s_req_http_minor"}
    BY DEF VersionNumber, At
<1>2. CASE Fail("HPE_INVALID_VERSION")
    BY <1>1, <1>2, Refuses DEF Errors
<1>3. CASE ~Fail("HPE_INVALID_VERSION")
    <2> DEFINE A(s, x) == [cur EXCEPT !.http_major = x, !.state = s]
               B(s, x) == [cur EXCEPT !.http_minor = x, !.state = s]
    <2>1. ASSUME NEW s, NEW x
          PROVE  /\ A(s, x).nread = Counted /\ A(s, x).http_errno = "HPE_OK" /\ A(s, x).state = s
                 /\ B(s, x).nread = Counted /\ B(s, x).http_errno = "HPE_OK" /\ B(s, x).state = s
        BY <1>1, Ready DEF ParserRecord
    <2>2. \/ \E s \in {"s_res_http_dot", "s_req_http_dot"} : Take(A(s, Unhex(ch)))
          \/ \E s \in {"s_res_http_end", "s_req_http_end"} : Take(B(s, Unhex(ch)))
        BY <1>1, <1>3 DEF VersionNumber
    <2> HIDE DEF A, B
    <2> QED  BY <1>1, <2>1, <2>2, ReadsOn DEF NoBody, BodyStates, Separate
<1> QED  BY <1>2, <1>3

LEMMA StartCounts == ASSUME IInv, CountInv, StartResponse \/ StartRequest  PROVE Effect
<1>1. /\ running /\ p < end /\ Counted <= MaxHeaderSize
      /\ parser.state \in {"s_start_res", "s_start_req"}
    BY DEF StartResponse, StartRequest, At
<1>2. parser.state \notin Separate
    BY <1>1 DEF Separate, BodyStates
<1>3. CASE Skip
    BY <1>1, <1>2, <1>3, SkipsOn
<1>4. CASE \E e \in {"HPE_INVALID_CONSTANT", "HPE_INVALID_METHOD"} : Fail(e)
    BY <1>1, <1>4, Refuses DEF Errors
<1>5. CASE Take([Fresh EXCEPT !.state = "s_res_H"])
    <2> DEFINE q == [Fresh EXCEPT !.state = "s_res_H"]
    <2>1. q.nread = Counted /\ q.http_errno = "HPE_OK" /\ q.state = "s_res_H"
        BY <1>1, Ready DEF Fresh, ParserRecord
    <2> HIDE DEF q
    <2> QED  BY <1>1, <1>2, <1>5, <2>1, ReadsOn DEF NoBody, BodyStates, q
<1>6. CASE Take([Fresh EXCEPT !.method = FirstMethod[ch], !.index = 1, !.state = "s_req_method"])
    <2> DEFINE q == [Fresh EXCEPT !.method = FirstMethod[ch], !.index = 1, !.state = "s_req_method"]
    <2>1. q.nread = Counted /\ q.http_errno = "HPE_OK" /\ q.state = "s_req_method"
        BY <1>1, Ready DEF Fresh, ParserRecord
    <2>2. Take(q)
        BY <1>6
    <2> HIDE DEF q
    <2> QED  BY <1>1, <1>2, <2>1, <2>2, ReadsOn DEF NoBody, BodyStates
<1> QED  BY <1>3, <1>4, <1>5, <1>6 DEF StartResponse, StartRequest

LEMMA MethodCounts == ASSUME IInv, CountInv, Method  PROVE Effect
<1>1. running /\ p < end /\ Counted <= MaxHeaderSize /\ parser.state = "s_req_method"
    BY DEF Method, At
<1> DEFINE next == [cur EXCEPT !.index = parser.index + 1]
           put == [next EXCEPT !.method = "PUT"]
           url == [next EXCEPT !.state = "s_req_spaces_before_url"]
<1>2. /\ next.nread = Counted /\ next.http_errno = "HPE_OK" /\ next.state = "s_req_method"
      /\ put.nread = Counted /\ put.http_errno = "HPE_OK" /\ put.state = "s_req_method"
      /\ url.nread = Counted /\ url.http_errno = "HPE_OK" /\ url.state = "s_req_spaces_before_url"
    BY <1>1, Ready DEF ParserRecord
<1>3. Take(url) \/ Take(next) \/ Take(put) \/ Fail("HPE_INVALID_METHOD")
    BY DEF Method
<1> HIDE DEF next, put, url
<1> QED  BY <1>1, <1>2, <1>3, ReadsOn, Refuses DEF Errors, NoBody, BodyStates, Separate

LEMMA UrlCounts == ASSUME IInv, CountInv, SpacesBeforeUrl \/ Url  PROVE Effect
<1>1. /\ running /\ p < end /\ Counted <= MaxHeaderSize
      /\ parser.state \in UrlStates \cup {"s_req_spaces_before_url"}
    BY DEF SpacesBeforeUrl, Url, At
<1>2. parser.state \notin Separate
    BY <1>1 DEF UrlStates, Separate, BodyStates
<1>3. \A s \in UrlStates \cup {"s_dead"} : NoBody(s)
    BY DEF UrlStates, NoBody, BodyStates
<1>4. CASE Skip \/ Fail("HPE_INVALID_URL")
    BY <1>1, <1>2, <1>4, SkipsOn, Refuses DEF Errors
<1>5. CASE SpacesBeforeUrl /\ ~Skip /\ ~Fail("HPE_INVALID_URL")
    <2> DEFINE s == ParseUrlChar(IF parser.method = "CONNECT" THEN "s_req_server_start"
                                 ELSE parser.state, ch)
               q == [cur EXCEPT !.state = s]
    <2>1. parser.state = "s_req_spaces_before_url"
        BY <1>5 DEF SpacesBeforeUrl, At
    <2>2. s \in UrlStates \cup {"s_dead"}
        BY <2>1, UrlCharStates DEF UrlStates
    <2>3. Take(q)
        BY <1>5 DEF SpacesBeforeUrl
    <2> HIDE DEF s
    <2>4. q.nread = Counted /\ q.http_errno = "HPE_OK" /\ q.state = s
        BY <1>1, Ready DEF ParserRecord
    <2> HIDE DEF q
    <2> QED  BY <1>1, <1>2, <1>3, <2>2, <2>3, <2>4, ReadsOn
<1>6. CASE Url /\ ~Fail("HPE_INVALID_URL")
    <2> DEFINE s == ParseUrlChar(parser.state, ch)
               http == [cur EXCEPT !.state = "s_req_http_start"]
               old(t) == [cur EXCEPT !.http_major = 0, !.http_minor = 9, !.state = t]
    <2>1. s \in UrlStates \cup {"s_dead"}
        <3>1. parser.state \in UrlStates
            BY <1>6 DEF Url, At
        <3> QED  BY <3>1, UrlCharStates
    <2>2. \/ Take(http) \/ Go(s)
          \/ \E t \in {"s_req_line_almost_done", "s_header_field_start"} : Take(old(t))
        BY <1>6 DEF Url
    <2> HIDE DEF s
    <2>3. /\ http.nread = Counted /\ http.http_errno = "HPE_OK"
          /\ http.state = "s_req_http_start"
          /\ \A t : old(t).nread = Counted /\ old(t).http_errno = "HPE_OK" /\ old(t).state = t
        BY <1>1, Ready DEF ParserRecord
    <2> HIDE DEF http, old
    <2>4. CASE Go(s)
        BY <1>1, <1>2, <1>3, <2>1, <2>4, GoesOn
    <2> QED  BY <1>1, <1>2, <2>2, <2>3, <2>4, ReadsOn DEF NoBody, BodyStates
<1> QED  BY <1>4, <1>5, <1>6

LEMMA StatusCounts ==
    ASSUME IInv, CountInv, FirstStatusCode \/ StatusCode \/ StatusStart \/ Status
    PROVE  Effect
<1>1. /\ running /\ p < end /\ Counted <= MaxHeaderSize
      /\ parser.state \in {"s_res_first_status_code", "s_res_status_code",
                           "s_res_status_start", "s_res_status"}
    BY DEF FirstStatusCode, StatusCode, StatusStart, Status, At
<1>2. parser.state \notin Separate
    BY <1>1 DEF Separate, BodyStates
<1>3. CASE \/ Skip \/ Fail("HPE_INVALID_STATUS")
           \/ Go("s_res_status_start") \/ GoAgain("s_res_status_start")
    BY <1>1, <1>2, <1>3, SkipsOn, GoesOn, Refuses DEF Errors, NoBody, BodyStates
<1> DEFINE first == [cur EXCEPT !.status_code = Unhex(ch), !.state = "s_res_status_code"]
           more == [cur EXCEPT !.status_code = 10 * parser.status_code + Unhex(ch)]
           begin == [cur EXCEPT !.state = "s_res_status", !.index = 0]
           done(s) == [cur EXCEPT !.state = s]
<1>4. /\ first.nread = Counted /\ first.http_errno = "HPE_OK" /\ first.state = "s_res_status_code"
      /\ more.nread = Counted /\ more.http_errno = "HPE_OK" /\ more.state = parser.state
      /\ begin.nread = Counted /\ begin.http_errno = "HPE_OK" /\ begin.state = "s_res_status"
      /\ \A s : done(s).nread = Counted /\ done(s).http_errno = "HPE_OK" /\ done(s).state = s
    BY <1>1, Ready DEF ParserRecord
<1>5. CASE \/ Take(first) \/ Take(more) \/ Take(begin) \/ Retake(begin)
           \/ \E s \in {"s_res_line_almost_done", "s_header_field_start"} : Take(done(s))
    <2> HIDE DEF first, more, begin, done
    <2> QED  BY <1>1, <1>2, <1>4, <1>5, ReadsOn DEF NoBody, BodyStates
<1> QED  BY <1>3, <1>5 DEF FirstStatusCode, StatusCode, StatusStart, Status

-----------------------------------------------------------------------------
\* Headers.
LEMMA HeaderFieldStartCounts == ASSUME IInv, CountInv, HeaderFieldStart  PROVE Effect
<1>1. running /\ p < end /\ Counted <= MaxHeaderSize /\ parser.state = "s_header_field_start"
    BY DEF HeaderFieldStart, At
<1> DEFINE first == [c |-> "h_C", p |-> "h_matching_proxy_connection",
                     t |-> "h_matching_transfer_encoding", u |-> "h_matching_upgrade"]
           h == IF ch \in DOMAIN first THEN first[ch] ELSE "h_general"
           q == [cur EXCEPT !.index = 0, !.state = "s_header_field", !.header_state = h]
<1>2. \/ Go("s_headers_almost_done") \/ GoAgain("s_headers_almost_done")
      \/ Fail("HPE_INVALID_HEADER_TOKEN") \/ Take(q)
    BY DEF HeaderFieldStart
<1> HIDE DEF h
<1>3. q.nread = Counted /\ q.http_errno = "HPE_OK" /\ q.state = "s_header_field"
    BY <1>1, Ready DEF ParserRecord
<1> HIDE DEF q
<1> QED  BY <1>1, <1>2, <1>3, ReadsOn, GoesOn, Refuses DEF Errors, NoBody, BodyStates, Separate

LEMMA HeaderValueLwsCounts ==
    ASSUME IInv, CountInv, HeaderValueLws \/ HeaderValueDiscardLws
    PROVE  Effect
<1>1. /\ running /\ p < end /\ Counted <= MaxHeaderSize
      /\ parser.state \in {"s_header_value_lws", "s_header_value_discard_lws"}
    BY DEF HeaderValueLws, HeaderValueDiscardLws, At
<1> DEFINE on == [cur EXCEPT !.state = "s_header_value_start",
                             !.header_state = IF cur.header_state = "h_content_length_num"
                                              THEN "h_content_length_ws" ELSE cur.header_state]
           over == [cur EXCEPT !.state = "s_header_field_start",
                               !.flags = cur.flags \cup ValueFlags(cur.header_state)]
<1>2. /\ on.nread = Counted /\ on.http_errno = "HPE_OK" /\ on.state = "s_header_value_start"
      /\ over.nread = Counted /\ over.http_errno = "HPE_OK" /\ over.state = "s_header_field_start"
    BY <1>1, Ready DEF ParserRecord
<1>3. \/ Retake(on) \/ Retake(over) \/ Go("s_header_value_discard_ws")
      \/ Fail("HPE_INVALID_CONTENT_LENGTH")
    <2>1. cur \in ParserRecord
        BY <1>1, Ready
    <2> QED  BY <2>1 DEF HeaderValueLws, HeaderValueDiscardLws, ParserRecord
<1> HIDE DEF on, over
<1> QED  BY <1>1, <1>2, <1>3, ReadsOn, GoesOn, Refuses DEF Errors, NoBody, BodyStates, Separate

\* What is looked for has no part in the count.
SameCount(m, q) == m.nread = q.nread /\ m.http_errno # "HPE_HEADER_OVERFLOW"

LEMMA SmallChanges ==
    ASSUME NEW q \in ParserRecord, q.http_errno = "HPE_OK"
    PROVE  /\ SameCount(q, q)
           /\ \A s : SameCount([q EXCEPT !.header_state = s], q)
           /\ \A s, f : SameCount([[q EXCEPT !.header_state = s] EXCEPT !.flags = f], q)
           /\ \A s, i : SameCount([[q EXCEPT !.header_state = s] EXCEPT !.index = i], q)
           /\ \A s, i : SameCount([q EXCEPT !.index = i, !.header_state = s], q)
           /\ \A x : SameCount([q EXCEPT !.content_length = x], q)
           /\ \A s, x, f : SameCount([[q EXCEPT !.header_state = s]
                                         EXCEPT !.content_length = x, !.flags = f], q)
           /\ \A e \in Errors \ {"HPE_HEADER_OVERFLOW"} : SameCount(Error(q, e), q)
<1> USE DEF SameCount, ParserRecord
<1>1. /\ SameCount(q, q)
      /\ \A s : SameCount([q EXCEPT !.header_state = s], q)
      /\ \A x : SameCount([q EXCEPT !.content_length = x], q)
      /\ \A s, i : SameCount([q EXCEPT !.index = i, !.header_state = s], q)
    OBVIOUS
<1>2. /\ \A s, f : SameCount([[q EXCEPT !.header_state = s] EXCEPT !.flags = f], q)
      /\ \A s, i : SameCount([[q EXCEPT !.header_state = s] EXCEPT !.index = i], q)
    OBVIOUS
<1>3. \A s, x, f : SameCount([[q EXCEPT !.header_state = s]
                                  EXCEPT !.content_length = x, !.flags = f], q)
    OBVIOUS
<1>4. \A e \in Errors \ {"HPE_HEADER_OVERFLOW"} : SameCount(Error(q, e), q)
    BY DEF Error, Errors
<1> QED  BY <1>1, <1>2, <1>3, <1>4

LEMMA ValueFirstCounts ==
    ASSUME NEW q \in ParserRecord, NEW c, q.http_errno = "HPE_OK"
    PROVE  SameCount(ValueFirst(q, c), q)
<1> DEFINE To(s) == [q EXCEPT !.header_state = s]
           Flagged(s, f) == [To(s) EXCEPT !.flags = f]
           Long(s, x, f) == [To(s) EXCEPT !.content_length = x, !.flags = f]
           Refused == {"HPE_INVALID_CONTENT_LENGTH", "HPE_UNEXPECTED_CONTENT_LENGTH"}
<1>1. /\ SameCount(q, q) /\ \A s : SameCount(To(s), q)
      /\ \A s, f : SameCount(Flagged(s, f), q)
      /\ \A s, x, f : SameCount(Long(s, x, f), q)
      /\ \A e \in Refused : SameCount(Error(q, e), q)
    BY SmallChanges DEF Errors
<1>2. \/ \E s : ValueFirst(q, c) = To(s)
      \/ \E s, f : ValueFirst(q, c) = Flagged(s, f)
      \/ \E s, x, f : ValueFirst(q, c) = Long(s, x, f)
      \/ \E e \in Refused : ValueFirst(q, c) = Error(q, e)
      \/ ValueFirst(q, c) = q
    <2>1. CASE q.header_state = "h_upgrade"
        BY <2>1 DEF ValueFirst
    <2>2. CASE q.header_state = "h_transfer_encoding"
        BY <2>2 DEF ValueFirst
    <2>3. CASE q.header_state = "h_content_length"
        BY <2>3 DEF ValueFirst
    <2>4. CASE q.header_state = "h_connection"
        BY <2>4 DEF ValueFirst
    <2>5. CASE q.header_state \notin {"h_upgrade", "h_transfer_encoding", "h_content_length",
                                      "h_connection"}
        BY <2>5 DEF ValueFirst
    <2> QED  BY <2>1, <2>2, <2>3, <2>4, <2>5
<1> HIDE DEF To, Flagged, Long, Refused
<1> QED  BY <1>1, <1>2

LEMMA FieldCharCounts ==
    ASSUME NEW q \in ParserRecord, NEW c, q.http_errno = "HPE_OK"
    PROVE  SameCount(FieldChar(q, c), q)
<1> DEFINE To(s) == [q EXCEPT !.header_state = s]
           Turn(s, i) == [q EXCEPT !.index = i, !.header_state = s]
<1>1. /\ SameCount(q, q) /\ \A s : SameCount(To(s), q)
      /\ \A s, i : SameCount(Turn(s, i), q)
    BY SmallChanges
<1>2. \/ \E s : FieldChar(q, c) = To(s)
      \/ \E s, i : FieldChar(q, c) = Turn(s, i)
      \/ FieldChar(q, c) = q
    <2> DEFINE h == q.header_state
    <2>1. CASE h = "h_general"
        BY <2>1 DEF FieldChar, Words
    <2>2. CASE h = "h_C"
        BY <2>2 DEF FieldChar, Words
    <2>3. CASE h = "h_CO"
        BY <2>3 DEF FieldChar, Words
    <2>4. CASE h = "h_CON"
        BY <2>4 DEF FieldChar, Words
    <2>5. CASE h \in DOMAIN Words
        <3>1. FieldChar(q, c) = MatchWord(q, c, "h_general")
            BY <2>5 DEF FieldChar, Words
        <3> QED  BY <3>1 DEF MatchWord
    <2>6. CASE h \notin DOMAIN Words \cup {"h_general", "h_C", "h_CO", "h_CON"}
        BY <2>6 DEF FieldChar
    <2> QED  BY <2>1, <2>2, <2>3, <2>4, <2>5, <2>6
<1> HIDE DEF To, Turn
<1> QED  BY <1>1, <1>2

LEMMA ValueCharCounts ==
    ASSUME NEW q \in ParserRecord, NEW c, q.http_errno = "HPE_OK"
    PROVE  SameCount(ValueChar(q, c), q)
<1> DEFINE h == q.header_state
           To(s) == [q EXCEPT !.header_state = s]
           Turn(s, i) == [q EXCEPT !.index = i, !.header_state = s]
           Reset(s) == [To(s) EXCEPT !.index = 0]
           token == [To("h_matching_connection_token_start")
                        EXCEPT !.index = 0, !.flags = @ \cup ValueFlags(h)]
           Long(x) == [q EXCEPT !.content_length = x]
           Refused == {"HPE_INVALID_CONTENT_LENGTH", "HPE_INVALID_HEADER_TOKEN"}
<1>1. /\ SameCount(q, q) /\ \A s : SameCount(To(s), q)
      /\ \A s, i : SameCount(Turn(s, i), q)
      /\ \A s : SameCount(Reset(s), q)
      /\ \A x : SameCount(Long(x), q)
      /\ \A e \in Refused : SameCount(Error(q, e), q)
    BY SmallChanges DEF Errors
<1>2. SameCount(token, q)
    BY DEF SameCount, ParserRecord
<1>3. \/ \E s : ValueChar(q, c) = To(s)
      \/ \E s, i : ValueChar(q, c) = Turn(s, i)
      \/ \E s : ValueChar(q, c) = Reset(s)
      \/ ValueChar(q, c) = token
      \/ \E x : ValueChar(q, c) = Long(x)
      \/ \E e \in Refused : ValueChar(q, c) = Error(q, e)
      \/ ValueChar(q, c) = q
    <2>1. CASE ~IsHeaderChar(c)
        BY <2>1 DEF ValueChar
    <2>2. CASE IsHeaderChar(c) /\ h = "h_content_length_num"
        <3>1. ValueChar(q, c) = LengthChar(q, c)
            BY <2>2 DEF ValueChar
        <3> QED  BY <3>1 DEF LengthChar
    <2>3. CASE IsHeaderChar(c) /\ h = "h_content_length_ws"
        BY <2>3 DEF ValueChar
    <2>4. CASE /\ IsHeaderChar(c)
               /\ h \in {"h_matching_transfer_encoding_chunked", "h_matching_connection_close",
                         "h_matching_connection_keep_alive", "h_matching_connection_upgrade"}
        <3>1. \E o : ValueChar(q, c) = MatchWord(q, c, o)
            BY <2>4 DEF ValueChar
        <3> QED  BY <3>1 DEF MatchWord
    <2>5. CASE IsHeaderChar(c) /\ h = "h_matching_connection_token_start"
        BY <2>5 DEF ValueChar
    <2>6. CASE /\ IsHeaderChar(c)
               /\ h \in {"h_matching_connection_token", "h_transfer_encoding_chunked"}
        BY <2>6 DEF ValueChar
    <2>7. CASE /\ IsHeaderChar(c)
               /\ h \in {"h_connection_keep_alive", "h_connection_close", "h_connection_upgrade"}
        <3>1. \/ ValueChar(q, c) = token \/ ValueChar(q, c) = q
              \/ ValueChar(q, c) = To("h_matching_connection_token")
            BY <2>7 DEF ValueChar
        <3> HIDE DEF To, token
        <3> QED  BY <3>1
    <2>8. CASE /\ IsHeaderChar(c)
               /\ h \notin {"h_content_length_num", "h_content_length_ws",
                     "h_matching_transfer_encoding_chunked", "h_matching_connection_close",
                     "h_matching_connection_keep_alive", "h_matching_connection_upgrade",
                     "h_matching_connection_token_start", "h_matching_connection_token",
                     "h_transfer_encoding_chunked", "h_connection_keep_alive",
                     "h_connection_close", "h_connection_upgrade"}
        BY <2>8 DEF ValueChar
    <2> QED  BY <2>1, <2>2, <2>3, <2>4, <2>5, <2>6, <2>7, <2>8
<1> HIDE DEF To, Turn, Reset, token, Long, Refused
<1> QED  BY <1>1, <1>2, <1>3

\* The first symbol of a value.
LEMMA ValueStartCounts ==
    ASSUME IInv, CountInv, running, p < end, Counted <= MaxHeaderSize,
           parser.state \notin Separate, ValueStart
    PROVE  Effect
<1> DEFINE v == [cur EXCEPT !.state = "s_header_value", !.index = 0]
           q == ValueFirst(v, ch)
<1>1. /\ v \in ParserRecord /\ v.http_errno = "HPE_OK" /\ v.state = "s_header_value"
      /\ v.index = 0 /\ v.nread = Counted
    <2>1. "s_header_value" \in States /\ 0 \in 0..127
        BY DEF States, BlockStates
    <2> QED  BY <2>1, Ready DEF ParserRecord
<1>2. \/ q.http_errno # "HPE_OK" /\ Fail(q.http_errno)
      \/ q.http_errno = "HPE_OK" /\ Take(q)
    BY DEF ValueStart
<1> HIDE DEF v
<1>3. ValueFits(q) /\ SameCount(q, v)
    BY <1>1, ValueFirstFits, ValueFirstCounts
<1> HIDE DEF q
<1>4. q.nread = Counted /\ q.state = "s_header_value"
    BY <1>1, <1>3 DEF SameCount, ValueFits
<1>5. q.http_errno \in (Errors \cup {"HPE_OK"}) \ {"HPE_HEADER_OVERFLOW"}
    BY <1>3 DEF SameCount, ValueFits, ParserRecord
<1> QED  BY <1>2, <1>4, <1>5, ReadsOn, Refuses DEF NoBody, BodyStates

LEMMA HeaderValueStartCounts ==
    ASSUME IInv, CountInv, HeaderValueDiscardWs \/ HeaderValueStart
    PROVE  Effect
<1>1. /\ running /\ p < end /\ Counted <= MaxHeaderSize
      /\ parser.state \in {"s_header_value_discard_ws", "s_header_value_start"}
      /\ \/ Skip \/ Go("s_header_value_discard_ws_almost_done")
         \/ Go("s_header_value_discard_lws") \/ ValueStart
    BY DEF HeaderValueDiscardWs, HeaderValueStart, At
<1> QED  BY <1>1, SkipsOn, GoesOn, ValueStartCounts DEF NoBody, BodyStates, Separate

\* An inner loop counts when it leaves, and not before.
LEMMA LoopedCounts ==
    ASSUME NEW q \in ParserRecord, IInv
    PROVE  Looped(q).nread = q.nread + (p - Begun) /\ Looped(q).http_errno = q.http_errno
           /\ Looped(q).state = q.state
BY DEF Looped, ParserRecord

Inner == {"s_header_field", "s_header_value"}
LEMMA LeavesLoop ==
    ASSUME IInv, CountInv, running, p < end, parser.state \in Inner,
           NEW q, q.nread = Total, Total <= MaxHeaderSize, q.http_errno = "HPE_OK",
           NoBody(q.state), Take(q) \/ Retake(q)
    PROVE  Effect
<1>1. ~EndsBlock
    BY DEF EndsBlock, BodyStates, Inner
<1>2. Reads
    BY DEF Reads, Plain, Take, Retake
<1> QED  BY <1>1, <1>2 DEF Effect

LEMMA OverflowsInLoop ==
    ASSUME IInv, CountInv, running, p < end, Total > MaxHeaderSize, Fail("HPE_HEADER_OVERFLOW")
    PROVE  Effect
<1>1. parser'.http_errno = "HPE_HEADER_OVERFLOW"
    BY Ready DEF Fail, ParserRecord
<1> QED  BY <1>1 DEF Effect, Fails, Fail

LEMMA LoopCounts ==
    ASSUME IInv, CountInv, running, p < end, Counted <= MaxHeaderSize, parser.state \in Inner,
           NEW q \in ParserRecord, q.nread = Counted, q.state = parser.state,
           q.http_errno = "HPE_OK", Loop(q)
    PROVE  Effect
<1>1. /\ Looped(q).nread = Total /\ Looped(q).http_errno = "HPE_OK"
      /\ Looped(q).state = parser.state
    BY LoopedCounts DEF Total
<1>2. NoBody(parser.state) /\ ~EndsBlock
    BY DEF NoBody, BodyStates, Inner, EndsBlock
<1>3. p \in Nat /\ end \in Nat /\ Total \in Nat /\ MaxHeaderSize \in Nat
    <2>1. Begun \in Nat /\ Begun <= p
        BY DEF IInv, Positions, Begun
    <2> QED  BY <2>1, Ready, SizesAssumption DEF Total
<1>4. CASE p + 1 < end
    <2>1. /\ parser' = q /\ p' = p + 1 /\ start' = Begun
          /\ redo' = FALSE /\ running' = running
        <3>1. p + 1 # end
            BY <1>3, <1>4
        <3> QED  BY <1>4, <3>1 DEF Loop
    <2>2. Loops
        BY <1>4, <2>1 DEF Loops, Plain, Inner
    <2> QED  BY <1>2, <2>2 DEF Effect
<1>5. CASE p + 1 = end /\ Looped(q).nread <= MaxHeaderSize
    <2>1. ~(p + 1 < end)
        BY <1>3, <1>5
    <2>2. Take(Looped(q))
        BY <1>5, <2>1 DEF Loop
    <2> QED  BY <1>1, <1>2, <1>5, <2>2, LeavesLoop
<1>6. CASE ~(p + 1 < end) /\ ~(p + 1 = end /\ Looped(q).nread <= MaxHeaderSize)
    <2>1. p + 1 = end /\ Total > MaxHeaderSize
        BY <1>1, <1>3, <1>6
    <2> QED  BY <1>6, <2>1, OverflowsInLoop DEF Loop
<1> QED  BY <1>4, <1>5, <1>6

LEMMA HeaderFieldCounts == ASSUME IInv, CountInv, HeaderField  PROVE Effect
<1>1. running /\ p < end /\ Counted <= MaxHeaderSize /\ parser.state = "s_header_field"
    BY DEF HeaderField, At
<1> DEFINE q == FieldChar(cur, ch)
           over == [Looped(cur) EXCEPT !.state = "s_header_value_discard_ws"]
<1>2. /\ Looped(cur) \in ParserRecord /\ Looped(cur).nread = Total
      /\ Looped(cur).http_errno = "HPE_OK" /\ Total \in Nat
    <2>1. Looped(cur) \in ParserRecord
        BY <1>1, CurGathered, LoopedGathered, Ready
    <2>2. Looped(cur).nread = Total /\ Looped(cur).http_errno = "HPE_OK"
        BY <1>1, LoopedCounts, Ready DEF Total
    <2> QED  BY <2>1, <2>2 DEF ParserRecord
<1>3. /\ over.nread = Total /\ over.http_errno = "HPE_OK"
      /\ over.state = "s_header_value_discard_ws"
    BY <1>2 DEF ParserRecord
<1>4. Kept(q, cur) /\ SameCount(q, cur)
    BY <1>1, Ready, FieldCharKeeps, FieldCharCounts, CountKeeps DEF IInv, Gathered
<1>5. \/ Loop(q) \/ (Total > MaxHeaderSize /\ Fail("HPE_HEADER_OVERFLOW"))
      \/ (Total <= MaxHeaderSize /\ Take(over)) \/ Fail("HPE_INVALID_HEADER_TOKEN")
    BY <1>2 DEF HeaderField
<1> HIDE DEF q, over
<1>6. CASE Loop(q)
    BY <1>1, <1>4, <1>6, Ready, LoopCounts DEF Kept, SameCount, Inner
<1>7. CASE Take(over) /\ Total <= MaxHeaderSize
    BY <1>1, <1>3, <1>7, LeavesLoop DEF NoBody, BodyStates, Inner
<1> QED  BY <1>1, <1>5, <1>6, <1>7, OverflowsInLoop, Refuses DEF Errors

LEMMA HeaderValueCounts == ASSUME IInv, CountInv, HeaderValue  PROVE Effect
<1>1. running /\ p < end /\ Counted <= MaxHeaderSize /\ parser.state = "s_header_value"
    BY DEF HeaderValue, At
<1> DEFINE q == ValueChar(cur, ch)
           ended == [Looped(cur) EXCEPT !.state = "s_header_almost_done"]
<1>2. /\ Looped(cur) \in ParserRecord /\ Looped(cur).nread = Total
      /\ Looped(cur).http_errno = "HPE_OK" /\ Total \in Nat
    <2>1. Looped(cur) \in ParserRecord
        BY <1>1, CurGathered, LoopedGathered, Ready
    <2>2. Looped(cur).nread = Total /\ Looped(cur).http_errno = "HPE_OK"
        BY <1>1, LoopedCounts, Ready DEF Total
    <2> QED  BY <2>1, <2>2 DEF ParserRecord
<1>3. /\ ended.nread = Total /\ ended.http_errno = "HPE_OK"
      /\ ended.state = "s_header_almost_done"
    BY <1>2 DEF ParserRecord
<1>4. ValueFits(q) /\ SameCount(q, cur)
    <2>1. ValueFits(cur) /\ cur.http_errno = "HPE_OK" /\ cur \in ParserRecord
        BY <1>1, Ready, CountKeeps DEF ValueFits, IInv, Gathered
    <2> QED  BY <2>1, ValueCharFits, ValueCharCounts
<1>5. \/ q.http_errno = "HPE_OK" /\ Loop(q)
      \/ q.http_errno # "HPE_OK" /\ Fail(q.http_errno)
      \/ ended.nread > MaxHeaderSize /\ Fail("HPE_HEADER_OVERFLOW")
      \/ ended.nread <= MaxHeaderSize /\ (Take(ended) \/ Retake(ended))
    <2>1. ended.nread > MaxHeaderSize \/ ended.nread <= MaxHeaderSize
        BY <1>2, <1>3, SizesAssumption
    <2> QED  BY <2>1 DEF HeaderValue
<1> HIDE DEF q, ended
<1>6. CASE q.http_errno = "HPE_OK" /\ Loop(q)
    BY <1>1, <1>4, <1>6, Ready, LoopCounts DEF ValueFits, SameCount, Inner
<1>7. CASE q.http_errno # "HPE_OK" /\ Fail(q.http_errno)
    <2>1. q.http_errno \in Errors \ {"HPE_HEADER_OVERFLOW"}
        BY <1>4, <1>7 DEF ValueFits, SameCount, ParserRecord
    <2> QED  BY <1>1, <1>7, <2>1, Refuses
<1>8. CASE ended.nread <= MaxHeaderSize /\ (Take(ended) \/ Retake(ended))
    BY <1>1, <1>3, <1>8, LeavesLoop DEF NoBody, BodyStates, Inner
<1>9. CASE ended.nread > MaxHeaderSize /\ Fail("HPE_HEADER_OVERFLOW")
    BY <1>1, <1>3, <1>9, OverflowsInLoop
<1> QED  BY <1>5, <1>6, <1>7, <1>8, <1>9

-----------------------------------------------------------------------------
\* The end of the headers, and bodies.
LEMMA HeadersAlmostDoneCounts == ASSUME IInv, CountInv, HeadersAlmostDone  PROVE Effect
<1>1. running /\ p < end /\ Counted <= MaxHeaderSize /\ parser.state = "s_headers_almost_done"
    BY DEF HeadersAlmostDone, At
<1> DEFINE Up == IF {"F_UPGRADE", "F_CONNECTION_UPGRADE"} \subseteq parser.flags
                 THEN parser.type = "HTTP_REQUEST" \/ parser.status_code = 101
                 ELSE parser.method = "CONNECT"
           trailing == [cur EXCEPT !.state = "s_message_done"]
           done == [cur EXCEPT !.state = "s_headers_done", !.upgrade = Up]
<1>2. \/ "F_TRAILING" \in parser.flags /\ Retake(trailing)
      \/ "F_TRAILING" \notin parser.flags /\ Retake(done)
      \/ Fail("HPE_STRICT") \/ Fail("HPE_UNEXPECTED_CONTENT_LENGTH")
    BY DEF HeadersAlmostDone
<1> HIDE DEF Up
<1>3. /\ trailing.nread = Counted /\ trailing.http_errno = "HPE_OK"
      /\ trailing.state = "s_message_done" /\ trailing.flags = parser.flags
      /\ done.nread = Counted /\ done.http_errno = "HPE_OK"
      /\ done.state = "s_headers_done" /\ done.flags = parser.flags
    BY <1>1, Ready DEF ParserRecord
<1> HIDE DEF trailing, done
<1>4. parser.state \notin Separate
    BY <1>1 DEF Separate, BodyStates
<1> QED  BY <1>1, <1>2, <1>3, <1>4, ReadsOn, Refuses DEF Errors

\* The message ends: with its headers, with its body or with its trailers.
LEMMA CompleteCounts ==
    ASSUME IInv, CountInv, running, p < end, start = 0, Counted <= MaxHeaderSize,
           NEW q \in ParserRecord, q.http_errno = "HPE_OK", Complete(q),
           (EndsBlock /\ q.nread = 0) \/ (~EndsBlock /\ q.nread = Counted)
    PROVE  Effect
<1> DEFINE n == NewMessageState(q)
<1>1. /\ n.http_errno = "HPE_OK" /\ n.nread = q.nread /\ n.upgrade = q.upgrade
      /\ n.state \in {"s_start_req", "s_start_res", "s_dead"}
    BY DEF NewMessageState, StartState, ParserRecord
<1>2. \/ ~q.upgrade /\ Take(n)
      \/ q.upgrade /\ parser' = n /\ p' = end /\ running' = FALSE /\ redo' = FALSE /\ start' = 0
    BY DEF Complete, CompleteAs
<1> HIDE DEF n
<1>3. NoBody(n.state)
    BY <1>1 DEF NoBody, BodyStates
<1>4. CASE q.upgrade /\ parser' = n /\ p' = end /\ running' = FALSE /\ redo' = FALSE /\ start' = 0
    <2>1. n.nread <= MaxHeaderSize
        BY <1>1, SizesAssumption
    <2>2. HandsOver
        BY <1>1, <1>3, <1>4, <2>1 DEF HandsOver, Plain
    <2> QED  BY <2>2 DEF Effect
<1>5. CASE Take(n) /\ EndsBlock /\ q.nread = 0
    <2>1. Ends
        BY <1>1, <1>5 DEF Ends, Plain, Take
    <2> QED  BY <2>1 DEF Effect
<1>6. CASE Take(n) /\ ~EndsBlock /\ q.nread = Counted
    <2>1. Counted = Total
        BY Ready DEF Total, Begun
    <2>2. Reads
        BY <1>1, <1>3, <1>6, <2>1 DEF Reads, Plain, Take
    <2> QED  BY <1>6, <2>2 DEF Effect
<1> QED  BY <1>2, <1>4, <1>5, <1>6

LEMMA HeadersDoneCounts == ASSUME IInv, CountInv, HeadersDone  PROVE Effect
<1>1. running /\ p < end /\ Counted <= MaxHeaderSize /\ parser.state = "s_headers_done"
    BY DEF HeadersDone, At
<1> DEFINE q == [cur EXCEPT !.nread = 0]
           s == BodyState(cur)
           body == [q EXCEPT !.state = s]
<1>2. /\ q \in ParserRecord /\ q.nread = 0 /\ q.http_errno = "HPE_OK" /\ q.flags = parser.flags
    BY <1>1, Ready DEF ParserRecord
<1>3. EndsBlock /\ start = 0 /\ "F_TRAILING" \notin parser.flags
    BY <1>1, Ready DEF EndsBlock, Retakes
<1>4. Fail("HPE_STRICT") \/ Complete(q) \/ (s # "none" /\ Take(body))
    BY DEF HeadersDone, DoneAs
<1>5. s # "none" => s \in {"s_chunk_size_start", "s_body_identity", "s_body_identity_eof"}
    BY DEF BodyState
<1> HIDE DEF q, s
<1>6. CASE Complete(q)
    BY <1>1, <1>2, <1>3, <1>6, CompleteCounts
<1>7. CASE s # "none" /\ Take(body)
    <2>1. /\ body.nread = 0 /\ body.http_errno = "HPE_OK" /\ body.state = s
          /\ body.flags = parser.flags
        BY <1>2 DEF ParserRecord
    <2> HIDE DEF body
    <2>2. Ends
        BY <1>1, <1>3, <1>5, <1>7, <2>1 DEF Ends, Plain, Take
    <2> QED  BY <2>2 DEF Effect
<1> QED  BY <1>1, <1>4, <1>6, <1>7, Refuses DEF Errors

LEMMA MessageDoneCounts == ASSUME IInv, CountInv, MessageDone  PROVE Effect
<1>1. /\ running /\ p < end /\ Counted <= MaxHeaderSize /\ parser.state = "s_message_done"
      /\ Complete(cur)
    BY DEF MessageDone, At
<1>2. start = 0
    BY <1>1, Ready DEF Retakes
<1>3. EndsBlock => Counted = 0
    BY <1>1, BodyCountsNothing DEF EndsBlock, InBody, BodyStates
<1> QED  BY <1>1, <1>2, <1>3, Ready, CompleteCounts

LEMMA BodyCounts == ASSUME IInv, CountInv, BodyIdentity \/ BodyIdentityEof  PROVE Effect
<1>1. running /\ p < end /\ parser.state \in {"s_body_identity", "s_body_identity_eof"}
    BY DEF BodyIdentity, BodyIdentityEof, At
<1>2. /\ EndsBlock /\ InBody(parser) /\ Counted = 0 /\ start = 0 /\ redo = FALSE
      /\ parser.state = "s_body_identity" => "F_TRAILING" \notin parser.flags
    BY <1>1, Ready, BodyCountsNothing DEF EndsBlock, InBody, BodyStates, Retakes, IInv, Positions
<1> DEFINE q == [cur EXCEPT !.content_length = parser.content_length - ToRead]
           last == [q EXCEPT !.state = "s_message_done"]
<1>3. /\ cur.nread = 0 /\ cur.http_errno = "HPE_OK" /\ cur.flags = parser.flags
      /\ q.nread = 0 /\ q.http_errno = "HPE_OK" /\ q.flags = parser.flags
      /\ q.state = parser.state
      /\ last.nread = 0 /\ last.http_errno = "HPE_OK" /\ last.flags = parser.flags
      /\ last.state = "s_message_done" /\ cur.state = parser.state
    BY <1>1, <1>2, Ready DEF ParserRecord
<1>4. CASE BodyIdentityEof
    <2>1. parser' = cur /\ UNCHANGED <<running, redo, start>> /\ parser.state = "s_body_identity_eof"
        BY <1>4 DEF BodyIdentityEof, At
    <2>2. Ends
        BY <1>1, <1>2, <1>3, <2>1 DEF Ends, Plain
    <2> QED  BY <2>2 DEF Effect
<1>5. CASE BodyIdentity
    <2>1. parser.state = "s_body_identity"
        BY <1>5 DEF BodyIdentity, At
    <2>2. /\ start' = 0 /\ UNCHANGED running
          /\ \/ redo' = TRUE /\ parser' = last /\ p' = p + ToRead - 1
             \/ redo' = FALSE /\ parser' = q
        BY <1>5 DEF BodyIdentity
    <2>3. p + ToRead - 1 < end
        <3>1. parser.content_length \notin {0, MaxLength}
            BY <2>1 DEF IInv, Gathered
        <3>2. ToRead \in Nat \ {0} /\ ToRead <= end - p
            BY <1>1, <3>1, ToReadBounds
        <3> QED  BY <1>1, <3>2, Ready
    <2> HIDE DEF q, last
    <2>4. Ends
        BY <1>1, <1>2, <1>3, <2>1, <2>2, <2>3 DEF Ends, Plain
    <2> QED  BY <2>4 DEF Effect
<1> QED  BY <1>4, <1>5

LEMMA ChunkSizeCounts ==
    ASSUME IInv, CountInv, ChunkSizeStart \/ ChunkSize \/ ChunkParameters
    PROVE  Effect
<1>1. /\ running /\ p < end /\ Counted <= MaxHeaderSize
      /\ parser.state \in {"s_chunk_size_start", "s_chunk_size", "s_chunk_parameters"}
    BY DEF ChunkSizeStart, ChunkSize, ChunkParameters, At
<1>2. parser.state \notin Separate
    BY <1>1 DEF Separate, BodyStates
<1> DEFINE first == [cur EXCEPT !.content_length = Unhex(ch), !.state = "s_chunk_size"]
           more == [cur EXCEPT !.content_length = 16 * cur.content_length + Unhex(ch)]
<1>3. /\ first.nread = Counted /\ first.http_errno = "HPE_OK" /\ first.state = "s_chunk_size"
      /\ more.nread = Counted /\ more.http_errno = "HPE_OK" /\ more.state = parser.state
      /\ cur \in ParserRecord
    BY <1>1, Ready DEF ParserRecord
<1>4. \/ Skip \/ Go("s_chunk_size_almost_done") \/ Go("s_chunk_parameters")
      \/ Fail("HPE_INVALID_CHUNK_SIZE") \/ Fail("HPE_INVALID_CONTENT_LENGTH")
      \/ Take(first) \/ Take(more)
    BY <1>3 DEF ChunkSizeStart, ChunkSize, ChunkParameters, ParserRecord
<1> HIDE DEF first, more
<1> QED  BY <1>1, <1>2, <1>3, <1>4, SkipsOn, GoesOn, ReadsOn, Refuses
         DEF Errors, NoBody, BodyStates

LEMMA ChunkSizeAlmostDoneCounts == ASSUME IInv, CountInv, ChunkSizeAlmostDone  PROVE Effect
<1>1. running /\ p < end /\ parser.state = "s_chunk_size_almost_done"
    BY DEF ChunkSizeAlmostDone, At
<1>2. EndsBlock
    BY <1>1 DEF EndsBlock
<1> DEFINE q == [cur EXCEPT !.nread = 0]
           last == [q EXCEPT !.flags = q.flags \cup {"F_TRAILING"},
                             !.state = "s_header_field_start"]
           data == [q EXCEPT !.state = "s_chunk_data"]
<1>3. q \in ParserRecord /\ q.nread = 0 /\ q.http_errno = "HPE_OK"
    BY <1>1, Ready DEF ParserRecord
<1>4. Fail("HPE_STRICT") \/ Take(last) \/ Take(data)
    <2> HIDE DEF last, data
    <2>1. ChunkSizeAlmostDone => \/ Fail("HPE_STRICT")
                                 \/ Take(IF q.content_length = 0 THEN last ELSE data)
        BY <1>3 DEF ChunkSizeAlmostDone, last, data
    <2> QED  BY <2>1
<1> HIDE DEF q
<1>5. /\ last.nread = 0 /\ last.http_errno = "HPE_OK" /\ last.state = "s_header_field_start"
      /\ data.nread = 0 /\ data.http_errno = "HPE_OK" /\ data.state = "s_chunk_data"
    BY <1>3 DEF ParserRecord
<1> HIDE DEF last, data
<1>6. CASE Take(last) \/ Take(data)
    <2>1. Ends
        BY <1>1, <1>2, <1>5, <1>6 DEF Ends, Plain, Take
    <2> QED  BY <2>1 DEF Effect
<1> QED  BY <1>1, <1>4, <1>6, Refuses DEF Errors

LEMMA ChunkDataCounts ==
    ASSUME IInv, CountInv, ChunkData \/ ChunkDataAlmostDone \/ ChunkDataDone
    PROVE  Effect
<1>1. /\ running /\ p < end
      /\ parser.state \in {"s_chunk_data", "s_chunk_data_almost_done", "s_chunk_data_done"}
    BY DEF ChunkData, ChunkDataAlmostDone, ChunkDataDone, At
<1>2. EndsBlock /\ InBody(parser) /\ Counted = 0 /\ start = 0 /\ redo = FALSE
    BY <1>1, Ready, BodyCountsNothing DEF EndsBlock, InBody, BodyStates, Retakes, IInv, Positions
<1> DEFINE data(x, s) == [cur EXCEPT !.content_length = x, !.state = s]
           done == [cur EXCEPT !.state = "s_chunk_data_done"]
           next == [cur EXCEPT !.nread = 0, !.state = "s_chunk_size_start"]
<1>3. /\ \A x, s : data(x, s).nread = 0 /\ data(x, s).http_errno = "HPE_OK" /\ data(x, s).state = s
      /\ done.nread = 0 /\ done.http_errno = "HPE_OK" /\ done.state = "s_chunk_data_done"
      /\ next.nread = 0 /\ next.http_errno = "HPE_OK" /\ next.state = "s_chunk_size_start"
      /\ cur \in ParserRecord /\ cur.state = parser.state
    BY <1>1, <1>2, Ready DEF ParserRecord
<1>4. CASE ChunkData
    <2>1. parser.state = "s_chunk_data" /\ UNCHANGED <<running, redo, start>>
        BY <1>4 DEF ChunkData, At
    <2>2. \E x : \E s \in {"s_chunk_data", "s_chunk_data_almost_done"} : parser' = data(x, s)
        BY <1>3, <1>4, <2>1 DEF ChunkData, ParserRecord
    <2> HIDE DEF data
    <2>3. Ends
        BY <1>1, <1>2, <1>3, <2>1, <2>2 DEF Ends, Plain
    <2> QED  BY <2>3 DEF Effect
<1>5. CASE Take(done) \/ Take(next)
    <2> HIDE DEF done, next
    <2>1. Ends
        BY <1>1, <1>2, <1>3, <1>5 DEF Ends, Plain, Take
    <2> QED  BY <2>1 DEF Effect
<1>6. CASE Fail("HPE_STRICT")
    BY <1>1, <1>6, Refuses DEF Errors
<1> QED  BY <1>4, <1>5, <1>6 DEF ChunkDataAlmostDone, ChunkDataDone

LEMMA HeaderOverflowCounts == ASSUME IInv, CountInv, HeaderOverflow  PROVE Effect
<1>1. running /\ p < end /\ Counted > MaxHeaderSize /\ Fail("HPE_HEADER_OVERFLOW")
    BY DEF HeaderOverflow
<1>2. Total >= Counted
    <2>1. Begun \in Nat /\ Begun <= p
        BY DEF IInv, Positions, Begun
    <2> QED  BY <1>1, <2>1, Ready DEF Total
<1>3. Total > MaxHeaderSize
    <2>1. Total \in Nat /\ Counted \in Nat /\ MaxHeaderSize \in Nat
        <3>1. Begun \in Nat /\ Begun <= p
            BY DEF IInv, Positions, Begun
        <3> QED  BY <1>1, <3>1, Ready, SizesAssumption DEF Total
    <2> QED  BY <1>1, <1>2, <2>1
<1> QED  BY <1>1, <1>3, OverflowsInLoop

LEMMA ExecuteCounts == ASSUME IInv, CountInv, Execute  PROVE running /\ p < end /\ Effect
<1> Step
    BY DEF Execute
<1>1. running /\ p < end
    BY DEF Step, Literal, Version, LineAlmostDone, VersionNumber, Dead, StartResponse,
        StartRequest, Method, SpacesBeforeUrl, Url, HttpStart, FirstStatusCode, StatusCode,
        StatusStart, Status, HeaderFieldStart, HeaderField, HeaderValueDiscardWs,
        HeaderValueStart, HeaderValue, HeaderValueLws, HeaderValueDiscardLws,
        HeadersAlmostDone, HeadersDone, BodyIdentity, BodyIdentityEof, MessageDone,
        ChunkSizeStart, ChunkSize, ChunkParameters, ChunkSizeAlmostDone, ChunkData,
        ChunkDataAlmostDone, ChunkDataDone, HeaderOverflow, At
<1>2. CASE Literal \/ Version \/ LineAlmostDone \/ VersionNumber \/ Dead \/ HttpStart
    BY <1>1, <1>2, LineCounts, VersionNumberCounts
<1>3. CASE StartResponse \/ StartRequest \/ Method \/ SpacesBeforeUrl \/ Url
    BY <1>1, <1>2, <1>3, StartCounts, MethodCounts, UrlCounts
<1>4. CASE FirstStatusCode \/ StatusCode \/ StatusStart \/ Status
    BY <1>1, <1>2, <1>4, StatusCounts
<1>5. CASE HeaderFieldStart \/ HeaderField \/ HeaderValueDiscardWs \/ HeaderValueStart
    BY <1>1, <1>2, <1>5, HeaderFieldStartCounts, HeaderFieldCounts, HeaderValueStartCounts
<1>6. CASE HeaderValue \/ HeaderValueLws \/ HeaderValueDiscardLws
    BY <1>1, <1>2, <1>6, HeaderValueCounts, HeaderValueLwsCounts
<1>7. CASE HeadersAlmostDone \/ HeadersDone \/ BodyIdentity \/ BodyIdentityEof \/ MessageDone
    BY <1>1, <1>2, <1>7, HeadersAlmostDoneCounts, HeadersDoneCounts, BodyCounts, MessageDoneCounts
<1>8. CASE ChunkSizeStart \/ ChunkSize \/ ChunkParameters \/ ChunkSizeAlmostDone
    BY <1>1, <1>2, <1>8, ChunkSizeCounts, ChunkSizeAlmostDoneCounts
<1>9. CASE ChunkData \/ ChunkDataAlmostDone \/ ChunkDataDone
    BY <1>1, <1>2, <1>9, ChunkDataCounts
<1>10. CASE HeaderOverflow
    BY <1>1, <1>2, <1>10, HeaderOverflowCounts
<1> QED  BY <1>2, <1>3, <1>4, <1>5, <1>6, <1>7, <1>8, <1>9, <1>10 DEF Step

\* Between two pieces nothing is counted; an upgraded connection has no block.
LEMMA AroundCounts ==
    ASSUME IInv, IInv', CountInv, Observe, EndOfBuffer \/ \E n \in Nat : TryParse(n)
    PROVE  CountInv'
<1>1. /\ p \in Nat /\ p' \in Nat /\ begun \in Nat
      /\ UNCHANGED <<redo, start, parser>>
    BY DEF IInv, Positions, CountInv, EndOfBuffer, TryParse
<1>2. begun' \in Nat /\ ~EndsBlock
    BY <1>1 DEF Observe, EndsBlock, EndOfBuffer, TryParse
<1>3. CASE EndOfBuffer
    <2>1. /\ p' = p /\ end' = end /\ p = end /\ running' = FALSE /\ running
          /\ parser.http_errno = "HPE_OK"
        BY <1>3 DEF EndOfBuffer, IInv, InPlace
    <2>2. begun' = IF parser.upgrade THEN p ELSE begun
        BY <1>1, <1>2, <2>1 DEF Observe
    <2>3. Counts
        BY <2>1 DEF CountInv
    <2>4. start = 0 /\ redo = FALSE
        BY <2>1, <2>3 DEF Counts, Retakes, IInv, Positions
    <2>5. Counts'
      <3>1. Retakes'
          BY <1>1, <2>1, <2>3, <2>4 DEF Counts, Retakes
      <3>2. CASE parser.upgrade
          BY <1>1, <2>1, <2>2, <2>3, <3>1, <3>2 DEF Counts
      <3>3. CASE ~parser.upgrade
          BY <1>1, <2>1, <2>2, <2>3, <3>1, <3>3 DEF Counts, InBody, Uncounted
      <3> QED  BY <3>2, <3>3
    <2> QED  BY <1>1, <1>2, <2>1, <2>4, <2>5 DEF CountInv
<1>4. ASSUME NEW n \in Nat, TryParse(n)  PROVE CountInv'
    <2>1. /\ ~running /\ end' = p + n /\ redo = FALSE /\ start = 0 /\ p = end
        BY <1>4 DEF TryParse, CountInv, IInv, Positions
    <2>2. CASE parser.upgrade
        <3>1. p' = p + n /\ running' = FALSE
            BY <1>4, <2>1, <2>2 DEF TryParse
        <3>2. begun' = IF parser.http_errno = "HPE_OK" THEN p' ELSE begun
            BY <1>1, <1>2, <2>2, <3>1 DEF Observe
        <3>3. parser.http_errno = "HPE_OK" => Counts'
            BY <1>1, <2>1, <2>2, <3>1, <3>2 DEF CountInv, Counts, Retakes
        <3>4. parser.http_errno = "HPE_HEADER_OVERFLOW" => end' - begun' > MaxHeaderSize
            BY <1>1, <2>1, <3>2, SizesAssumption DEF CountInv
        <3> QED  BY <1>1, <1>2, <2>1, <3>1, <3>3, <3>4 DEF CountInv
    <2>3. CASE ~parser.upgrade /\ parser.http_errno # "HPE_OK"
        <3>1. p' = p + n /\ running' = FALSE /\ begun' = begun
            BY <1>1, <1>4, <2>1, <2>3 DEF TryParse, Observe
        <3>2. parser.http_errno = "HPE_HEADER_OVERFLOW" => end' - begun' > MaxHeaderSize
            BY <1>1, <2>1, <3>1, SizesAssumption DEF CountInv
        <3> QED  BY <1>1, <1>2, <2>1, <2>3, <3>1, <3>2 DEF CountInv
    <2>4. CASE ~parser.upgrade /\ parser.http_errno = "HPE_OK"
        <3>1. p' = p /\ running' = TRUE /\ begun' = begun
            BY <1>1, <1>2, <1>4, <2>1, <2>4 DEF TryParse, Observe
        <3>2. Counts
            BY <2>4 DEF CountInv
        <3>3. Counts'
          <4>1. Retakes'
              BY <1>1, <2>1, <3>2 DEF Counts, Retakes
          <4> QED  BY <1>1, <2>1, <2>4, <3>1, <3>2, <4>1 DEF Counts, InBody, Uncounted
        <3> QED  BY <1>1, <2>4, <3>1, <3>3 DEF CountInv
    <2> QED  BY <2>2, <2>3, <2>4
<1> QED  BY <1>3, <1>4

LEMMA NewCounts ==
    ASSUME input.type \in {"HTTP_REQUEST", "HTTP_RESPONSE"}, parser = NewParser(input.type),
           p = 1, end = 1, running = FALSE, redo = FALSE, start = 0, begun = 1
    PROVE  CountInv
<1>1. /\ parser.state \in {"s_start_req", "s_start_res"} /\ parser.http_errno = "HPE_OK"
      /\ parser.nread = 0 /\ parser.upgrade = FALSE
    BY DEF NewParser, StartState
<1>2. Retakes /\ ~InBody(parser) /\ Uncounted = 1
    BY <1>1 DEF Retakes, InBody, Uncounted, BodyStates
<1>3. Counts
    BY <1>1, <1>2, SizesAssumption DEF Counts
<1> QED  BY <1>1, <1>3 DEF CountInv

LEMMA CountHolds == CutsSpec => []CountInv
<1>1. CutsInit => CountInv
    BY NewCounts, InputAssumption DEF CutsInit, Init
<1>2. IInv /\ IInv' /\ CountInv /\ [CutsNext]_<<vars, whole, begun>> => CountInv'
    <2> SUFFICES ASSUME IInv, IInv', CountInv, [CutsNext]_<<vars, whole, begun>>
                 PROVE  CountInv'
        OBVIOUS
    <2>1. CASE Execute /\ Observe
        BY <2>1, ExecuteCounts, EffectKeepsCount DEF Execute
    <2>2. ASSUME NEW n \in Nat, TryParse(n), Observe  PROVE CountInv'
        BY <2>2, AroundCounts
    <2>3. CASE EndOfBuffer /\ Observe
        BY <2>3, AroundCounts
    <2>4. CASE InOnePiece
        <3>1. Len(wire) \in Nat
            BY InputAssumption DEF IInv, Positions, wire
        <3> QED  BY <2>1, <2>2, <2>3, <2>4, <3>1 DEF InOnePiece
    <2>5. CASE Again
        <3>1. /\ input' \in Inputs /\ parser' = NewParser(input'.type) /\ begun' = 1
              /\ p' = 1 /\ end' = 1 /\ running' = FALSE /\ redo' = FALSE /\ start' = 0
            BY <2>5 DEF IInv, Positions, Again, Idle
        <3>2. input'.type \in {"HTTP_REQUEST", "HTTP_RESPONSE"}
            BY <3>1, InputAssumption
        <3>3. /\ parser'.state \in {"s_start_req", "s_start_res"} /\ parser'.http_errno = "HPE_OK"
              /\ parser'.nread = 0 /\ parser'.upgrade = FALSE
            BY <3>1, <3>2 DEF NewParser, StartState
        <3>4. Retakes' /\ ~InBody(parser') /\ Uncounted' = 1
            BY <3>1, <3>3 DEF Retakes, InBody, Uncounted, BodyStates
        <3>5. Counts'
            BY <3>1, <3>3, <3>4, SizesAssumption DEF Counts
        <3> QED  BY <3>1, <3>3, <3>5 DEF CountInv
    <2>6. CASE InPieces
        <3>1. \A n \in input.sizes \cup {Len(wire) - p + 1} : n > 0 => n \in Nat
            BY InputAssumption DEF IInv, Positions, wire
        <3> QED  BY <2>1, <2>2, <2>3, <2>6, <3>1 DEF InPieces, Next
    <2>7. CASE UNCHANGED <<vars, whole, begun>>
        BY <2>7 DEF vars, CountInv, Counts, Retakes, InBody, Uncounted
    <2> QED  BY <2>4, <2>5, <2>6, <2>7 DEF CutsNext
<1> QED  BY <1>1, <1>2, InvariantHolds, PTL DEF CutsSpec

\* However the bytes are cut, a block that is still open between two pieces is
\* not longer than max_header_size, and one that is refused as too long is: no
\* symbol is lost or counted twice where a piece, an inner loop or a REEXECUTE
\* ends (http_parser.h:562, 579, 1657, 2166).
THEOREM NoBlockIsTooLong == CutsSpec => []BlocksAreBounded
<1>1. IInv /\ CountInv => BlocksAreBounded
    <2> SUFFICES ASSUME IInv, CountInv  PROVE BlocksAreBounded
        OBVIOUS
    <2>1. ASSUME ~running, parser.http_errno = "HPE_OK", parser.state \notin BodyStates
          PROVE  p - begun <= MaxHeaderSize
        <3>1. Counts /\ redo = FALSE /\ start = 0 /\ p \in Nat /\ begun \in Nat
            BY <2>1 DEF CountInv, IInv, Positions
        <3>2. CASE parser.upgrade
            BY <2>1, <3>1, <3>2, SizesAssumption DEF Counts
        <3>3. CASE ~parser.upgrade
            BY <2>1, <3>1, <3>3 DEF Counts, InBody, Uncounted
        <3> QED  BY <3>2, <3>3
    <2> QED  BY <2>1 DEF BlocksAreBounded, CountInv
<1> QED  BY <1>1, InvariantHolds, CountHolds, PTL
=============================================================================
