---------------------------- MODULE MCHttpParser ----------------------------
(***************************************************************************)
(* Connections for HttpParser: what peers send, and what should come out.  *)
(***************************************************************************)
EXTENDS UrlForms

Line(s) == s \o <<CR, LF>>
Header(name, value) == Line(name \o <<":", SP>> \o value)
Connection == Words.h_matching_connection
KeepAlive == Words.h_matching_connection_keep_alive
Close == Words.h_matching_connection_close
Chunked == Words.h_matching_transfer_encoding_chunked
TransferEncoding == Words.h_matching_transfer_encoding
UpgradeWord == Words.h_matching_upgrade
Http11 == <<"H", "T", "T", "P", "/", "1", ".", "1">>

\* Messages in the form that to_string gives them.
Message(method, url, version, keep_alive, headers, body) ==
    [NewMessage EXCEPT !.method = method, !.url = url, !.version = version,
                       !.keep_alive = keep_alive, !.headers = headers, !.body = body]
OneHeader(name, value) == [n \in {name} |-> value]
Put == Message("PUT", <<"/", "a", "?", "b", "=", "1", "&", "c">>, <<1, 1>>, TRUE,
               OneHeader(<<"x">>, <<"y", SP, "z">>), <<"b", "o", "d">>)
Old == Message("GET", <<"/">>, <<1, 0>>, FALSE, <<>>, <<>>)
OldQuery == AddQueryParam(AddQueryParam(<<>>, <<"d">>, <<"2">>), <<"b">>, <<"3">>)
Received(m) == [msg |-> WithLength(m), params |-> <<>>]
PutParams == [k \in {<<"b">>, <<"c">>} |-> IF k = <<"b">> THEN <<"1">> ELSE <<>>]

AllSizes == 1..130
Connected(type, wire_, expect, ws, handshake) ==
    [type |-> type, wire |-> wire_, expect |-> expect, ws |-> ws, handshake |-> handshake,
     sizes |-> AllSizes, known |-> TRUE]
Request(wire_, expect) == Connected("HTTP_REQUEST", wire_, expect, <<>>, <<>>)
\* The response callback is called twice for a response.
Response(wire_, msgs) ==
    Connected("HTTP_RESPONSE", wire_,
              [i \in 1..(2 * Len(msgs)) |->
                  [msg |-> WithLength(msgs[(i + 1) \div 2]), params |-> <<>>]],
              <<>>, <<>>)

\* Two requests in a row; the second is HTTP/1.0 and closes the connection, and
\* its parameters join those of the first.
OldParams == [k \in {<<"b">>, <<"c">>, <<"d">>} |->
                 CASE k = <<"b">> -> <<"3">> [] k = <<"c">> -> <<>> [] OTHER -> <<"2">>]
Pipelined == Request(RequestToString(Put, <<>>) \o RequestToString(Old, OldQuery) \o <<CR, LF>>,
                     << [msg |-> WithLength(Put), params |-> PutParams],
                        [msg |-> [Old EXCEPT !.url = <<"/", "?">> \o OldQuery],
                         params |-> OldParams] >>)
\* A chunked body of two chunks, a chunk parameter, and a trailer.
ChunkedPost ==
    Request(Line(<<"P", "O", "S", "T", SP, "/", SP>> \o Http11)
                \o Header(TransferEncoding, Chunked) \o <<CR, LF>>
                \o Line(<<"2", ";", "x">>) \o Line(<<"a", "b">>)
                \o Line(<<"1">>) \o Line(<<"c">>) \o Line(<<"0">>)
                \o Header(<<"t">>, <<"1">>) \o <<CR, LF>>,
            << Received(Message("POST", <<"/">>, <<1, 1>>, TRUE,
                   [n \in {TransferEncoding, <<"t">>} |->
                       IF n = <<"t">> THEN <<"1">> ELSE Chunked],
                   <<>>)) >>)
ChunkedExpected ==
    [ChunkedPost EXCEPT !.expect[1].msg.body = <<"a", "b", "c">>]
\* Folded and empty values, a header sent twice, bare line feeds.
Folded ==
    Request(<<"G", "E", "T", SP, SP, "/", SP>> \o Http11 \o <<LF>>
                \o ContentLength \o <<":", LF, SP, "2", CR, LF, SP, LF>>
                \o <<"x", ":", CR, LF>> \o <<"c", "o", "x", ":", "a", LF, SP, "b", LF>>
                \o Header(Connection, <<"x", ",", SP>> \o Close \o <<",", SP, "b">>)
                \o <<"x", ":", "c", LF, LF, "o", "k">>,
            << Received(Message("GET", <<"/">>, <<1, 1>>, FALSE,
                   [n \in {ContentLength, <<"x">>, <<"c", "o", "x">>, Connection} |->
                       CASE n = ContentLength -> <<"2", SP>>
                         [] n = <<"x">> -> <<"c">>
                         [] n = Connection -> <<"x", ",", SP>> \o Close \o <<",", SP, "b">>
                         [] OTHER -> <<"a", SP, "b">>],
                   <<>>)) >>)
FoldedExpected ==
    [Folded EXCEPT !.expect[1].msg.body = <<"o", "k">>,
                   !.expect[1].msg.headers[ContentLength] = <<"2", SP>>]
\* The close behind a TAB in the list is not seen.
Tabbed ==
    LET list == <<"x", ",", "TAB">> \o Close
    IN Request(Line(<<"G", "E", "T", SP, "/", SP>> \o Http11) \o Header(Connection, list)
                   \o <<CR, LF>>,
               << Received(Message("GET", <<"/">>, <<1, 1>>, TRUE, OneHeader(Connection, list),
                                   <<>>)) >>)
\* The websocket handshake of start_ws_handshake, and data behind it.
Handshake ==
    Connected("HTTP_REQUEST",
              Line(<<"H", "E", "A", "D", SP, "/", "w", SP, "H", "T", "T", "P", "/",
                     "0", ".", "0">>)
                  \o Header(UpgradeWord, <<"w">>) \o Header(Connection, UpgradeWord)
                  \o Header(SecWebsocketKey, <<"k">>) \o <<CR, LF, "f", "r">>,
              <<>>, <<"f", "r">>, << <<"k">> >>)
Tunnel ==
    Connected("HTTP_REQUEST",
              Line(Methods.CONNECT \o <<SP, "a", ":", "1", SP>> \o Http11)
                  \o <<CR, LF, "f", "r">>,
              <<>>, <<"f", "r">>, << <<>> >>)
\* HTTP/0.9, and a URL with all its parts.
Ancient == Request(Line(<<"G", "E", "T", SP, "a", ":", "/", "/", "b", "@", "c", "/", "d",
                          "?", "?", "#", "e">>) \o <<CR, LF>>,
                   << [msg |-> Message("GET", <<"a", ":", "/", "/", "b", "@", "c", "/",
                                                "d", "?", "?", "#", "e">>,
                                       <<0, 9>>, FALSE, <<>>, <<>>),
                       params |-> [k \in {<<"?">>} |-> <<>>]] >>)

Answer(status, headers, body, keep_alive) ==
    [NewMessage EXCEPT !.status = status, !.version = <<1, 1>>, !.headers = headers,
                       !.body = body, !.keep_alive = keep_alive]
Ok == Answer(<<"O", "K">>, <<>>, <<"b", "o">>, TRUE)
NotModified == Answer(<<>>, OneHeader(Connection, KeepAlive \o <<",", SP>> \o KeepAlive),
                      <<>>, TRUE)
Answers == Response(ResponseToString(Ok, 200) \o ResponseToString(NotModified, 304)
                        \o ResponseToString(Ok, 404), <<Ok, NotModified, Ok>>)
Switch == Answer(<<"s">>, [n \in {UpgradeWord, Connection, SecWebsocketAccept} |->
                               CASE n = UpgradeWord -> <<"w">> [] n = Connection -> UpgradeWord
                                 [] OTHER -> <<"h">>], <<>>, TRUE)
Switched == Connected("HTTP_RESPONSE", ResponseToString(Switch, 101) \o <<"f", "r">>,
                      << [msg |-> Switch, params |-> <<>>] >>, <<"f", "r">>, << <<"h">> >>)
\* No length: the body ends with the connection, which try_parse is never told.
UntilEof == Response(ResponseToString([Ok EXCEPT !.body = <<>>], 200) \o <<"b", "o">>, <<>>)
\* The status line may end after the code.
NoStatus == Response(Http11 \o <<SP, SP, "2", "0", "4", LF>>
                         \o Line(Words.h_matching_proxy_connection \o <<":">> \o Close)
                         \o <<CR, LF, LF>>,
                     << Answer(<<>>, OneHeader(Words.h_matching_proxy_connection, Close),
                               <<>>, FALSE) >>)

MCInputs == {Pipelined, ChunkedExpected, FoldedExpected, Tabbed, Handshake, Tunnel, Ancient,
             Answers, Switched, UntilEof, NoStatus}

\* Other bytes: what comes out is not stated, so it is compared with the outcome
\* of the same bytes in one piece.  Byte by byte is the hardest cut.
Bytes(i) == [i EXCEPT !.sizes = {1}, !.known = FALSE]

\* Blocks of about MaxHeaderSize, some of them after trailers.
Get(url) == <<"G", "E", "T", SP, "/">> \o url \o <<SP>> \o Http11 \o <<CR, LF>>
X(n) == [i \in 1..n |-> "x"]
Sized(w) == [Bytes(Request(w, <<>>)) EXCEPT !.sizes = {1, 2, 5}]
SizedInputs ==
    {Sized(Get(X(n)) \o Line(<<>>) \o Get(<<>>) \o Line(<<>>)) : n \in 62..66} \cup
    {Sized(Get(<<>>) \o Header(X(a), X(b)) \o Line(<<>>)) : a, b \in {26, 27, 28, 70}} \cup
    {Sized(<<CR, LF>> \o Get(X(n)) \o Line(<<>>) \o Line(<<>>) \o Get(X(60)) \o Line(<<>>)) :
         n \in {60, 63}} \cup
    {Sized(Get(<<>>) \o Header(X(1), X(70))), Sized(ChunkedPost.wire \o Get(X(58))),
     Sized(Get(<<>>) \o Header(TransferEncoding, Chunked) \o <<CR, LF, "1", ";">> \o X(90))}

Replace(i, k, c) == [i EXCEPT !.wire[k] = c]
Corrupted(inputs, cs) ==
    UNION {{Bytes(Replace(i, k, c)) : k \in DOMAIN i.wire, c \in cs} : i \in inputs}
Replacements == {"x", SP, CR, LF, ":", "9", "NUL"}
Long(w) == Bytes(Request(Line(<<"G", "E", "T", SP, "/", SP>> \o Http11) \o w, <<>>))
LongNumbers ==
    {Long(Header(ContentLength, <<"3", "9">>)), Long(Header(ContentLength, <<"9", "9">>)),
     Long(Header(TransferEncoding, Chunked) \o <<CR, LF, "1", "f", CR, LF, "x">>),
     Long(Header(TransferEncoding, Chunked) \o <<CR, LF, "2", "0", CR, LF>>)}
\* Two lengths, a length and chunks, a number with a space in it, words cut short.
Odd ==
    {Long(Header(ContentLength, <<"1">>) \o Header(ContentLength, <<"1">>)),
     Long(Header(ContentLength, <<"1">>) \o Header(TransferEncoding, Chunked) \o <<CR, LF>>),
     Long(Header(ContentLength, <<"1", SP, "1">>)),
     Long(Header(ContentLength \o <<"x">>, <<"1">>) \o Header(<<"c", "x">>, Close)
              \o Header(<<"c", "o", "n", "x">>, Close) \o Header(<<"co">>, Close)
              \o Header(Connection, <<"c", "lo", "x", ",", "TAB">> \o Close \o <<"x">>)
              \o Header(Connection, Close \o <<SP, ",", ":">>)
              \o Header(TransferEncoding, <<"x">>)
              \o Header(TransferEncoding, Chunked \o <<SP, "x">>) \o <<CR, LF>>),
     Bytes(Request(<<"x">>, <<>>)), Bytes(Request(<<"P", "x">>, <<>>)),
     Bytes(Response(Http11 \o <<SP, "9", "9", "9", "9">>, <<>>))}
\* HTTP/0.9 requests for URLs grown from a few starts.
Absolute == <<"a", ":", "/", "/">>
UrlStarts == {<<>>, <<"/", "a">>, Absolute, Absolute \o <<"a", "@">>, Absolute \o <<"[", "1">>,
              Absolute \o <<"a", ":", "1">>}
Grown(urls) == {u \in {Append(v, c) : v \in urls, c \in {"a", "1", ":", "/", "@", "?", "#", "[", "]"}} :
                   FoldLeft(ParseUrlChar, "s_req_spaces_before_url", u) # "s_dead"}
Urls == LET one == Grown(UrlStarts)  two == Grown(one) IN one \cup two \cup Grown(two)
UrlInputs == {[Bytes(Request(Methods.GET \o <<SP>> \o u \o <<LF, LF>>, <<>>)) EXCEPT !.sizes = {3}] :
                  u \in Urls}

AllInputs ==
    MCInputs \cup SizedInputs \cup
    Corrupted({ChunkedExpected, Answers, Pipelined}, {"x"}) \cup
    Corrupted({FoldedExpected, Handshake, Tunnel, Ancient, Switched, NoStatus}, Replacements)
        \cup LongNumbers \cup Odd \cup UrlInputs
=============================================================================
