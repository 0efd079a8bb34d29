---------------------------- MODULE HttpMessage ----------------------------
(***************************************************************************)
(* net/http/http_parser_api.h: what the callbacks of the parser collect,   *)
(* as operators on one record, and the text of a message that is sent.     *)
(*                                                                         *)
(* Names and values are sequences of symbols, headers a function from      *)
(* names to values.  The record of a parser object:                        *)
(*   msg               request_ or response_                               *)
(*   field, value      current_header_field_, current_header_value_        *)
(*   complete          current_header_field_complete_                      *)
(*   params            parsed_query_params_                                *)
(*   delivered         history: the arguments of complete_callback_        *)
(*   handshake         history: the keys given to the websocket parser     *)
(*   ws                history: the data given to the websocket parser     *)
(***************************************************************************)
EXTENDS HttpUrl

NewMessage == [headers |-> <<>>, body |-> <<>>, url |-> <<>>, status |-> <<>>,
               method |-> "HEAD", version |-> <<0, 0>>, keep_alive |-> FALSE]
NewApi == [msg |-> NewMessage, field |-> <<>>, value |-> <<>>, complete |-> FALSE,
           params |-> <<>>, delivered |-> <<>>, handshake |-> <<>>, ws |-> <<>>]

\* http_header_set: a repeated header is joined with a comma.
GetHeader(headers, name) == IF name \in DOMAIN headers THEN headers[name] ELSE <<>>
Joined(old, value) == IF old = <<>> THEN value
                      ELSE IF value = <<>> THEN old ELSE old \o <<",">> \o value
AddHeader(headers, name, value) ==
    [k \in DOMAIN headers \cup {name} |->
        IF k = name THEN Joined(GetHeader(headers, name), value) ELSE headers[k]]

ResetHeader(api) == [api EXCEPT !.field = <<>>, !.value = <<>>, !.complete = FALSE]
\* Mutant: the header that was added stays pending.
TryAddCurrentHeader_KeepsPending(api) ==
    IF api.field = <<>> THEN api
    ELSE [api EXCEPT !.msg.headers = AddHeader(@, api.field, api.value)]
TryAddCurrentHeader(api) ==
    IF api.field = <<>> THEN api
    ELSE ResetHeader([api EXCEPT !.msg.headers = AddHeader(@, api.field, api.value)])

\* The data callbacks; the parser may call one several times for one item.
OnHeaderField(api, data) ==
    [(IF api.complete THEN TryAddCurrentHeader(api) ELSE api) EXCEPT !.field = @ \o data]
OnHeaderValue(api, data) == [api EXCEPT !.value = @ \o data, !.complete = TRUE]
OnData(api, kind, data) ==
    CASE kind = "header_field" -> OnHeaderField(api, data)
      [] kind = "header_value" -> OnHeaderValue(api, data)
      [] OTHER -> [api EXCEPT !.msg[kind] = @ \o data]

OnMessageBegin(api) == ResetHeader([api EXCEPT !.msg = NewMessage])
OnChunkHeader(api) == ResetHeader(api)
OnChunkComplete(api) == TryAddCurrentHeader(api)
OnHeadersComplete(api) == TryAddCurrentHeader(api)

SecWebsocketKey == <<"sec", "-", "key">>
SecWebsocketAccept == <<"sec", "-", "accept">>

\* A request is handed to the callback unless it switches protocols; its
\* query parameters join those of the requests before it on this connection.
RequestComplete(api, upgrade, m, params) ==
    IF upgrade
    THEN [api EXCEPT !.msg = m, !.params = params,
                     !.handshake = Append(@, GetHeader(m.headers, SecWebsocketKey))]
    ELSE [api EXCEPT !.msg = m, !.params = params,
                     !.delivered = Append(@, [msg |-> m, params |-> params])]
OnRequestComplete(api, upgrade, method, version, keep_alive) ==
    RequestComplete(api, upgrade,
                    [api.msg EXCEPT !.method = method, !.version = version,
                                    !.keep_alive = keep_alive],
                    AddParams(api.params, api.msg.url))

\* A response reaches the callback twice, one that switches protocols once.
ResponseComplete(api, upgrade, m, d) ==
    IF upgrade
    THEN [api EXCEPT !.msg = NewMessage, !.delivered = Append(@, d),
                     !.handshake = Append(@, GetHeader(m.headers, SecWebsocketAccept))]
    ELSE [api EXCEPT !.msg = NewMessage, !.delivered = @ \o <<d, d>>]
Answered(api, upgrade, m) == ResponseComplete(api, upgrade, m, [msg |-> m, params |-> <<>>])
OnResponseComplete(api, upgrade, version, keep_alive) ==
    Answered(api, upgrade, [api.msg EXCEPT !.version = version, !.keep_alive = keep_alive])

-----------------------------------------------------------------------------
\* to_string: a message with a body gets a Content-Length; the headers are
\* written in the order of the map, which is no order of the message's.
ContentLength == <<"c", "o", "n", "t", "ent-", "length">>
Decimal[n \in Nat] == IF n < 10 THEN <<HexDigits[n + 1]>>
                       ELSE Append(Decimal[n \div 10], HexDigits[(n % 10) + 1])

WithLength(m) ==
    IF m.body = <<>> THEN m
    ELSE [m EXCEPT !.headers = AddHeader(@, ContentLength, Decimal[Len(m.body)])]
HeaderLines(headers, separator) ==
    FoldLeft(LAMBDA acc, n : acc \o n \o separator \o headers[n] \o <<CR, LF>>,
             <<>>, SetToSeq(DOMAIN headers))
HttpVersion(v) == <<"H", "T", "T", "P", "/", HexDigits[v[1] + 1], ".", HexDigits[v[2] + 1]>>

\* add_query_param: the query that is sent behind the URL.
AddQueryParam(query, key, val) ==
    (IF query = <<>> THEN <<>> ELSE Append(query, "&")) \o key \o <<"=">> \o val
RequestToString(m, query) ==
    Methods[m.method] \o <<SP>> \o m.url \o (IF query = <<>> THEN <<>> ELSE <<"?">> \o query)
        \o <<SP>> \o HttpVersion(m.version) \o <<CR, LF>>
        \o HeaderLines(WithLength(m).headers, <<":", SP>>) \o <<CR, LF>> \o m.body
ResponseToString(m, code) ==
    HttpVersion(m.version) \o <<SP>> \o Decimal[code] \o <<SP>> \o m.status \o <<CR, LF>>
        \o HeaderLines(WithLength(m).headers, <<":">>) \o <<CR, LF>> \o m.body
=============================================================================
