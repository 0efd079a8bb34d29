------------------------------ MODULE HttpUrl ------------------------------
(***************************************************************************)
(* http_parser_parse_url: the fields of a URL, found by running            *)
(* parse_url_char over it and then http_parse_host_char over the host, and *)
(* what http_url_info and parse_url_info make of them.  The algorithms are *)
(* folds over the symbols of the URL.                                      *)
(***************************************************************************)
EXTENDS HttpSyntax, FiniteSets, SequencesExt

CONSTANTS OffsetMod,   \* offsets and lengths of fields are uint16_t: 2^16
          MaxPort      \* 0xffff

FieldNames == {"schema", "host", "port", "path", "query", "fragment", "userinfo"}
NoUrl == [err |-> TRUE, set |-> {}, off |-> [f \in FieldNames |-> 0],
          len |-> [f \in FieldNames |-> 0], port |-> 0]

\* Mutant: the offset is that of the next character.
StartField_OffByOne(u, f, i, n) ==
    [u EXCEPT !.set = @ \cup {f}, !.off[f] = (i + 1) % OffsetMod, !.len[f] = n]
\* A field starts at offset i with n characters, or grows by one.
StartField(u, f, i, n) ==
    [u EXCEPT !.set = @ \cup {f}, !.off[f] = i % OffsetMod, !.len[f] = n]
GrowField(u, f) == [u EXCEPT !.len[f] = (@ + 1) % OffsetMod]

-----------------------------------------------------------------------------
HostStep(s, ch) ==
    CASE s \in {"userinfo_start", "userinfo"} /\ ch = "@" -> "host_start"
      [] s \in {"userinfo_start", "userinfo"} /\ IsUserinfoChar(ch) -> "userinfo"
      [] s = "host_start" /\ ch = "[" -> "v6_start"
      [] s \in {"host_start", "host"} /\ IsHostChar(ch) -> "host"
      [] s \in {"host", "v6_end"} /\ ch = ":" -> "port_start"
      [] s \in {"v6", "v6_zone"} /\ ch = "]" -> "v6_end"
      [] s \in {"v6", "v6_start"} /\ (IsHex(ch) \/ ch \in {":", "."}) -> "v6"
      [] s = "v6" /\ ch = "%" -> "v6_zone_start"
      [] s \in {"v6_zone_start", "v6_zone"}
            /\ (IsHostChar(ch) \/ ch = "%") -> "v6_zone"
      [] s \in {"port_start", "port"} /\ IsNum(ch) -> "port"
      [] OTHER -> "dead"

\* The field a state of HostStep writes to.
HostField == [userinfo |-> "userinfo", host |-> "host", v6 |-> "host",
              v6_zone_start |-> "host", v6_zone |-> "host", port |-> "port"]

\* The host parser is in state `new' after the symbol at offset i.
HostWrite(acc, new, f, i) ==
    [s |-> new,
     u |-> IF new = acc.s \/ new \in {"v6_zone_start", "v6_zone"} THEN GrowField(acc.u, f)
           ELSE StartField(acc.u, f, i, IF f = "host" THEN acc.u.len[f] + 1 ELSE 1)]
HostMove(acc, new, i) ==
    IF new \in DOMAIN HostField THEN HostWrite(acc, new, HostField[new], i)
    ELSE [acc EXCEPT !.s = new]
HostChar(input, acc, i) ==
    IF acc.s = "dead" THEN acc ELSE HostMove(acc, HostStep(acc.s, input[i + 1]), i)

HostEnd(r) == [r.u EXCEPT !.err = r.s \notin {"host", "v6_end", "port"}]
ParseHost(input, u, found_at) ==
    HostEnd(FoldLeft(LAMBDA acc, i : HostChar(input, acc, i),
                     [s |-> IF found_at THEN "userinfo_start" ELSE "host_start",
                      u |-> [u EXCEPT !.len["host"] = 0]],
                     [k \in 1..u.len["host"] |-> u.off["host"] + k - 1]))

-----------------------------------------------------------------------------
\* The field a state of ParseUrlChar belongs to; the other states are delimiters.
UrlField == [s_req_schema |-> "schema", s_req_server_with_at |-> "host",
             s_req_server |-> "host", s_req_path |-> "path",
             s_req_query_string |-> "query", s_req_fragment |-> "fragment"]

UrlWrite(acc, s, f) ==
    [s |-> s, i |-> acc.i + 1, old_uf |-> f,
     found_at |-> acc.found_at \/ s = "s_req_server_with_at",
     u |-> IF f = acc.old_uf THEN GrowField(acc.u, f) ELSE StartField(acc.u, f, acc.i, 1)]
UrlMove(acc, s) ==
    IF s \in DOMAIN UrlField THEN UrlWrite(acc, s, UrlField[s])
    ELSE [acc EXCEPT !.s = s, !.i = @ + 1]
UrlChar(acc, ch) == IF acc.s = "s_dead" THEN acc ELSE UrlMove(acc, ParseUrlChar(acc.s, ch))

\* v stops growing at the first prefix that is too large.
PortOf(input, u) ==
    FoldLeft(LAMBDA v, ch : IF v > MaxPort THEN v ELSE 10 * v + Unhex(ch),
             0, SubSeq(input, u.off["port"] + 1, u.off["port"] + u.len["port"]))

CheckPort(u, v) == IF "port" \notin u.set THEN u
                   ELSE IF v > MaxPort THEN NoUrl ELSE [u EXCEPT !.port = v]
CheckHost(input, is_connect, u) ==
    IF u.err \/ (is_connect /\ u.set # {"host", "port"}) THEN NoUrl
    ELSE CheckPort(u, IF "port" \in u.set THEN PortOf(input, u) ELSE 0)
CheckFields(input, is_connect, r) ==
    IF r.s = "s_dead" \/ ("schema" \in r.u.set /\ "host" \notin r.u.set) THEN NoUrl
    ELSE CheckHost(input, is_connect,
                   IF "host" \in r.u.set THEN ParseHost(input, r.u, r.found_at) ELSE r.u)
ParseUrl(input, is_connect) ==
    IF input = <<>> THEN NoUrl
    ELSE CheckFields(input, is_connect,
             FoldLeft(UrlChar,
                      [s |-> IF is_connect THEN "s_req_server_start"
                             ELSE "s_req_spaces_before_url",
                       i |-> 0, old_uf |-> "none", found_at |-> FALSE,
                       u |-> [NoUrl EXCEPT !.err = FALSE]],
                      input))

\* Mutant: the last symbol is left out.
FieldOf_OffByOne(input, u, f) ==
    IF f \in u.set THEN SubSeq(input, u.off[f] + 1, u.off[f] + u.len[f] - 1) ELSE <<>>
\* http_url_info::parse: a field that the URL has; the others stay empty.
FieldOf(input, u, f) ==
    IF f \in u.set THEN SubSeq(input, u.off[f] + 1, u.off[f] + u.len[f]) ELSE <<>>

\* getline: the pieces of s between occurrences of d.
SplitAt(s, d) ==
    FoldLeft(LAMBDA acc, ch : IF ch = d THEN Append(acc, <<>>)
                              ELSE [acc EXCEPT ![Len(acc)] = Append(@, ch)],
             << <<>> >>, s)

\* parse_url_info: the query's parameters, added to those that are there; a
\* later value for a key replaces an earlier one, an empty key is skipped.
PutParam(params, kv) ==
    IF kv[1] = <<>> THEN params
    ELSE [k \in DOMAIN params \cup {kv[1]} |->
             IF k # kv[1] THEN params[k] ELSE IF Len(kv) > 1 THEN kv[2] ELSE <<>>]
AddParams(params, input) ==
    FoldLeft(LAMBDA acc, piece : PutParam(acc, SplitAt(piece, "=")), params,
             SplitAt(FieldOf(input, ParseUrl(input, FALSE), "query"), "&"))
=============================================================================
