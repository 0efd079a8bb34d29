----------------------------- MODULE HttpSyntax -----------------------------
(***************************************************************************)
(* Characters, states and tables of net/http/http_parser.h.                *)
(*                                                                         *)
(* A symbol is one character, or a run of characters in the middle of a    *)
(* word that the parser only compares (the "lo" and the "se" of "close"): a    *)
(* buffer may still end in the middle of every word.  States and header    *)
(* states have the names of the source.                                    *)
(***************************************************************************)
EXTENDS Naturals, Sequences

CR == "CR"
LF == "LF"
SP == "SP"

HexDigits == <<"0", "1", "2", "3", "4", "5", "6", "7", "8", "9",
               "a", "b", "c", "d", "e", "f">>
IsNum(ch) == ch \in {"0", "1", "2", "3", "4", "5", "6", "7", "8", "9"}
IsHex(ch) == IsNum(ch) \/ ch \in {"a", "b", "c", "d", "e", "f"}
Unhex(ch) == (CHOOSE i \in DOMAIN HexDigits : HexDigits[i] = ch) - 1

\* The words that the parser looks for, in symbols.
Methods == [GET |-> <<"G", "E", "T">>, HEAD |-> <<"H", "E", "A", "D">>,
            POST |-> <<"P", "O", "S", "T">>, PUT |-> <<"P", "U", "T">>,
            CONNECT |-> <<"C", "O", "NNECT">>]
Words ==
    [h_matching_connection |-> <<"c", "o", "n", "n", "ec", "tion">>,
     h_matching_proxy_connection |-> <<"p", "roxy-", "connection">>,
     h_matching_content_length |-> <<"c", "o", "n", "t", "ent-", "length">>,
     h_matching_transfer_encoding |-> <<"t", "ransfer-", "encoding">>,
     h_matching_upgrade |-> <<"u", "pgr", "ade">>,
     h_matching_transfer_encoding_chunked |-> <<"c", "hunk", "ed">>,
     h_matching_connection_keep_alive |-> <<"k", "eep-", "alive">>,
     h_matching_connection_close |-> <<"c", "lo", "se">>,
     h_matching_connection_upgrade |-> <<"u", "pgr", "ade">>]
\* The header state that a word leads to once it is complete.
Matched ==
    [h_matching_connection |-> "h_connection",
     h_matching_proxy_connection |-> "h_connection",
     h_matching_content_length |-> "h_content_length",
     h_matching_transfer_encoding |-> "h_transfer_encoding",
     h_matching_upgrade |-> "h_upgrade",
     h_matching_transfer_encoding_chunked |-> "h_transfer_encoding_chunked",
     h_matching_connection_keep_alive |-> "h_connection_keep_alive",
     h_matching_connection_close |-> "h_connection_close",
     h_matching_connection_upgrade |-> "h_connection_upgrade"]

\* Letters, and the runs of letters of the words above and of other headers.
Alpha == {"a", "b", "c", "d", "e", "f", "k", "n", "o", "p", "s", "t", "u", "w", "x", "y",
          "z", "A", "C", "D", "E", "G", "H", "O", "P", "S", "T", "U", "K", "NNECT", "ec",
          "tion", "connection", "length", "encoding", "pgr", "ade", "hunk", "ed",
          "alive", "lo", "se", "sec", "key", "accept"}
IsAlpha(ch) == ch \in Alpha
TOKEN(ch) == IsAlpha(ch) \/ IsNum(ch) \/ ch \in {"-", ".", "roxy-", "ent-", "ransfer-", "eep-"}
IsUserinfoChar(ch) == TOKEN(ch) \/ ch \in {":", "&", "=", ",", ";", "%"}
IsUrlChar(ch) == IsUserinfoChar(ch) \/ ch \in {"/", "@", "*", "[", "]"}
IsHostChar(ch) == IsAlpha(ch) \/ IsNum(ch) \/ ch \in {".", "-"}
IsHeaderChar(ch) == ch # "NUL"

\* States beyond s_headers_done, whose characters do not count as header.
BodyStates == {"s_chunk_data", "s_chunk_data_almost_done", "s_chunk_data_done",
               "s_body_identity", "s_body_identity_eof", "s_message_done"}
UrlStates == {"s_req_path", "s_req_schema", "s_req_schema_slash",
              "s_req_schema_slash_slash", "s_req_server_start", "s_req_server",
              "s_req_server_with_at", "s_req_query_string_start",
              "s_req_query_string", "s_req_fragment_start", "s_req_fragment"}

\* parse_url_char: the state after one more character of a URL.
ParseUrlChar(s, ch) ==
    CASE ch \in {SP, CR, LF, "TAB"} -> "s_dead"
      [] s = "s_req_spaces_before_url" /\ ch \in {"/", "*"} -> "s_req_path"
      [] s = "s_req_spaces_before_url" /\ IsAlpha(ch) -> "s_req_schema"
      [] s = "s_req_schema" /\ IsAlpha(ch) -> s
      [] s = "s_req_schema" /\ ch = ":" -> "s_req_schema_slash"
      [] s = "s_req_schema_slash" /\ ch = "/" -> "s_req_schema_slash_slash"
      [] s = "s_req_schema_slash_slash" /\ ch = "/" -> "s_req_server_start"
      [] s = "s_req_server_with_at" /\ ch = "@" -> "s_dead"
      [] s \in {"s_req_server_start", "s_req_server", "s_req_server_with_at"} ->
           (CASE ch = "/" -> "s_req_path"
              [] ch = "?" -> "s_req_query_string_start"
              [] ch = "@" -> "s_req_server_with_at"
              [] IsUserinfoChar(ch) \/ ch \in {"[", "]"} -> "s_req_server"
              [] OTHER -> "s_dead")
      [] s = "s_req_path" ->
           (CASE IsUrlChar(ch) -> s
              [] ch = "?" -> "s_req_query_string_start"
              [] ch = "#" -> "s_req_fragment_start"
              [] OTHER -> "s_dead")
      [] s \in {"s_req_query_string_start", "s_req_query_string"} ->
           (CASE IsUrlChar(ch) \/ ch = "?" -> "s_req_query_string"
              [] ch = "#" -> "s_req_fragment_start"
              [] OTHER -> "s_dead")
      [] s = "s_req_fragment_start" ->
           (CASE IsUrlChar(ch) \/ ch = "?" -> "s_req_fragment"
              [] ch = "#" -> s
              [] OTHER -> "s_dead")
      [] s = "s_req_fragment" /\ (IsUrlChar(ch) \/ ch \in {"?", "#"}) -> s
      [] OTHER -> "s_dead"
=============================================================================
