------------------------------ MODULE UrlForms ------------------------------
(***************************************************************************)
(* What http_url_info finds in the URLs that http_parser_execute let       *)
(* through: the URL is walked twice, by two loops over parse_url_char.     *)
(***************************************************************************)
EXTENDS HttpCuts

\* The URL of a request that was delivered.
ReadUrls == IF running \/ api.delivered = <<>> \/ input.type # "HTTP_REQUEST" THEN {}
            ELSE {Last(api.delivered).msg.url}

Order == <<"schema", "userinfo", "host", "port", "path", "query", "fragment">>
Before(f, g) == \E i, j \in DOMAIN Order : i < j /\ Order[i] = f /\ Order[j] = g
Span(u, f) == (u.off[f] + 1)..(u.off[f] + u.len[f])

(* The fields that http_parser_parse_url reports lie within the URL, follow
   each other in the order of the grammar and do not overlap, and what they
   leave out is delimiters only: http_url_info loses no part of a URL that is
   accepted (lines 2739-2795, 2642-2699) while its length fits uint16_t.  A
   path that the parser let through is always accepted. *)
FieldsCoverTheUrl ==
    \A url \in ReadUrls :
        LET u == ParseUrl(url, FALSE)
        IN Len(url) < OffsetMod =>
            /\ u.err => url[1] \notin {"/", "*"}
            /\ \A f \in u.set : u.len[f] > 0 /\ Span(u, f) \subseteq DOMAIN url
            /\ \A f, g \in u.set :
                   Before(f, g) => \A i \in Span(u, f), j \in Span(u, g) : i < j
            /\ ~u.err => \A i \in DOMAIN url :
                   \/ \E f \in u.set : i \in Span(u, f)
                   \/ url[i] \in {":", "/", "@", "?", "#", "[", "]"}

(* What follows the first question mark and precedes the fragment is the
   query, whole: later question marks belong to it (line 990). *)
QueryRunsToTheFragment ==
    \A url \in ReadUrls :
        LET u == ParseUrl(url, FALSE)
            Chars(c) == {i \in DOMAIN url : url[i] = c}
            hash == IF Chars("#") = {} THEN Len(url) + 1
                    ELSE CHOOSE i \in Chars("#") : \A j \in Chars("#") : i <= j
            q == {i \in Chars("?") : i < hash}
        IN ~u.err /\ Len(url) < OffsetMod =>
               FieldOf(url, u, "query") =
                   IF q = {} THEN <<>>
                   ELSE SubSeq(url, (CHOOSE i \in q : \A j \in q : i <= j) + 1, hash - 1)

(* http_url_info tells the parts of every accepted URL apart as the grammar
   does: no part is lost, and the query is whole. *)
UrlIsSplitRight == FieldsCoverTheUrl /\ QueryRunsToTheFragment
=============================================================================
