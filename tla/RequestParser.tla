---------------------------- MODULE RequestParser ----------------------------
(***************************************************************************)
(* The request_parser of http_server, http_server2 and http_server3, which *)
(* is the same code three times, with the bytes that parse() gives it one  *)
(* after the other, however they were split into buffers.  state_ is       *)
(* "valid" or "invalid" when parse() has returned true or false.           *)
(***************************************************************************)
EXTENDS RequestGrammar

CONSTANTS Bytes,   \* that may be received
          MaxOdd,  \* bound: how many bytes are not the usual ones
          Garbage  \* of an int without initializer

VARIABLES state,   \* state_
          request, \* req
          input,   \* what was received so far
          odd      \* how many bytes of it were not the usual ones

vars == <<state, request, input, odd>>

Init == /\ state = "method_start"
        /\ request = [method |-> <<>>, uri |-> <<>>,
                      major |-> Garbage, minor |-> Garbage, headers |-> <<>>]
        /\ input = <<>> /\ odd = 0

\* A parser is [state, req]; what it is after a byte:
Go(p, to) == [p EXCEPT !.state = to]
Reject(p) == Go(p, "invalid")

\* The states that expect one byte, and go to one state
Expected ==
  [http_version_h |-> <<"H", "http_version_t_1">>,
   http_version_t_1 |-> <<"T", "http_version_t_2">>,
   http_version_t_2 |-> <<"T", "http_version_p">>,
   http_version_p |-> <<"P", "http_version_slash">>,
   expecting_newline_1 |-> <<"LF", "header_line_start">>,
   space_before_header_value |-> <<"SP", "header_value">>,
   expecting_newline_2 |-> <<"LF", "header_line_start">>,
   expecting_newline_3 |-> <<"LF", "valid">>]

ConsumeMethodOrUri(p, c) ==
  CASE p.state \in {"method_start", "method"} /\ IsToken(c) ->
         [p EXCEPT !.state = "method", !.req.method = Append(@, c)]
    [] p.state = "method" /\ c = "SP" -> Go(p, "uri")
    [] p.state = "uri" /\ c = "SP" -> Go(p, "http_version_h")
    [] p.state = "uri" /\ c # "SP" /\ ~IsCtl(c) -> [p EXCEPT !.req.uri = Append(@, c)]
    [] OTHER -> Reject(p)

VersionUncleared(p, c) == \* mutant: no number is set to 0 first
  CASE p.state = "http_version_slash" /\ c = "/" -> Go(p, "http_version_major_start")
    [] p.state \in {"http_version_major_start", "http_version_major"} /\ IsDigit(c) ->
         [p EXCEPT !.state = "http_version_major", !.req.major = 10 * @ + Value(c)]
    [] p.state = "http_version_major" /\ c = "." -> Go(p, "http_version_minor_start")
    [] p.state \in {"http_version_minor_start", "http_version_minor"} /\ IsDigit(c) ->
         [p EXCEPT !.state = "http_version_minor", !.req.minor = 10 * @ + Value(c)]
    [] p.state = "http_version_minor" /\ c = "CR" -> Go(p, "expecting_newline_1")
    [] OTHER -> Reject(p)

ConsumeVersion(p, c) ==
  CASE p.state = "http_version_slash" /\ c = "/" ->
         [p EXCEPT !.state = "http_version_major_start", !.req.major = 0, !.req.minor = 0]
    [] p.state \in {"http_version_major_start", "http_version_major"} /\ IsDigit(c) ->
         [p EXCEPT !.state = "http_version_major", !.req.major = 10 * @ + Value(c)]
    [] p.state = "http_version_major" /\ c = "." -> Go(p, "http_version_minor_start")
    [] p.state \in {"http_version_minor_start", "http_version_minor"} /\ IsDigit(c) ->
         [p EXCEPT !.state = "http_version_minor", !.req.minor = 10 * @ + Value(c)]
    [] p.state = "http_version_minor" /\ c = "CR" -> Go(p, "expecting_newline_1")
    [] OTHER -> Reject(p)

AddToValue(p, c) == [p EXCEPT !.req.headers[Len(p.req.headers)].value = Append(@, c)]

ConsumeHeader(p, c) ==
  CASE p.state = "header_line_start" /\ c = "CR" -> Go(p, "expecting_newline_3")
    [] p.state = "header_line_start" /\ p.req.headers # <<>> /\ IsSpace(c) ->
         Go(p, "header_lws")
    [] p.state = "header_line_start" /\ IsToken(c) ->
         [p EXCEPT !.state = "header_name",
                   !.req.headers = Append(@, [name |-> <<c>>, value |-> <<>>])]
    [] p.state \in {"header_lws", "header_value"} /\ c = "CR" ->
         Go(p, "expecting_newline_2")
    [] p.state = "header_lws" /\ IsSpace(c) -> p
    [] p.state = "header_lws" /\ ~IsSpace(c) /\ ~IsCtl(c) ->
         AddToValue(Go(p, "header_value"), c)
    [] p.state = "header_name" /\ c = ":" -> Go(p, "space_before_header_value")
    [] p.state = "header_name" /\ IsToken(c) ->
         [p EXCEPT !.req.headers[Len(p.req.headers)].name = Append(@, c)]
    [] p.state = "header_value" /\ ~IsCtl(c) -> AddToValue(p, c)
    [] OTHER -> Reject(p)

Consume(p, c) ==
  CASE p.state \in DOMAIN Expected ->
         IF c = Expected[p.state][1] THEN Go(p, Expected[p.state][2]) ELSE Reject(p)
    [] p.state \in {"method_start", "method", "uri"} -> ConsumeMethodOrUri(p, c)
    [] p.state \in {"http_version_slash", "http_version_major_start", "http_version_major",
                    "http_version_minor_start", "http_version_minor"} -> ConsumeVersion(p, c)
    [] OTHER -> ConsumeHeader(p, c)

\* parse(): what follows the byte that made the request valid is left alone.
Parse(p, c) == IF p.state \in {"valid", "invalid"} THEN p ELSE Consume(p, c)

\* What a client usually sends next: one header, with a value of one byte
Usual(p) ==
  CASE p.state \in DOMAIN Expected -> Expected[p.state][1]
    [] p.state = "method_start" -> "a"
    [] p.state \in {"method", "uri"} -> "SP"
    [] p.state = "http_version_slash" -> "/"
    [] p.state \in {"http_version_major_start", "http_version_minor_start"} -> "1"
    [] p.state = "http_version_major" -> "."
    [] p.state = "header_line_start" /\ p.req.headers = <<>> -> "a"
    [] p.state = "header_name" -> ":"
    [] p.state = "header_value" /\ p.req.headers[Len(p.req.headers)].value = <<>> -> "a"
    [] OTHER -> "CR"

Parser == [state |-> state, req |-> request]

Feed(c) ==
  /\ state \notin {"valid", "invalid"}
  /\ c # Usual(Parser) => odd < MaxOdd
  /\ odd' = IF c = Usual(Parser) THEN odd ELSE odd + 1
  /\ input' = Append(input, c)
  /\ LET p == Parse(Parser, c)
     IN state' = p.state /\ request' = p.req

Next == \E c \in Bytes : Feed(c)

Spec == Init /\ [][Next]_vars

-----------------------------------------------------------------------------
(* Properties *)

IsValueChar(c) == ~IsCtl(c)

IsRequest(text) == /\ HeadEnd(text) = Len(text)
                   /\ AreLines(Lines(text), TRUE, IsValueChar)

\* Among them is one that completes each request that can be completed.
Endings == Suffixes(<<"a", "SP", "SP", "H", "T", "T", "P", "/", "1", ".", "1",
                      "CR", "LF", "CR", "LF">>)
             \cup {<<":", "SP", "CR", "LF", "CR", "LF">>}

\* "true when a complete request has been parsed, false if the data is invalid,
\* indeterminate when more data is required" (request_parser.hpp:32-34): true
\* is said of requests only, with the fields they have; false when nothing that
\* follows can make a request; and otherwise something can.
VerdictIsRight ==
  CASE state = "valid" -> IsRequest(input) /\ request = RequestOf(Lines(input))
    [] state = "invalid" -> \A w \in Endings : ~IsRequest(input \o w)
    [] OTHER -> \E w \in Endings : IsRequest(input \o w)
==============================================================================
