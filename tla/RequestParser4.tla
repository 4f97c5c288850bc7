--------------------------- MODULE RequestParser4 ---------------------------
(***************************************************************************)
(* The request_parser of http_server4, a coroutine: a state is where it    *)
(* goes on with the next byte, and "valid" or "invalid" when parse() has   *)
(* returned true or false.  Unlike the others it wants a uri, takes only   *)
(* bytes below 128 in values, and reads the content.                       *)
(***************************************************************************)
EXTENDS RequestGrammar

CONSTANTS Bytes,   \* that may be received
          MaxOdd,  \* bound: how many bytes are not the usual ones
          Garbage  \* of an int without initializer

VARIABLES state,   \* where the coroutine is
          request, \* req
          length,  \* content_length_
          input,   \* what was received so far
          odd      \* how many bytes of it were not the usual ones

vars == <<state, request, length, input, odd>>

Init == /\ state = "method"
        /\ request = [method |-> <<>>, uri |-> <<>>, major |-> Garbage,
                      minor |-> Garbage, headers |-> <<>>, content |-> <<>>]
        /\ length = Garbage
        /\ input = <<>> /\ odd = 0

\* A parser is [state, req, length]; what it is after a byte:
Go(p, to) == [p EXCEPT !.state = to]
Reject(p) == Go(p, "invalid")

\* The states that expect one byte, and go to one state
Expected ==
  [h |-> <<"H", "t1">>, t1 |-> <<"T", "t2">>, t2 |-> <<"T", "p">>, p |-> <<"P", "slash">>,
   slash |-> <<"/", "major_start">>, newline1 |-> <<"LF", "line">>,
   space |-> <<"SP", "value">>, newline2 |-> <<"LF", "line">>]

\* The first byte comes with everything cleared.
Clear(p) == IF p.req.method # <<>> \/ p.state # "method" THEN p
            ELSE [p EXCEPT !.req.major = 0, !.req.minor = 0, !.length = 0]

ConsumeMethodOrUri(p, c) ==
  CASE p.state = "method" /\ IsToken(c) -> [p EXCEPT !.req.method = Append(@, c)]
    [] p.state = "method" /\ p.req.method # <<>> /\ c = "SP" -> Go(p, "uri")
    [] p.state = "uri" /\ ~IsCtl(c) /\ c # "SP" -> [p EXCEPT !.req.uri = Append(@, c)]
    [] p.state = "uri" /\ p.req.uri # <<>> /\ c = "SP" -> Go(p, "h")
    [] OTHER -> Reject(p)

ConsumeVersion(p, c) ==
  CASE p.state \in {"major_start", "major"} /\ IsDigit(c) ->
         [p EXCEPT !.state = "major", !.req.major = 10 * @ + Value(c)]
    [] p.state = "major" /\ c = "." -> Go(p, "minor_start")
    [] p.state \in {"minor_start", "minor"} /\ IsDigit(c) ->
         [p EXCEPT !.state = "minor", !.req.minor = 10 * @ + Value(c)]
    [] p.state = "minor" /\ c = "CR" -> Go(p, "newline1")
    [] OTHER -> Reject(p)

IsValueChar(c) == IsChar(c) /\ ~IsCtl(c)

ConsumeHeader(p, c) ==
  LET last == Len(p.req.headers)
  IN CASE p.state = "line" /\ IsSpace(c) /\ last > 0 -> Go(p, "lws")
       [] p.state = "lws" /\ IsSpace(c) -> p
       [] p.state = "line" /\ IsToken(c) ->
            [p EXCEPT !.state = "name",
                      !.req.headers = Append(@, [name |-> <<c>>, value |-> <<>>])]
       [] p.state = "name" /\ IsToken(c) ->
            [p EXCEPT !.req.headers[last].name = Append(@, c)]
       [] p.state = "name" /\ c = ":" -> Go(p, "space")
       [] \/ p.state = "value" /\ IsValueChar(c)
          \/ p.state = "lws" /\ IsValueChar(c) /\ ~IsSpace(c) ->
            [p EXCEPT !.state = "value", !.req.headers[last].value = Append(@, c)]
       [] p.state \in {"lws", "value"} /\ c = "CR" -> Go(p, "newline2")
       [] p.state = "line" /\ c = "CR" -> Go(p, "newline3")
       [] OTHER -> Reject(p)

\* The last header of this name counts, and none may be wrong.
Lengths(headers) ==
  LET named == SelectSeq(headers, LAMBDA h : h.name = <<"L">>)
  IN [k \in DOMAIN named |-> LexicalCast(named[k].value)]

DoneLate(p) == \* mutant: <= for <
  IF Len(p.req.content) <= p.length THEN Go(p, "content") ELSE Go(p, "valid")

Done(p) == IF Len(p.req.content) < p.length THEN Go(p, "content") ELSE Go(p, "valid")

ConsumeEnd(p, c) ==
  LET lengths == Lengths(p.req.headers)
  IN CASE p.state = "newline3" /\ c = "LF" /\ lengths = <<>> -> Done(p)
       [] p.state = "newline3" /\ c = "LF" /\ lengths # <<>> /\ -1 \notin ToSet(lengths) ->
            Done([p EXCEPT !.length = lengths[Len(lengths)]])
       [] p.state = "content" -> Done([p EXCEPT !.req.content = Append(@, c)])
       [] OTHER -> Reject(p)

Consume(p, c) ==
  CASE p.state \in DOMAIN Expected ->
         IF c = Expected[p.state][1] THEN Go(p, Expected[p.state][2]) ELSE Reject(p)
    [] p.state \in {"method", "uri"} -> ConsumeMethodOrUri(Clear(p), c)
    [] p.state \in {"major_start", "major", "minor_start", "minor"} -> ConsumeVersion(p, c)
    [] p.state \in {"newline3", "content"} -> ConsumeEnd(p, c)
    [] OTHER -> ConsumeHeader(p, c)

\* What a client usually sends next: one header, with a value of one byte
Usual(p) ==
  CASE p.state \in DOMAIN Expected -> Expected[p.state][1]
    [] p.state = "method" -> IF p.req.method = <<>> THEN "a" ELSE "SP"
    [] p.state = "uri" -> IF p.req.uri = <<>> THEN "/" ELSE "SP"
    [] p.state \in {"major_start", "minor_start"} -> "1"
    [] p.state = "major" -> "."
    [] p.state = "line" /\ p.req.headers = <<>> -> "L"
    [] p.state = "name" -> ":"
    [] p.state = "value" /\ p.req.headers[Len(p.req.headers)].value = <<>> -> "1"
    [] p.state = "newline3" -> "LF"
    [] p.state = "content" -> "a"
    [] OTHER -> "CR"

Parser == [state |-> state, req |-> request, length |-> length]

Feed(c) ==
  /\ state \notin {"valid", "invalid"}
  /\ c # Usual(Parser) => odd < MaxOdd
  /\ odd' = IF c = Usual(Parser) THEN odd ELSE odd + 1
  /\ input' = Append(input, c)
  /\ LET p == Consume(Parser, c)
     IN state' = p.state /\ request' = p.req /\ length' = p.length

Next == \E c \in Bytes : Feed(c)

Spec == Init /\ [][Next]_vars

-----------------------------------------------------------------------------
(* Properties *)

ContentOf(text) == From(text, HeadEnd(text) + 1)

\* The content is as long as the last Content-Length says, or empty.
IsRequest(text) ==
  LET lines == Lines(text)
      stated == Lengths(HeadersOf(lines))
  IN /\ HeadEnd(text) > 0
     /\ AreLines(lines, FALSE, IsValueChar)
     /\ -1 \notin ToSet(stated)
     /\ Len(ContentOf(text)) = IF stated = <<>> THEN 0 ELSE stated[Len(stated)]

Fields == [f \in DOMAIN request \ {"content"} |-> request[f]]

Endings ==
  LET whole == <<"a", "SP", "/", "SP", "H", "T", "T", "P", "/", "1", ".", "1",
                 "CR", "LF", "CR", "LF">>
      header == <<":", "SP", "CR", "LF", "CR", "LF">>
  IN Suffixes(whole)
       \cup {w \o [k \in 1 .. n |-> "a"] : w \in Suffixes(header), n \in 0 .. SizeMax}

\* A Content-Length that cannot be read is noticed only after the headers.
LengthIsWrong == -1 \in ToSet(Lengths(request.headers))

\* "true when a complete request has been parsed, false if the data is invalid,
\* indeterminate when more data is required" (request_parser.hpp:30-32), as
\* for the other parser, and the content is what Content-Length says.
VerdictIsRight ==
  CASE state = "valid" -> /\ IsRequest(input)
                          /\ Fields = RequestOf(Lines(input))
                          /\ request.content = ContentOf(input)
    [] state = "invalid" -> \A w \in Endings : ~IsRequest(input \o w)
    [] OTHER -> LengthIsWrong \/ \E w \in Endings : IsRequest(input \o w)
==============================================================================
