--------------------------- MODULE RequestHandler ---------------------------
(***************************************************************************)
(* request_handler of the HTTP servers (file_handler of http_server4): the *)
(* uri of a request becomes the path of a file below doc_root_.            *)
(*                                                                         *)
(* A character is "/", ".", "%", "+", one of the digits that spell the     *)
(* first two, "F", or "x" for all others; what else can be decoded is      *)
(* "other".  "index.html" is one character of a path, with its extension.  *)
(***************************************************************************)
EXTENDS Naturals, Sequences, SequencesExt

CONSTANT MaxUri \* bound: of the length of a uri and of a path

VARIABLES uri,
          meant,  \* auxiliary: the path that the client has spelt, if it has
          exists, \* the file can be opened
          reply   \* status, path and extension; "none" before it is handled

vars == <<uri, meant, exists, reply>>

Chars == {"/", ".", "%", "+", "2", "E", "F", "x"}
Nothing == <<"none">>

\* The spellings of a character of a path, and of a path.
Spellings(c) == CASE c = "/" -> {<<"/">>, <<"%", "2", "F">>}
                  [] c = "." -> {<<".">>, <<"%", "2", "E">>}
                  [] c = " " -> {<<"+">>}
                  [] OTHER -> {<<c>>}
Spelt(path) ==
  LET texts[n \in 0 .. Len(path)] ==
        IF n = 0 THEN {<<>>} ELSE {t \o s : t \in texts[n - 1], s \in Spellings(path[n])}
  IN texts[Len(path)]

NoReply == [status |-> "none", path |-> <<>>, extension |-> <<>>]
Stock(status) == [NoReply EXCEPT !.status = status]

Init == /\ \/ uri \in BoundedSeq(Chars, MaxUri) /\ meant = Nothing
           \/ /\ meant \in BoundedSeq({"/", ".", " ", "x"}, MaxUri)
              /\ uri \in Spelt(meant)
        /\ exists \in BOOLEAN
        /\ reply = NoReply

-----------------------------------------------------------------------------
(* url_decode() *)

IsHex(c) == c \in {"2", "E", "F"}

\* `is >> hex >> value` on two characters: a number needs one digit, may have a
\* sign, and what follows it is not looked at.
Converts(c, d) == IsHex(c) \/ (c = "+" /\ IsHex(d))

Byte(c, d) == CASE c = "2" /\ d = "F" -> "/"
                [] c = "2" /\ d = "E" -> "."
                [] OTHER -> "other"

\* The text from i on, [ok, out]; the loop of url_decode() from its end.
url_decode(in) ==
  LET Prepend(c, rest) == [rest EXCEPT !.out = <<c>> \o @]
      decode[i \in 1 .. Len(in) + 3] ==
        IF i > Len(in) THEN [ok |-> TRUE, out |-> <<>>]
        ELSE IF in[i] = "%"
        THEN IF i + 2 <= Len(in) /\ Converts(in[i + 1], in[i + 2])
             THEN Prepend(Byte(in[i + 1], in[i + 2]), decode[i + 3])
             ELSE [ok |-> FALSE, out |-> <<>>]
        ELSE Prepend(IF in[i] = "+" THEN " " ELSE in[i], decode[i + 1])
  IN decode[1]

-----------------------------------------------------------------------------
(* handle_request() *)

FindTwoDots(path) == \E i \in 1 .. Len(path) - 1 : path[i] = "." /\ path[i + 1] = "."

FindLast(c, path) == SelectLastInSeq(path, LAMBDA d : d = c)

AfterTheDot(path) == \* mutant: a dot in a directory counts
  IF Last(path) = "index.html" THEN <<"html">>
  ELSE IF FindLast(".", path) > 0
  THEN SubSeq(path, FindLast(".", path) + 1, Len(path))
  ELSE <<>>

Extension(path) ==
  IF Last(path) = "index.html" THEN <<"html">>
  ELSE IF FindLast(".", path) > FindLast("/", path)
  THEN SubSeq(path, FindLast(".", path) + 1, Len(path))
  ELSE <<>>

AddIndex(path) == IF Last(path) = "/" THEN path \o <<"index.html">> ELSE path

HandleUndecoded == \* mutant: the uri is tested before it is decoded
  /\ reply = NoReply
  /\ LET decoded == url_decode(uri)
         path == AddIndex(decoded.out)
     IN reply' = IF ~decoded.ok \/ uri = <<>> \/ uri[1] # "/" \/ FindTwoDots(uri)
                 THEN Stock("bad_request")
                 ELSE IF ~exists THEN Stock("not_found")
                 ELSE [status |-> "ok", path |-> path, extension |-> Extension(path)]
  /\ UNCHANGED <<uri, meant, exists>>

HandleRequest ==
  /\ reply = NoReply
  /\ LET decoded == url_decode(uri)
         path == AddIndex(decoded.out)
     IN reply' = IF \/ ~decoded.ok \/ decoded.out = <<>>
                    \/ decoded.out[1] # "/" \/ FindTwoDots(decoded.out)
                 THEN Stock("bad_request")
                 ELSE IF ~exists THEN Stock("not_found")
                 ELSE [status |-> "ok", path |-> path, extension |-> Extension(path)]
  /\ UNCHANGED <<uri, meant, exists>>

Next == HandleRequest

Spec == Init /\ [][Next]_vars

-----------------------------------------------------------------------------
(* Properties *)

\* However the characters of a path are spelt, the file that is opened is the
\* one it names, with the index for a directory; a path that is not absolute, or
\* has two dots, is refused.  An extension is of the last part of the path.
ReplyIsRight ==
  /\ meant # Nothing /\ reply # NoReply =>
       /\ (meant = <<>> \/ meant[1] # "/" \/ FindTwoDots(meant))
            <=> reply.status = "bad_request"
       /\ reply.status = "ok" =>
            reply.path = meant \o (IF Last(meant) = "/" THEN <<"index.html">> ELSE <<>>)
  /\ \A i \in DOMAIN reply.extension : reply.extension[i] \notin {"/", "."}
==============================================================================
