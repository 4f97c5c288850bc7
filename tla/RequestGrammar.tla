--------------------------- MODULE RequestGrammar ---------------------------
(***************************************************************************)
(* What the request parsers of the HTTP servers are checked against: the   *)
(* requests as texts.  A text is a sequence of bytes.  "SP", "HT", "CR",   *)
(* "LF", "ctl" (any other control character) and "high" (any above 127)    *)
(* are bytes that have no letter, and the header name "L" stands for       *)
(* Content-Length.                                                         *)
(***************************************************************************)
EXTENDS Integers, Sequences, SequencesExt

CONSTANT SizeMax \* of a std::size_t

(* The classes of bytes; char is signed, so that "high" is negative *)

IsChar(c) == c # "high"
IsCtl(c) == c \in {"CR", "LF", "HT", "ctl"}
IsTspecial(c) == c \in {"(", ")", "<", ">", "@", ",", ";", ":", "\\", "\"",
                        "/", "[", "]", "?", "=", "{", "}", "SP", "HT"}
Digit(n) == ToString(n)
IsDigit(c) == \E n \in 0 .. 9 : c = Digit(n)

IsToken(c) == IsChar(c) /\ ~IsCtl(c) /\ ~IsTspecial(c)

Value(c) == CHOOSE n \in 0 .. 9 : c = Digit(n)
Number(s) == FoldLeft(LAMBDA n, c : 10 * n + Value(c), 0, s)

All(s, Is(_)) == \A i \in DOMAIN s : Is(s[i])
IsNumber(s) == s # <<>> /\ All(s, IsDigit)

\* boost::lexical_cast<std::size_t>: an optional sign and digits; after a minus
\* the number is taken from 0, as unsigned numbers are.  -1 is bad_lexical_cast.
LexicalCast(s) ==
  LET signed == s # <<>> /\ s[1] \in {"+", "-"}
      digits == IF signed THEN Tail(s) ELSE s
  IN IF ~IsNumber(digits) \/ Number(digits) > SizeMax THEN -1
     ELSE IF signed /\ s[1] = "-" THEN (SizeMax + 1 - Number(digits)) % (SizeMax + 1)
     ELSE Number(digits)

-----------------------------------------------------------------------------
(* Lines *)

From(s, i) == SubSeq(s, i, Len(s))
Upto(s, i) == SubSeq(s, 1, i - 1) \* without the byte at i

LineEnds(text) == {n \in 2 .. Len(text) : text[n - 1] = "CR" /\ text[n] = "LF"}

\* Where the first empty line ends, or 0
HeadEnd(text) ==
  LET empty == {n \in LineEnds(text) : n - 2 \in LineEnds(text) \cup {0}}
  IN IF empty = {} THEN 0 ELSE Min(empty)

\* The lines before the empty one, without what ends them
Lines(text) ==
  LET ends == SetToSortSeq({n \in LineEnds(text) : n < HeadEnd(text)}, <)
  IN [k \in DOMAIN ends |->
        SubSeq(text, IF k = 1 THEN 1 ELSE ends[k - 1] + 1, ends[k] - 2)]

IsVersion(s) ==
  /\ IsPrefix(<<"H", "T", "T", "P", "/">>, s)
  /\ \E dot \in DOMAIN s : /\ s[dot] = "."
                           /\ IsNumber(SubSeq(s, 6, dot - 1))
                           /\ IsNumber(From(s, dot + 1))

\* Method, uri and version, with a space between; uri may be empty or not.
IsRequestLine(s, emptyUri) ==
  \E i, j \in DOMAIN s :
    /\ i < j /\ s[i] = "SP" /\ s[j] = "SP"
    /\ i > 1 /\ All(Upto(s, i), IsToken)
    /\ (emptyUri \/ i + 1 < j)
    /\ All(SubSeq(s, i + 1, j - 1), LAMBDA c : ~IsCtl(c) /\ c # "SP")
    /\ IsVersion(From(s, j + 1))

IsHeaderLine(s, IsValueChar(_)) ==
  \E colon \in DOMAIN s :
    /\ s[colon] = ":" /\ colon > 1 /\ All(Upto(s, colon), IsToken)
    /\ colon < Len(s) /\ s[colon + 1] = "SP"
    /\ All(From(s, colon + 2), IsValueChar)

IsSpace(c) == c \in {"SP", "HT"}

\* Where the spaces that begin s end
Indent(s) ==
  LET others == {i \in DOMAIN s : ~IsSpace(s[i])}
  IN IF others = {} THEN Len(s) ELSE Min(others) - 1

IsContinuation(s, IsValueChar(_)) ==
  Indent(s) > 0 /\ All(From(s, Indent(s) + 1), IsValueChar)

\* The lines are those of a request.
AreLines(lines, emptyUri, IsValueChar(_)) ==
  /\ lines # <<>> /\ IsRequestLine(lines[1], emptyUri)
  /\ \A k \in 2 .. Len(lines) :
       \/ IsHeaderLine(lines[k], IsValueChar)
       \/ k > 2 /\ IsContinuation(lines[k], IsValueChar)

-----------------------------------------------------------------------------
(* What a text says *)

SpaceIn(s, after) == SelectInSubSeq(s, after + 1, Len(s), LAMBDA c : c = "SP")
IndexOf(s, x) == SelectInSeq(s, LAMBDA c : c = x)

HeadersOf(lines) ==
  LET Add(headers, s) ==
        IF IsSpace(s[1])
        THEN [headers EXCEPT ![Len(headers)].value = @ \o From(s, Indent(s) + 1)]
        ELSE Append(headers, [name |-> Upto(s, IndexOf(s, ":")),
                              value |-> From(s, IndexOf(s, ":") + 2)])
  IN FoldLeft(Add, <<>>, Tail(lines))

RequestOf(lines) ==
  LET line == lines[1]
      i == SpaceIn(line, 0)
      j == SpaceIn(line, i)
      version == From(line, j + 6)
  IN [method |-> Upto(line, i),
      uri |-> SubSeq(line, i + 1, j - 1),
      major |-> Number(Upto(version, IndexOf(version, "."))),
      minor |-> Number(From(version, IndexOf(version, ".") + 1)),
      headers |-> HeadersOf(lines)]
==============================================================================
