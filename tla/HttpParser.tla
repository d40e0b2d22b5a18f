----------------------------- MODULE HttpParser -----------------------------
(***************************************************************************)
(* HTTPParser of src/src/http/http_parser.cpp: a request is fed in chunks  *)
(* of whatever size read() returned, and the parser reports Incomplete,    *)
(* Complete or Error after each.                                           *)
(*                                                                         *)
(* The input is a sequence of symbols, each one unit long: CR, LF and      *)
(* words.  A word stands for a run of bytes without CR or LF: a well-      *)
(* formed request line, a header field with its colon, or any other text.  *)
(* Case and blanks around a value, which the parser normalizes, are not    *)
(* part of a word.                                                         *)
(*                                                                         *)
(* Definitions named Bug... are plausible mistakes in the definition that  *)
(* follows them.                                                           *)
(***************************************************************************)
EXTENDS Integers, Sequences

CONSTANTS
  Streams,    \* what a client may send
  Limits,     \* pairs <<max_header_bytes, max_body_bytes>>
  MaxChunk    \* sizeof(buffer) in handle_client: the most one read() returns

ASSUME ParserAssumption ==
  /\ Limits \subseteq Nat \X Nat
  /\ MaxChunk \in Nat
  /\ \A s \in Streams : s \in Seq({s[i] : i \in DOMAIN s})

CR == [kind |-> "CR"]
LF == [kind |-> "LF"]
Request(r) == [kind |-> "request", line |-> r]
Text == [kind |-> "text"]
NotANumber == -1
\* value.text tells values apart, value.number is what from_chars makes of it
Field(name, text, number) ==
  [kind |-> "field", name |-> name, value |-> [text |-> text, number |-> number]]

VARIABLES
  max_header_bytes, max_body_bytes,
  buffer, parsed_request, content_length, headers_parsed, complete,
  parse_error,   \* whether the error text is set
  stream,        \* everything the client sends ...
  fed            \* ... and how much of it was fed

parserVars == <<buffer, parsed_request, content_length, headers_parsed, complete, parse_error>>
inputVars == <<max_header_bytes, max_body_bytes, stream>>
vars == <<parserVars, inputVars, fed>>

-----------------------------------------------------------------------------
(* The header block.                                                       *)

\* buffer.find("\r\n\r\n"): the number of symbols before the first separator,
\* as a set that is empty when there is none.
Separators(s) ==
  {i \in 0..(Len(s) - 4) : s[i + 1] = CR /\ s[i + 2] = LF /\ s[i + 3] = CR /\ s[i + 4] = LF}
FindSeparator(s) == {i \in Separators(s) : \A j \in Separators(s) : i <= j}

\* The lines of a header block, each ended by the next CR LF.
LinesFrom(text) ==
  LET ends == {i \in 1..(Len(text) - 1) : text[i] = CR /\ text[i + 1] = LF}
      from[p \in 1..(Len(text) + 1)] ==
        IF \A e \in ends : e < p THEN <<>>
        ELSE LET e == CHOOSE e \in ends : e >= p /\ \A d \in ends : d >= p => e <= d
             IN <<SubSeq(text, p, e - 1)>> \o from[e + 2]
  IN from[1]
Lines(block) == LinesFrom(block \o <<CR, LF>>)

Colons(line) == {i \in DOMAIN line : line[i].kind = "field"}
Colon(line) == CHOOSE i \in Colons(line) : \A j \in Colons(line) : i <= j

\* A name is what precedes the first colon, a value what follows it.
NameOf(line) ==
  [before |-> SubSeq(line, 1, Colon(line) - 1), name |-> line[Colon(line)].name]
ValueOf(line) ==
  [first |-> line[Colon(line)].value, rest |-> SubSeq(line, Colon(line) + 1, Len(line))]
Named(name) == [before |-> <<>>, name |-> name]

ValidField(line) ==
  /\ Colons(line) # {}
  /\ NameOf(line) # Named("")
  /\ \A i \in (Colon(line) + 1)..Len(line) : line[i] \notin {CR, LF}

NumberOf(value) == IF value.rest = <<>> THEN value.first.number ELSE NotANumber

\* The values of the fields with a name, in order and as a set.
ValuesOf(fields, name) ==
  LET own(line) == NameOf(line) = name
      found == SelectSeq(fields, own)
  IN [i \in DOMAIN found |-> ValueOf(found[i])]
Places(fields, name) == {i \in DOMAIN fields : NameOf(fields[i]) = name}
Lengths(fields) == {ValueOf(fields[i]) : i \in Places(fields, Named("content-length"))}

BugFirstLengthWins(fields) == TRUE
LengthsAgree(fields) == \A v, w \in Lengths(fields) : v = w

\* parse_headers on the symbols before the separator: whether it succeeds, the
\* request it stores and the content length.  Repeated fields are joined in
\* order, but for a content-length, which is kept once.  What a failed parse
\* leaves in the request is never used.
ParseHeaders(block, max_body) ==
  LET lines == Lines(block)
      fields == Tail(lines)
      length == CHOOSE v \in Lengths(fields) : TRUE
      valid ==
        /\ Len(lines) > 1
        /\ Len(lines[1]) = 1 /\ lines[1][1].kind = "request"
        /\ \A i \in DOMAIN fields : ValidField(fields[i])
        /\ LengthsAgree(fields)
        /\ Places(fields, Named("transfer-encoding")) = {}
        /\ Lengths(fields) # {} => NumberOf(length) \in 0..max_body
  IN IF ~valid THEN [ok |-> FALSE]
     ELSE [ok |-> TRUE,
           length |-> IF Lengths(fields) = {} THEN 0 ELSE NumberOf(length),
           request |->
             [line |-> lines[1][1].line,
              headers |-> [n \in {NameOf(fields[i]) : i \in DOMAIN fields} |->
                            IF n = Named("content-length") THEN <<length>>
                            ELSE ValuesOf(fields, n)],
              body |-> <<>>]]

-----------------------------------------------------------------------------
NoRequest == [line |-> <<>>, headers |-> <<>>, body |-> <<>>]

Init ==
  /\ \E l \in Limits : max_header_bytes = l[1] /\ max_body_bytes = l[2]
  /\ stream \in Streams
  /\ fed = 0
  /\ buffer = <<>> /\ parsed_request = NoRequest /\ content_length = 0
  /\ headers_parsed = FALSE /\ complete = FALSE /\ parse_error = FALSE

Finished == complete \/ parse_error

\* feed is called with the next n symbols of the stream.
Chunk(n) == SubSeq(stream, fed + 1, fed + n)
Data(n) == buffer \o Chunk(n)
Receives(n) == fed + n <= Len(stream) /\ fed' = fed + n /\ UNCHANGED inputVars

\* The first comparison keeps the unsigned subtraction from wrapping.
OverLimit(n) ==
  \/ Len(buffer) > max_header_bytes + max_body_bytes
  \/ n > max_header_bytes + max_body_bytes - Len(buffer)

Fail == parse_error' = TRUE /\ UNCHANGED <<parsed_request, content_length, headers_parsed, complete>>

\* A parser that finished repeats its verdict and drops the bytes.
FeedFinished(n) ==
  /\ Receives(n)
  /\ Finished
  /\ UNCHANGED parserVars

FeedTooMuch(n) ==
  /\ Receives(n)
  /\ ~Finished /\ OverLimit(n)
  /\ Fail /\ UNCHANGED buffer

BugHeadersTooLong(data) == Len(data) > max_header_bytes + max_body_bytes
HeadersTooLong(data) == Len(data) > max_header_bytes

\* No separator yet: wait for more, unless the headers are already too long.
FeedHeaders(n) ==
  /\ Receives(n)
  /\ ~Finished /\ ~OverLimit(n) /\ ~headers_parsed
  /\ FindSeparator(Data(n)) = {}
  /\ buffer' = Data(n)
  /\ \/ HeadersTooLong(Data(n)) /\ Fail
     \/ /\ ~HeadersTooLong(Data(n))
        /\ UNCHANGED <<parsed_request, content_length, headers_parsed, complete, parse_error>>

HeadersFit(separator) == separator + 4 <= max_header_bytes

\* The separator is there, but the headers are too long or malformed.
FeedBadHeaders(n) ==
  /\ Receives(n)
  /\ ~Finished /\ ~OverLimit(n) /\ ~headers_parsed
  /\ \E s \in FindSeparator(Data(n)) :
       ~HeadersFit(s) \/ ~ParseHeaders(SubSeq(Data(n), 1, s), max_body_bytes).ok
  /\ buffer' = Data(n)
  /\ Fail

\* The end of feed: the request is complete once rest holds its whole body.
TakeBody(rest, request, length) ==
  /\ buffer' = rest
  /\ content_length' = length
  /\ complete' = (Len(rest) >= length)
  /\ parsed_request' = IF Len(rest) >= length
                       THEN [request EXCEPT !.body = SubSeq(rest, 1, length)] ELSE request
  /\ headers_parsed' = TRUE
  /\ UNCHANGED parse_error

BugEraseHeaders(data, s) == SubSeq(data, s + 3, Len(data))
EraseHeaders(data, s) == SubSeq(data, s + 5, Len(data))

FeedGoodHeaders(n) ==
  /\ Receives(n)
  /\ ~Finished /\ ~OverLimit(n) /\ ~headers_parsed
  /\ \E s \in FindSeparator(Data(n)) :
       LET h == ParseHeaders(SubSeq(Data(n), 1, s), max_body_bytes) IN
       /\ HeadersFit(s) /\ h.ok
       /\ TakeBody(EraseHeaders(Data(n), s), h.request, h.length)

FeedBody(n) ==
  /\ Receives(n)
  /\ ~Finished /\ ~OverLimit(n) /\ headers_parsed
  /\ TakeBody(Data(n), parsed_request, content_length)

Feed(n) ==
  \/ FeedFinished(n)
  \/ FeedTooMuch(n)
  \/ FeedHeaders(n)
  \/ FeedBadHeaders(n)
  \/ FeedGoodHeaders(n)
  \/ FeedBody(n)

Next == \E n \in 1..MaxChunk : Feed(n)

Spec == Init /\ [][Next]_vars

-----------------------------------------------------------------------------
(* Properties.                                                             *)

\* What feed last returned.
Status == IF complete THEN "Complete" ELSE IF parse_error THEN "Error" ELSE "Incomplete"

Received == SubSeq(stream, 1, fed)

\* What a parser that saw all of s at once, under no total limit, would report.
Outcome(s) ==
  IF \E i \in FindSeparator(s) : HeadersFit(i)
  THEN LET i == CHOOSE i \in FindSeparator(s) : TRUE
           h == ParseHeaders(SubSeq(s, 1, i), max_body_bytes)
       IN IF ~h.ok THEN [status |-> "Error"]
          ELSE IF Len(s) - (i + 4) < h.length THEN [status |-> "Incomplete"]
          ELSE [status |-> "Complete",
                request |-> [h.request EXCEPT !.body = SubSeq(s, i + 5, i + 4 + h.length)]]
  ELSE [status |-> IF Len(s) > max_header_bytes THEN "Error" ELSE "Incomplete"]

\* A chunk is no larger than either limit, as in the server: reads of at most
\* 1 KiB against 16 KiB of headers and 1 MiB of body.
ChunksFit == MaxChunk <= max_header_bytes /\ MaxChunk <= max_body_bytes

\* The verdict and the request depend on the bytes received and not on where
\* read() happened to cut them: a separator, a field or a body split over any
\* number of chunks.  Only a chunk larger than a limit can be refused earlier.
ChunkingIrrelevant ==
  \/ /\ Status = Outcome(Received).status
     /\ complete => parsed_request = Outcome(Received).request
  \/ parse_error /\ ~ChunksFit

\* "bounds memory used for a single request": while a request is incomplete
\* the parser holds no more than the header limit, or less than the announced
\* body, which is itself within the body limit.
BufferBounded ==
  Status = "Incomplete" =>
    IF headers_parsed
    THEN Len(buffer) < content_length /\ content_length <= max_body_bytes
    ELSE Len(buffer) <= max_header_bytes

\* A complete request is framed in one way only: every content-length field
\* received before the separator carries the same number, which is the length
\* of the body, and there is no transfer encoding.
FramedOnce ==
  complete =>
    \A s \in FindSeparator(Received) :
      LET fields == Tail(Lines(SubSeq(Received, 1, s)))
          names == {NameOf(fields[i]) : i \in DOMAIN fields}
          lengths == {NumberOf(ValueOf(fields[i])) :
                        i \in {j \in DOMAIN fields : NameOf(fields[j]) = Named("content-length")}}
      IN /\ lengths \subseteq {Len(parsed_request.body)}
         /\ lengths = {} => parsed_request.body = <<>>
         /\ Named("transfer-encoding") \notin names
=============================================================================
