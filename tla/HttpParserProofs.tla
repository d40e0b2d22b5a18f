-------------------------- MODULE HttpParserProofs --------------------------
(***************************************************************************)
(* The verdict of the parser does not depend on how the input is cut into  *)
(* chunks, for every input, every pair of limits and every chunk size.     *)
(***************************************************************************)
EXTENDS HttpParser, TLAPS

\* The provers that try a leaf which names none.
USE SMTT(20), ZenonT(30)

\* There is at most one first separator.
LEMMA SeparatorUnique ==
  ASSUME NEW s, NEW i \in FindSeparator(s)
  PROVE  FindSeparator(s) = {i}
<1>1. Separators(s) \subseteq Int
  BY DEF Separators
<1> QED BY <1>1 DEF FindSeparator

\* A separator that was found stays the first one when more input arrives, and
\* so does the header block before it.
LEMMA SeparatorStays ==
  ASSUME NEW S, NEW s \in Seq(S), NEW t \in Seq(S), NEW i \in FindSeparator(s)
  PROVE  /\ FindSeparator(s \o t) = {i}
         /\ i \in Nat /\ i + 4 <= Len(s)
         /\ SubSeq(s \o t, 1, i) = SubSeq(s, 1, i)
<1>1. i \in Separators(s) /\ \A j \in Separators(s) : i <= j
  BY DEF FindSeparator
<1>2. i \in Nat /\ i + 4 <= Len(s)
  BY <1>1 DEF Separators
<1>3. i \in Separators(s \o t)
  BY <1>1, <1>2 DEF Separators
<1>4. ASSUME NEW j \in Separators(s \o t) PROVE i <= j
  <2>1. j \in Nat
    BY DEF Separators
  <2>2. CASE j < i
    <3>1. j \in Separators(s)
      BY <1>2, <2>1, <2>2 DEF Separators
    <3> QED BY <1>1, <3>1
  <2> QED BY <1>2, <2>1, <2>2
<1>5. i \in FindSeparator(s \o t)
  BY <1>3, <1>4 DEF FindSeparator
<1>6. SubSeq(s \o t, 1, i) = SubSeq(s, 1, i)
  BY <1>2
<1> QED BY <1>2, <1>5, <1>6, SeparatorUnique

\* A header block that parses announces a body within the limit.
LEMMA LengthWithinLimit ==
  ASSUME NEW block, NEW max_body \in Nat, ParseHeaders(block, max_body).ok
  PROVE  ParseHeaders(block, max_body).length \in 0..max_body
  BY DEF ParseHeaders

\* The body cut out of what follows the headers is the body cut out of the whole.
LEMMA BodyOfRest ==
  ASSUME NEW S, NEW s \in Seq(S), NEW i \in Nat, i + 4 <= Len(s),
         NEW length \in Nat, length <= Len(s) - (i + 4)
  PROVE  /\ Len(EraseHeaders(s, i)) = Len(s) - (i + 4)
         /\ SubSeq(EraseHeaders(s, i), 1, length) = SubSeq(s, i + 5, i + 4 + length)
  BY DEF EraseHeaders

\* The type and the length of a concatenation.
LEMMA Concatenation ==
  ASSUME NEW S, NEW s \in Seq(S), NEW t \in Seq(S)
  PROVE  s \o t \in Seq(S) /\ Len(s \o t) = Len(s) + Len(t) /\ Len(s) \in Nat /\ Len(t) \in Nat
  OBVIOUS

\* What follows the headers grows with the input.
LEMMA RestGrows ==
  ASSUME NEW S, NEW s \in Seq(S), NEW t \in Seq(S), NEW i \in Nat, i + 4 <= Len(s)
  PROVE  EraseHeaders(s \o t, i) = EraseHeaders(s, i) \o t
<1> DEFINE whole == EraseHeaders(s \o t, i)
           parts == EraseHeaders(s, i) \o t
<1>1. /\ whole \in Seq(S) /\ Len(whole) = Len(s) + Len(t) - (i + 4)
      /\ \A k \in 1..Len(whole) : whole[k] = (s \o t)[k + i + 4]
  BY DEF EraseHeaders
<1>2. /\ EraseHeaders(s, i) \in Seq(S) /\ Len(EraseHeaders(s, i)) = Len(s) - (i + 4)
      /\ \A k \in 1..(Len(s) - (i + 4)) : EraseHeaders(s, i)[k] = s[k + i + 4]
  BY DEF EraseHeaders
<1>3. parts \in Seq(S) /\ Len(parts) = Len(s) + Len(t) - (i + 4)
  <2>1. parts \in Seq(S) /\ Len(parts) = Len(EraseHeaders(s, i)) + Len(t)
    BY <1>2, Concatenation, ZenonT(30)
  <2> HIDE DEF parts
  <2> QED BY <1>2, <2>1
<1>4. ASSUME NEW k \in 1..Len(whole) PROVE whole[k] = parts[k]
  <2>1. CASE k <= Len(s) - (i + 4)
    BY <1>1, <1>2, <2>1
  <2>2. CASE ~(k <= Len(s) - (i + 4))
    <3>1. (s \o t)[k + i + 4] = t[k + i + 4 - Len(s)]
      BY <1>1, <2>2
    <3>2. parts[k] = t[k - (Len(s) - (i + 4))]
      BY <1>1, <1>2, <2>2, SMTT(30)
    <3>3. k + i + 4 - Len(s) = k - (Len(s) - (i + 4))
      OBVIOUS
    <3> QED BY <1>1, <3>1, <3>2, <3>3
  <2> QED BY <2>1, <2>2, ZenonT(30)
<1> HIDE DEF whole, parts
<1>5. whole = parts
  BY <1>1, <1>3, <1>4
<1> QED BY <1>5 DEF whole, parts

\* What a parser reports once the separator is there, and before.
LEMMA OutcomeWithHeaders ==
  ASSUME NEW s, NEW i, FindSeparator(s) = {i}
  PROVE  LET h == ParseHeaders(SubSeq(s, 1, i), max_body_bytes) IN
         Outcome(s) =
           IF HeadersFit(i)
           THEN IF ~h.ok THEN [status |-> "Error"]
                ELSE IF Len(s) - (i + 4) < h.length THEN [status |-> "Incomplete"]
                ELSE [status |-> "Complete",
                      request |-> [h.request EXCEPT !.body = SubSeq(s, i + 5, i + 4 + h.length)]]
           ELSE [status |-> IF Len(s) > max_header_bytes THEN "Error" ELSE "Incomplete"]
<1>1. (CHOOSE j \in FindSeparator(s) : TRUE) = i
  OBVIOUS
<1> QED BY <1>1, Zenon DEF Outcome

\* The verdict on input in which no separator has come yet.
LEMMA OutcomeWithoutHeaders ==
  ASSUME NEW s, FindSeparator(s) = {}
  PROVE  Outcome(s) = [status |-> IF Len(s) > max_header_bytes THEN "Error" ELSE "Incomplete"]
  BY Zenon DEF Outcome

-----------------------------------------------------------------------------
(* The inductive invariant: while the parser is undecided its buffer is    *)
(* what it received, less the headers once it has parsed them.             *)

Bytes == {stream[i] : i \in DOMAIN stream}

TypeOK ==
  /\ max_header_bytes \in Nat /\ max_body_bytes \in Nat
  /\ stream \in Seq(Bytes)
  /\ fed \in 0..Len(stream)
  /\ buffer \in Seq(Bytes)
  /\ headers_parsed \in BOOLEAN /\ complete \in BOOLEAN /\ parse_error \in BOOLEAN

WaitsForHeaders ==
  /\ buffer = Received
  /\ FindSeparator(Received) = {}
  /\ Len(Received) <= max_header_bytes

WaitsForBody ==
  \E i \in FindSeparator(Received) :
    LET h == ParseHeaders(SubSeq(Received, 1, i), max_body_bytes) IN
    /\ HeadersFit(i) /\ h.ok
    /\ content_length = h.length
    /\ parsed_request = h.request
    /\ buffer = EraseHeaders(Received, i)
    /\ Len(Received) - (i + 4) < h.length

Decided ==
  \/ /\ complete /\ ~parse_error
     /\ Outcome(Received).status = "Complete"
     /\ Outcome(Received).request = parsed_request
  \/ /\ ~complete /\ parse_error
     /\ ChunksFit => Outcome(Received).status = "Error"

IInv ==
  /\ TypeOK
  /\ ~Finished /\ ~headers_parsed => WaitsForHeaders
  /\ ~Finished /\ headers_parsed => WaitsForBody
  /\ Finished => Decided

\* A verdict is final: more input does not change it.
LEMMA OutcomeFinal ==
  ASSUME TypeOK, NEW s \in Seq(Bytes), NEW t \in Seq(Bytes), Outcome(s).status # "Incomplete"
  PROVE  Outcome(s \o t) = Outcome(s)
<1> DEFINE r == s \o t
<1>0. /\ max_header_bytes \in Nat /\ max_body_bytes \in Nat
      /\ Len(r) = Len(s) + Len(t) /\ Len(s) \in Nat /\ Len(t) \in Nat
      /\ r \in Seq(Bytes)
  BY DEF TypeOK
<1>1. CASE FindSeparator(s) = {}
  <2>1. Len(s) > max_header_bytes /\ Outcome(s) = [status |-> "Error"]
    BY <1>1, OutcomeWithoutHeaders
  <2>2. CASE FindSeparator(r) = {}
    <3>1. Outcome(r) = [status |-> IF Len(r) > max_header_bytes THEN "Error" ELSE "Incomplete"]
      BY <2>2, OutcomeWithoutHeaders, ZenonT(30)
    <3> HIDE DEF r
    <3>2. Outcome(r) = Outcome(s)
      BY <1>0, <2>1, <3>1
    <3> QED BY <3>2 DEF r
  <2>3. ASSUME NEW i \in FindSeparator(r) PROVE Outcome(r) = [status |-> "Error"]
    <3>1. FindSeparator(r) = {i} /\ i \in Separators(r) /\ \A j \in Separators(r) : i <= j
      BY SeparatorUnique DEF FindSeparator
    <3>2. i \in Nat
      BY <3>1 DEF Separators
    <3>3. ASSUME i + 4 <= Len(s) PROVE FALSE
      <4>0. \A k \in 1..Len(s) : r[k] = s[k]
        OBVIOUS
      <4> HIDE DEF r
      <4>1. i \in Separators(s)
        <5>1. r[i + 1] = CR /\ r[i + 2] = LF /\ r[i + 3] = CR /\ r[i + 4] = LF
          BY <3>1, Zenon DEF Separators
        <5>2. /\ i \in 0..(Len(s) - 4)
              /\ i + 1 \in 1..Len(s) /\ i + 2 \in 1..Len(s) /\ i + 3 \in 1..Len(s) /\ i + 4 \in 1..Len(s)
          BY <1>0, <3>2, <3>3
        <5> QED BY <4>0, <5>1, <5>2, Zenon DEF Separators
      <4>2. ASSUME NEW j \in Separators(s) PROVE j \in Separators(r)
        <5>1. s[j + 1] = CR /\ s[j + 2] = LF /\ s[j + 3] = CR /\ s[j + 4] = LF /\ j \in 0..(Len(s) - 4)
          BY Zenon DEF Separators
        <5>2. /\ j \in 0..(Len(r) - 4)
              /\ j + 1 \in 1..Len(s) /\ j + 2 \in 1..Len(s) /\ j + 3 \in 1..Len(s) /\ j + 4 \in 1..Len(s)
          BY <1>0, <5>1
        <5> QED BY <4>0, <5>1, <5>2, Zenon DEF Separators
      <4>3. i \in FindSeparator(s)
        BY <3>1, <4>1, <4>2 DEF FindSeparator
      <4> QED BY <1>1, <4>3
    <3>4. ~HeadersFit(i)
      BY <1>0, <2>1, <3>2, <3>3 DEF HeadersFit
    <3>5. Outcome(r) = [status |-> IF Len(r) > max_header_bytes THEN "Error" ELSE "Incomplete"]
      BY <3>1, <3>4, OutcomeWithHeaders, ZenonT(30)
    <3> HIDE DEF r
    <3> QED BY <1>0, <2>1, <3>5
  <2> QED BY <2>1, <2>2, <2>3
<1>2. ASSUME NEW i \in FindSeparator(s) PROVE Outcome(r) = Outcome(s)
  <2> DEFINE h == ParseHeaders(SubSeq(s, 1, i), max_body_bytes)
  <2>1. /\ FindSeparator(s) = {i} /\ FindSeparator(r) = {i}
        /\ i \in Nat /\ i + 4 <= Len(s) /\ SubSeq(r, 1, i) = SubSeq(s, 1, i)
    BY SeparatorUnique, SeparatorStays
  <2>2. CASE ~HeadersFit(i)
    <3>1. Len(s) > max_header_bytes /\ Len(r) > max_header_bytes
      BY <1>0, <2>1, <2>2 DEF HeadersFit
    <3> QED BY <2>1, <2>2, <3>1, OutcomeWithHeaders, ZenonT(30)
  <2>3. CASE HeadersFit(i) /\ ~h.ok
    BY <2>1, <2>3, OutcomeWithHeaders, ZenonT(30)
  <2>4. CASE HeadersFit(i) /\ h.ok
    <3>1. h.length \in Nat
      BY <1>0, <2>4, LengthWithinLimit
    <3>2. Outcome(s) = IF Len(s) - (i + 4) < h.length THEN [status |-> "Incomplete"]
                       ELSE [status |-> "Complete",
                             request |-> [h.request EXCEPT !.body = SubSeq(s, i + 5, i + 4 + h.length)]]
      BY <2>1, <2>4, OutcomeWithHeaders, ZenonT(30)
    <3>3. Outcome(r) = IF Len(r) - (i + 4) < h.length THEN [status |-> "Incomplete"]
                       ELSE [status |-> "Complete",
                             request |-> [h.request EXCEPT !.body = SubSeq(r, i + 5, i + 4 + h.length)]]
      BY <2>1, <2>4, OutcomeWithHeaders, ZenonT(30)
    <3> HIDE DEF h
    <3>4. ~(Len(s) - (i + 4) < h.length)
      BY <3>2
    <3>5. ~(Len(r) - (i + 4) < h.length)
      BY <1>0, <2>1, <3>1, <3>4
    <3>6. SubSeq(r, i + 5, i + 4 + h.length) = SubSeq(s, i + 5, i + 4 + h.length)
      BY <1>0, <2>1, <3>1, <3>4, SMTT(30)
    <3> QED BY <3>2, <3>3, <3>4, <3>5, <3>6, Zenon
  <2> QED BY <2>2, <2>3, <2>4
<1> QED BY <1>1, <1>2

\* Feeding n bytes appends them to what was received and leaves the rest of the
\* input alone.
LEMMA FeedReceives ==
  ASSUME TypeOK, NEW n \in 1..MaxChunk, Receives(n)
  PROVE  /\ Received' = Received \o Chunk(n)
         /\ Received \in Seq(Bytes) /\ Chunk(n) \in Seq(Bytes) /\ Len(Chunk(n)) = n
         /\ n \in Nat /\ n <= MaxChunk /\ MaxChunk \in Nat
         /\ Bytes' = Bytes /\ fed' \in 0..Len(stream')
         /\ max_header_bytes' = max_header_bytes /\ max_body_bytes' = max_body_bytes
         /\ stream' = stream
<1>1. n \in Nat /\ n <= MaxChunk /\ MaxChunk \in Nat
  BY ParserAssumption
<1>2. /\ fed + n <= Len(stream) /\ fed' = fed + n
      /\ max_header_bytes' = max_header_bytes /\ max_body_bytes' = max_body_bytes
      /\ stream' = stream
  BY DEF Receives, inputVars
<1>3. Bytes' = Bytes
  BY <1>2 DEF Bytes
<1>4. stream \in Seq(Bytes) /\ fed \in 0..Len(stream)
  BY DEF TypeOK
<1> HIDE DEF Bytes
<1>5. Received \in Seq(Bytes) /\ Chunk(n) \in Seq(Bytes) /\ Len(Chunk(n)) = n
  BY <1>1, <1>2, <1>4 DEF Received, Chunk
<1>6. SubSeq(stream, 1, fed + n) = SubSeq(stream, 1, fed) \o SubSeq(stream, fed + 1, fed + n)
  BY <1>1, <1>2, <1>4
<1>7. Received' = Received \o Chunk(n)
  BY <1>2, <1>6, Zenon DEF Received, Chunk
<1> QED BY <1>1, <1>2, <1>3, <1>4, <1>5, <1>7

\* A new parser has received nothing.
LEMMA Initially == Init => IInv
<1> SUFFICES ASSUME Init PROVE IInv
  OBVIOUS
<1>1. TypeOK
  <2>1. max_header_bytes \in Nat /\ max_body_bytes \in Nat
    BY ParserAssumption DEF Init
  <2>2. stream \in Seq(Bytes)
    BY ParserAssumption, Zenon DEF Init, Bytes
  <2>3. fed \in 0..Len(stream)
    BY <2>2 DEF Init
  <2>4. buffer \in Seq(Bytes)
    BY DEF Init
  <2>5. headers_parsed \in BOOLEAN /\ complete \in BOOLEAN /\ parse_error \in BOOLEAN
    BY Zenon DEF Init
  <2> QED BY <2>1, <2>2, <2>3, <2>4, <2>5, Zenon DEF TypeOK
<1>2. Received = <<>> /\ FindSeparator(<<>>) = {}
  BY <1>1 DEF Init, Received, FindSeparator, Separators, TypeOK
<1>3. WaitsForHeaders
  BY <1>1, <1>2 DEF Init, WaitsForHeaders, TypeOK
<1> QED BY <1>1, <1>3 DEF IInv, Init, Finished

\* The header block is complete and parses: the end of feed, on what follows it.
LEMMA BodyTaken ==
  ASSUME TypeOK, Received' \in Seq(Bytes), TypeOK',
         max_header_bytes' = max_header_bytes, max_body_bytes' = max_body_bytes,
         NEW i \in FindSeparator(Received'), HeadersFit(i),
         NEW h, h = ParseHeaders(SubSeq(Received', 1, i), max_body_bytes), h.ok,
         ~Finished,
         TakeBody(EraseHeaders(Received', i), h.request, h.length)
  PROVE  IInv'
<1> DEFINE r == Received'
           rest == EraseHeaders(r, i)
<1>1. FindSeparator(r) = {i} /\ i \in Nat /\ i + 4 <= Len(r) /\ Len(r) \in Nat
  <2>1. i \in Separators(r)
    BY DEF FindSeparator
  <2> QED BY <2>1, SeparatorUnique DEF Separators
<1>2. h.length \in Nat
  BY LengthWithinLimit DEF TypeOK
<1>3. Len(rest) = Len(r) - (i + 4)
  BY <1>1 DEF EraseHeaders
<1>4. HeadersFit(i)'
  BY DEF HeadersFit
<1>5. ParseHeaders(SubSeq(r, 1, i), max_body_bytes') = h
  OBVIOUS
<1>6. Outcome(Received)' = IF Len(r) - (i + 4) < h.length THEN [status |-> "Incomplete"]
        ELSE [status |-> "Complete",
              request |-> [h.request EXCEPT !.body = SubSeq(r, i + 5, i + 4 + h.length)]]
  BY <1>1, <1>4, <1>5, ZenonT(30) DEF Outcome
<1>7. /\ buffer' = rest /\ content_length' = h.length /\ headers_parsed' = TRUE
      /\ complete' = (Len(rest) >= h.length)
      /\ parsed_request' = IF Len(rest) >= h.length
                           THEN [h.request EXCEPT !.body = SubSeq(rest, 1, h.length)] ELSE h.request
      /\ parse_error' = FALSE
  BY DEF TakeBody, Finished, TypeOK
<1>8. CASE Len(rest) < h.length
  <2>1. WaitsForBody'
    BY <1>1, <1>2, <1>3, <1>4, <1>5, <1>7, <1>8 DEF WaitsForBody, EraseHeaders
  <2> HIDE DEF r, rest
  <2>2. ~(Len(rest) >= h.length)
    BY <1>1, <1>2, <1>3, <1>8
  <2>3. ~complete'
    BY <1>7, <2>2, Zenon
  <2> QED BY <1>7, <2>1, <2>3 DEF IInv, Finished
<1>9. CASE ~(Len(rest) < h.length)
  <2>1. h.length <= Len(r) - (i + 4) /\ Len(rest) >= h.length
    <3> HIDE DEF r, rest
    <3> QED BY <1>1, <1>2, <1>3, <1>9
  <2>2. SubSeq(rest, 1, h.length) = SubSeq(r, i + 5, i + 4 + h.length)
    BY <1>1, <1>2, <2>1, BodyOfRest, ZenonT(30)
  <2>3. complete' /\ parsed_request' = [h.request EXCEPT !.body = SubSeq(rest, 1, h.length)]
    BY <1>7, <2>1, Zenon
  <2>4. Outcome(Received)' = [status |-> "Complete",
              request |-> [h.request EXCEPT !.body = SubSeq(r, i + 5, i + 4 + h.length)]]
    BY <1>3, <1>6, <1>9
  <2>5. Outcome(Received)' = [status |-> "Complete", request |-> parsed_request']
    BY <2>2, <2>3, <2>4, Zenon
  <2>6. Decided'
    <3>1. Outcome(Received)'.status = "Complete" /\ Outcome(Received)'.request = parsed_request'
      BY <2>5
    <3> QED BY <1>7, <2>3, <3>1, Zenon DEF Decided
  <2> QED BY <2>3, <2>6 DEF IInv, Finished
<1> QED BY <1>8, <1>9

\* The outcome in the next state, in terms of the limits, which never change.
LEMMA OutcomePrime ==
  ASSUME max_header_bytes' = max_header_bytes, max_body_bytes' = max_body_bytes
  PROVE  Outcome(Received)' = Outcome(Received') /\ ChunksFit' = ChunksFit
<1>1. \A i : HeadersFit(i)' = HeadersFit(i)
  BY DEF HeadersFit
<1> QED BY <1>1, Zenon DEF Outcome, HeadersFit, ChunksFit

\* feed keeps the types.
LEMMA FeedTypes ==
  ASSUME TypeOK, NEW n \in 1..MaxChunk, Feed(n)
  PROVE  TypeOK'
<1>1. Receives(n)
  BY DEF Feed, FeedFinished, FeedTooMuch, FeedHeaders, FeedBadHeaders, FeedGoodHeaders, FeedBody
<1>2. /\ Chunk(n) \in Seq(Bytes) /\ Bytes' = Bytes /\ fed' \in 0..Len(stream')
      /\ max_header_bytes' = max_header_bytes /\ max_body_bytes' = max_body_bytes
      /\ stream' = stream
  BY <1>1, FeedReceives
<1>3. buffer \in Seq(Bytes) /\ Data(n) \in Seq(Bytes)
  BY <1>2 DEF TypeOK, Data
<1>4. buffer' \in Seq(Bytes)
  <2>1. \A i \in FindSeparator(Data(n)) : EraseHeaders(Data(n), i) \in Seq(Bytes)
    BY <1>3 DEF EraseHeaders, FindSeparator, Separators
  <2> QED
    BY <1>3, <2>1 DEF Feed, FeedFinished, FeedTooMuch, FeedHeaders, FeedBadHeaders,
                      FeedGoodHeaders, FeedBody, TakeBody, parserVars
<1>5. headers_parsed' \in BOOLEAN /\ complete' \in BOOLEAN /\ parse_error' \in BOOLEAN
  <2>1. headers_parsed \in BOOLEAN /\ complete \in BOOLEAN /\ parse_error \in BOOLEAN
    BY Zenon DEF TypeOK
  <2>2. CASE FeedFinished(n)
    BY <2>1, <2>2, Zenon DEF FeedFinished, parserVars
  <2>3. CASE Fail
    BY <2>1, <2>3, Zenon DEF Fail
  <2>4. CASE UNCHANGED <<parsed_request, content_length, headers_parsed, complete, parse_error>>
    BY <2>1, <2>4, Zenon
  <2>5. ASSUME NEW rest, NEW request, NEW length, TakeBody(rest, request, length)
        PROVE  headers_parsed' \in BOOLEAN /\ complete' \in BOOLEAN /\ parse_error' \in BOOLEAN
    <3>1. (Len(rest) >= length) \in BOOLEAN
      OBVIOUS
    <3> QED BY <2>1, <2>5, <3>1, Zenon DEF TakeBody
  <2> QED
    BY <2>2, <2>3, <2>4, <2>5, Zenon
       DEF Feed, FeedTooMuch, FeedHeaders, FeedBadHeaders, FeedGoodHeaders, FeedBody
<1> QED BY <1>2, <1>3, <1>4, <1>5, Zenon DEF TypeOK

\* Every call of feed keeps the invariant.
LEMMA StepKeepsInvariant ==
  ASSUME IInv, NEW n \in 1..MaxChunk, Feed(n)
  PROVE  IInv'
<1> DEFINE r == Received \o Chunk(n)
<1>1. TypeOK /\ TypeOK'
  BY FeedTypes DEF IInv
<1>2. Receives(n)
  BY DEF Feed, FeedFinished, FeedTooMuch, FeedHeaders, FeedBadHeaders, FeedGoodHeaders, FeedBody
<1>3. /\ Received' = r /\ Received \in Seq(Bytes) /\ Chunk(n) \in Seq(Bytes) /\ Len(Chunk(n)) = n
      /\ n \in Nat /\ n <= MaxChunk /\ MaxChunk \in Nat
      /\ max_header_bytes' = max_header_bytes /\ max_body_bytes' = max_body_bytes
  BY <1>1, <1>2, FeedReceives
<1>4. /\ r \in Seq(Bytes) /\ Len(r) \in Nat /\ Len(r) = Len(Received) + n
      /\ Len(Received) \in Nat /\ max_header_bytes \in Nat /\ max_body_bytes \in Nat
  <2>1. max_header_bytes \in Nat /\ max_body_bytes \in Nat
    BY <1>1 DEF TypeOK
  <2>2. /\ r \in Seq(Bytes) /\ Len(r) = Len(Received) + Len(Chunk(n))
        /\ Len(Received) \in Nat /\ Len(Chunk(n)) \in Nat
    BY <1>3, Concatenation, ZenonT(30) DEF r
  <2> QED BY <1>3, <2>1, <2>2
<1>5. Outcome(Received)' = Outcome(r) /\ ChunksFit' = ChunksFit
  BY <1>3, OutcomePrime
<1> HIDE DEF r
<1>6. CASE FeedFinished(n)
  <2>1. Decided /\ Finished /\ UNCHANGED parserVars
    BY <1>6 DEF FeedFinished, IInv
  <2>2. Outcome(Received).status # "Incomplete" => Outcome(r) = Outcome(Received)
    BY <1>1, <1>3, OutcomeFinal DEF r
  <2>3. complete' = complete /\ parse_error' = parse_error /\ parsed_request' = parsed_request
    BY <2>1 DEF parserVars
  <2>4. "Complete" # "Incomplete" /\ "Error" # "Incomplete"
    OBVIOUS
  <2>5. Decided'
    BY <1>5, <2>1, <2>2, <2>3, <2>4, Zenon DEF Decided
  <2> QED BY <1>1, <2>1, <2>3, <2>5, Zenon DEF IInv, Finished
<1> DEFINE InvalidTooSoon ==
      /\ ~complete' /\ parse_error'
      /\ ChunksFit => Outcome(r).status = "Error"
<1>7. ASSUME InvalidTooSoon PROVE IInv'
  BY <1>1, <1>5, <1>7, Zenon DEF IInv, Finished, Decided
<1>8. CASE FeedTooMuch(n)
  <2>1. ~complete' /\ parse_error'
    BY <1>8 DEF FeedTooMuch, Fail, Finished
  <2>2. ASSUME ChunksFit PROVE FALSE
    <3>1. ~Finished /\ OverLimit(n)
      BY <1>8 DEF FeedTooMuch
    <3>2. n <= max_header_bytes /\ n <= max_body_bytes
      BY <1>3, <1>4, <2>2 DEF ChunksFit
    <3>3. CASE ~headers_parsed
      <4>1. Len(buffer) \in Nat /\ Len(buffer) <= max_header_bytes
        BY <1>4, <3>1, <3>3 DEF IInv, WaitsForHeaders
      <4> QED BY <1>3, <1>4, <3>1, <3>2, <4>1 DEF OverLimit
    <3>4. CASE headers_parsed
      <4>1. PICK i \in FindSeparator(Received) :
              LET h == ParseHeaders(SubSeq(Received, 1, i), max_body_bytes) IN
              /\ h.ok
              /\ buffer = EraseHeaders(Received, i)
              /\ Len(Received) - (i + 4) < h.length
        BY <3>1, <3>4 DEF IInv, WaitsForBody
      <4> DEFINE h == ParseHeaders(SubSeq(Received, 1, i), max_body_bytes)
      <4>2. h.length \in Nat /\ h.length <= max_body_bytes
        BY <1>4, <4>1, LengthWithinLimit
      <4>3. i \in Nat /\ i + 4 <= Len(Received)
        BY <1>4 DEF FindSeparator, Separators
      <4>4. Len(buffer) = Len(Received) - (i + 4)
        BY <1>3, <4>1, <4>3 DEF EraseHeaders
      <4>5. Len(Received) - (i + 4) < h.length
        BY <4>1
      <4> HIDE DEF h
      <4>6. Len(buffer) < max_body_bytes /\ Len(buffer) \in Nat
        BY <1>4, <4>2, <4>3, <4>4, <4>5
      <4> QED BY <1>3, <1>4, <3>1, <3>2, <4>6 DEF OverLimit
    <3> QED BY <3>3, <3>4
  <2> QED BY <1>7, <2>1, <2>2
<1>9. CASE FeedHeaders(n)
  <2>1. /\ ~Finished /\ WaitsForHeaders
        /\ FindSeparator(Data(n)) = {} /\ buffer' = Data(n)
    BY <1>9 DEF FeedHeaders, IInv
  <2>2. Data(n) = r
    BY <2>1 DEF Data, WaitsForHeaders, r
  <2>3. CASE HeadersTooLong(Data(n)) /\ Fail
    <3>1. ~complete' /\ parse_error'
      BY <2>1, <2>3 DEF Fail, Finished
    <3>2. Outcome(r) = [status |-> IF Len(r) > max_header_bytes THEN "Error" ELSE "Incomplete"]
      BY <2>1, <2>2, OutcomeWithoutHeaders
    <3>3. Outcome(r).status = "Error"
      BY <2>2, <2>3, <3>2 DEF HeadersTooLong
    <3> QED BY <1>7, <3>1, <3>3
  <2>4. CASE /\ ~HeadersTooLong(Data(n))
             /\ UNCHANGED <<parsed_request, content_length, headers_parsed, complete, parse_error>>
    <3>1. WaitsForHeaders'
      BY <1>3, <1>4, <2>1, <2>2, <2>4 DEF WaitsForHeaders, HeadersTooLong
    <3> QED BY <1>1, <1>9, <2>1, <2>4, <3>1 DEF IInv, Finished, FeedHeaders
  <2> QED BY <1>9, <2>3, <2>4 DEF FeedHeaders
<1>10. CASE FeedBadHeaders(n)
  <2>1. PICK i \in FindSeparator(Data(n)) :
          ~HeadersFit(i) \/ ~ParseHeaders(SubSeq(Data(n), 1, i), max_body_bytes).ok
    BY <1>10 DEF FeedBadHeaders
  <2>2. ~complete' /\ parse_error' /\ ~Finished /\ WaitsForHeaders
    BY <1>10 DEF FeedBadHeaders, Fail, Finished, IInv
  <2>3. Data(n) = r
    BY <2>2 DEF Data, WaitsForHeaders, r
  <2>4. FindSeparator(r) = {i} /\ i \in Nat /\ i + 4 <= Len(r)
    <3>1. i \in Separators(r) /\ FindSeparator(r) = {i}
      BY <2>1, <2>3, SeparatorUnique DEF FindSeparator
    <3> QED BY <1>4, <3>1 DEF Separators
  <2>5. CASE ~HeadersFit(i)
    <3>1. Len(r) > max_header_bytes
      BY <1>4, <2>4, <2>5 DEF HeadersFit
    <3>2. Outcome(r).status = "Error"
      BY <2>4, <2>5, <3>1, OutcomeWithHeaders
    <3> QED BY <1>7, <2>2, <3>2
  <2>6. CASE HeadersFit(i)
    <3>1. Outcome(r).status = "Error"
      BY <2>1, <2>3, <2>4, <2>6, OutcomeWithHeaders
    <3> QED BY <1>7, <2>2, <3>1
  <2> QED BY <2>5, <2>6
<1>11. CASE FeedGoodHeaders(n)
  <2>1. ~Finished /\ WaitsForHeaders
    BY <1>11 DEF FeedGoodHeaders, IInv
  <2>2. Data(n) = Received'
    BY <1>3, <2>1 DEF Data, WaitsForHeaders, r
  <2>3. PICK i \in FindSeparator(Received') :
          LET h == ParseHeaders(SubSeq(Received', 1, i), max_body_bytes) IN
          /\ HeadersFit(i) /\ h.ok
          /\ TakeBody(EraseHeaders(Received', i), h.request, h.length)
    BY <1>11, <2>2, Zenon DEF FeedGoodHeaders
  <2> QED BY <1>1, <1>3, <1>4, <2>1, <2>3, BodyTaken
<1>12. CASE FeedBody(n)
  <2>1. ~Finished /\ TakeBody(Data(n), parsed_request, content_length)
    BY <1>12 DEF FeedBody
  <2>2. PICK i \in FindSeparator(Received) :
          LET h == ParseHeaders(SubSeq(Received, 1, i), max_body_bytes) IN
          /\ HeadersFit(i) /\ h.ok
          /\ content_length = h.length /\ parsed_request = h.request
          /\ buffer = EraseHeaders(Received, i)
    BY <1>12, <2>1 DEF FeedBody, IInv, WaitsForBody
  <2>3. /\ FindSeparator(r) = {i} /\ i \in Nat /\ i + 4 <= Len(Received)
        /\ SubSeq(r, 1, i) = SubSeq(Received, 1, i)
    BY <1>3, SeparatorStays DEF r
  <2>4. Data(n) = EraseHeaders(r, i)
    <3>1. Data(n) = EraseHeaders(Received, i) \o Chunk(n)
      BY <2>2, Zenon DEF Data
    <3> QED BY <1>3, <2>3, <3>1, RestGrows DEF r
  <2>5. i \in FindSeparator(Received')
    BY <1>3, <2>3
  <2>6. \E h : /\ h = ParseHeaders(SubSeq(Received', 1, i), max_body_bytes)
               /\ h.ok /\ TakeBody(EraseHeaders(Received', i), h.request, h.length)
    BY <1>3, <2>1, <2>2, <2>3, <2>4, Zenon
  <2>7. HeadersFit(i)
    BY <2>2
  <2> QED BY <1>1, <1>3, <1>4, <2>1, <2>5, <2>6, <2>7, BodyTaken
<1> QED BY <1>6, <1>8, <1>9, <1>10, <1>11, <1>12 DEF Feed

\* So does a step in which nothing changes.
LEMMA StutterKeepsInvariant == IInv /\ UNCHANGED vars => IInv'
<1> SUFFICES ASSUME IInv, UNCHANGED vars PROVE IInv'
  OBVIOUS
<1>1. Received' = Received /\ UNCHANGED parserVars /\ UNCHANGED inputVars /\ fed' = fed
  BY DEF vars, Received, inputVars
<1>2. Bytes' = Bytes /\ Finished' = Finished /\ headers_parsed' = headers_parsed
  BY <1>1 DEF Bytes, Finished, parserVars, inputVars
<1>3. TypeOK'
  BY <1>1, <1>2, Zenon DEF IInv, TypeOK, parserVars, inputVars
<1>4. WaitsForHeaders => WaitsForHeaders'
  BY <1>1 DEF WaitsForHeaders, parserVars, inputVars
<1>5. WaitsForBody => WaitsForBody'
  BY <1>1, Zenon DEF WaitsForBody, HeadersFit, parserVars, inputVars
<1>6. Outcome(Received)' = Outcome(Received) /\ ChunksFit' = ChunksFit
  BY <1>1, OutcomePrime DEF inputVars
<1>7. Decided => Decided'
  BY <1>1, <1>6, Zenon DEF Decided, parserVars
<1> QED BY <1>2, <1>3, <1>4, <1>5, <1>7, Zenon DEF IInv

\* The invariant holds always.
LEMMA InvariantHolds == Spec => []IInv
<1>1. IInv /\ [Next]_vars => IInv'
  BY StepKeepsInvariant, StutterKeepsInvariant DEF Next
<1> QED BY Initially, <1>1, PTL DEF Spec

\* For every input, limits and chunk sizes: what feed reports, and the request
\* it delivers, depend on the bytes received and not on how read() cut them,
\* unless a chunk is larger than a limit.
THEOREM VerdictIndependentOfChunks == Spec => []ChunkingIrrelevant
<1>1. IInv => ChunkingIrrelevant
  <2> SUFFICES ASSUME IInv PROVE ChunkingIrrelevant
    OBVIOUS
  <2>0. max_header_bytes \in Nat /\ max_body_bytes \in Nat
    BY DEF IInv, TypeOK
  <2>1. CASE ~Finished /\ ~headers_parsed
    <3>1. FindSeparator(Received) = {} /\ Len(Received) <= max_header_bytes
      BY <2>1 DEF IInv, WaitsForHeaders
    <3>2. Outcome(Received) = [status |-> IF Len(Received) > max_header_bytes THEN "Error" ELSE "Incomplete"]
      BY <3>1, OutcomeWithoutHeaders
    <3>3. Len(Received) \in Nat
      BY DEF IInv, TypeOK, Received
    <3>4. Outcome(Received).status = "Incomplete"
      BY <2>0, <3>1, <3>2, <3>3
    <3> QED BY <2>1, <3>4 DEF ChunkingIrrelevant, Status, Finished
  <2>2. CASE ~Finished /\ headers_parsed
    <3>1. PICK i \in FindSeparator(Received) :
            LET h == ParseHeaders(SubSeq(Received, 1, i), max_body_bytes) IN
            HeadersFit(i) /\ h.ok /\ Len(Received) - (i + 4) < h.length
      BY <2>2 DEF IInv, WaitsForBody
    <3>2. FindSeparator(Received) = {i}
      BY SeparatorUnique
    <3>3. Outcome(Received) = [status |-> "Incomplete"]
      BY <3>1, <3>2, OutcomeWithHeaders
    <3> QED BY <2>2, <3>3 DEF ChunkingIrrelevant, Status, Finished
  <2>3. CASE Finished
    <3>1. Decided
      BY <2>3 DEF IInv
    <3> QED BY <3>1 DEF Decided, ChunkingIrrelevant, Status
  <2> QED BY <2>1, <2>2, <2>3
<1> QED BY <1>1, InvariantHolds, PTL

\* For every input, limits and chunk sizes: an incomplete request holds at most
\* the header limit, or less than a body within the body limit.
THEOREM RequestMemoryBounded == Spec => []BufferBounded
<1>1. IInv => BufferBounded
  <2> SUFFICES ASSUME IInv, Status = "Incomplete" PROVE BufferBounded
    BY DEF BufferBounded
  <2>0. max_header_bytes \in Nat /\ max_body_bytes \in Nat
    BY DEF IInv, TypeOK
  <2>1. ~Finished
    BY DEF Status, Finished
  <2>2. CASE ~headers_parsed
    BY <2>1, <2>2 DEF IInv, WaitsForHeaders, BufferBounded
  <2>3. CASE headers_parsed
    <3>1. PICK i \in FindSeparator(Received) :
            LET h == ParseHeaders(SubSeq(Received, 1, i), max_body_bytes) IN
            /\ h.ok /\ content_length = h.length
            /\ buffer = EraseHeaders(Received, i)
            /\ Len(Received) - (i + 4) < h.length
      BY <2>1, <2>3 DEF IInv, WaitsForBody
    <3>2. content_length \in 0..max_body_bytes
      BY <2>0, <3>1, LengthWithinLimit
    <3>3. Received \in Seq(Bytes)
      BY DEF IInv, TypeOK, Received
    <3>4. i \in Nat /\ i + 4 <= Len(Received)
      BY <3>3 DEF FindSeparator, Separators
    <3>5. Len(buffer) = Len(Received) - (i + 4)
      BY <3>1, <3>3, <3>4 DEF EraseHeaders
    <3>6. Len(buffer) < content_length
      BY <3>1, <3>5
    <3> QED BY <2>0, <2>3, <3>2, <3>6 DEF BufferBounded
  <2> QED BY <2>2, <2>3
<1> QED BY <1>1, InvariantHolds, PTL
\* A header block that parses frames the body in one way.
LEMMA OneLength ==
  ASSUME NEW block, NEW max_body \in Nat, ParseHeaders(block, max_body).ok,
         NEW fields, fields = Tail(Lines(block)),
         NEW length, length = ParseHeaders(block, max_body).length
  PROVE  /\ \A i \in Places(fields, Named("content-length")) : NumberOf(ValueOf(fields[i])) = length
         /\ Places(fields, Named("content-length")) = {} => length = 0
         /\ Places(fields, Named("transfer-encoding")) = {}
<1> DEFINE v == CHOOSE v \in Lengths(fields) : TRUE
<1>1. /\ LengthsAgree(fields)
      /\ Places(fields, Named("transfer-encoding")) = {}
      /\ length = IF Lengths(fields) = {} THEN 0 ELSE NumberOf(v)
  BY DEF ParseHeaders
<1>2. ASSUME NEW i \in Places(fields, Named("content-length"))
      PROVE  NumberOf(ValueOf(fields[i])) = length
  <2>1. ValueOf(fields[i]) \in Lengths(fields)
    BY Zenon DEF Lengths
  <2>2. v \in Lengths(fields)
    BY <2>1, Zenon
  <2> HIDE DEF v
  <2>3. v = ValueOf(fields[i])
    BY <1>1, <2>1, <2>2, Zenon DEF LengthsAgree
  <2> QED BY <1>1, <2>1, <2>3, Zenon
<1>3. Places(fields, Named("content-length")) = {} => Lengths(fields) = {}
  BY Zenon DEF Lengths
<1> QED BY <1>1, <1>2, <1>3, Zenon

\* For every input, limits and chunk sizes: a complete request was framed by one
\* length, whatever content-length fields came in whatever chunks.
THEOREM RequestsFramedOnce == Spec => []FramedOnce
<1>1. ASSUME IInv, complete, NEW i \in FindSeparator(Received)
      PROVE  LET fields == Tail(Lines(SubSeq(Received, 1, i)))
                 names == {NameOf(fields[j]) : j \in DOMAIN fields}
                 lengths == {NumberOf(ValueOf(fields[j])) :
                               j \in {k \in DOMAIN fields : NameOf(fields[k]) = Named("content-length")}}
             IN /\ lengths \subseteq {Len(parsed_request.body)}
                /\ lengths = {} => parsed_request.body = <<>>
                /\ Named("transfer-encoding") \notin names
  <2> DEFINE h == ParseHeaders(SubSeq(Received, 1, i), max_body_bytes)
             fields == Tail(Lines(SubSeq(Received, 1, i)))
             body == SubSeq(Received, i + 5, i + 4 + h.length)
  <2>1. TypeOK /\ Decided /\ Received \in Seq(Bytes) /\ max_body_bytes \in Nat
    BY <1>1 DEF IInv, Finished, TypeOK, Received
  <2>2. Outcome(Received).status = "Complete" /\ Outcome(Received).request = parsed_request
    BY <1>1, <2>1 DEF Decided
  <2>3. FindSeparator(Received) = {i}
    BY SeparatorUnique
  <2>4. Outcome(Received) =
           IF HeadersFit(i)
           THEN IF ~h.ok THEN [status |-> "Error"]
                ELSE IF Len(Received) - (i + 4) < h.length THEN [status |-> "Incomplete"]
                ELSE [status |-> "Complete", request |-> [h.request EXCEPT !.body = body]]
           ELSE [status |-> IF Len(Received) > max_header_bytes THEN "Error" ELSE "Incomplete"]
    BY <2>3, OutcomeWithHeaders
  <2> HIDE DEF body
  <2>5. h.ok => h.request = [line |-> h.request.line, headers |-> h.request.headers, body |-> <<>>]
    BY ZenonT(30) DEF ParseHeaders
  <2> HIDE DEF h
  <2>6. h.ok /\ ~(Len(Received) - (i + 4) < h.length) /\ parsed_request = [h.request EXCEPT !.body = body]
    BY <2>2, <2>4
  <2>7. parsed_request.body = body
    BY <2>5, <2>6
  <2>8. h.length \in Nat
    BY <2>1, <2>6, LengthWithinLimit DEF h
  <2>9. i \in Nat /\ i + 4 <= Len(Received)
    BY <2>1 DEF FindSeparator, Separators
  <2>10. Len(body) = h.length /\ (h.length = 0 => body = <<>>)
    <3>1. Len(body) = h.length /\ body \in Seq(Bytes)
      BY <2>1, <2>6, <2>8, <2>9, SMTT(30) DEF body
    <3> QED BY <3>1
  <2>11. /\ \A j \in Places(fields, Named("content-length")) : NumberOf(ValueOf(fields[j])) = h.length
         /\ Places(fields, Named("content-length")) = {} => h.length = 0
         /\ Places(fields, Named("transfer-encoding")) = {}
    BY <2>1, <2>6, OneLength, ZenonT(30) DEF h
  <2> HIDE DEF fields
  <2>12. /\ {NumberOf(ValueOf(fields[j])) :
                j \in {k \in DOMAIN fields : NameOf(fields[k]) = Named("content-length")}} \subseteq {Len(body)}
         /\ {NumberOf(ValueOf(fields[j])) :
                j \in {k \in DOMAIN fields : NameOf(fields[k]) = Named("content-length")}} = {} => body = <<>>
         /\ Named("transfer-encoding") \notin {NameOf(fields[j]) : j \in DOMAIN fields}
    BY <2>10, <2>11, Zenon DEF Places
  <2> QED BY <2>7, <2>12, Zenon DEF fields
<1>2. IInv => FramedOnce
  BY <1>1, Zenon DEF FramedOnce
<1> QED BY <1>2, InvariantHolds, PTL
=============================================================================
