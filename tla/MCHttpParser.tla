---------------------------- MODULE MCHttpParser ----------------------------
(***************************************************************************)
(* Small instances of HttpParser for TLC: requests of a request line, up   *)
(* to two header fields, well-formed or not, and some bytes after them.    *)
(***************************************************************************)
EXTENDS HttpParser

EndOfLine == <<CR, LF>>
RequestLines == {<<Request("get")>>, <<Text>>, <<Request("get"), Text>>}

Length(text, number) == Field("content-length", text, number)
Host == Field("host", "h", NotANumber)

FieldLines ==
  { <<Length("1", 1)>>, <<Length("01", 1)>>, <<Length("2", 2)>>, <<Length("9", 9)>>,
    <<Length("x", NotANumber)>>, <<Length("1", 1), Text>>, <<Text, Length("1", 1)>>,
    <<Host>>, <<Host, CR>>, <<Host, LF, Host>>, <<Text>>, <<Field("", "v", NotANumber)>>,
    <<Field("transfer-encoding", "chunked", NotANumber)>> }

HeaderBlocks ==
  {<<>>} \cup {f \o EndOfLine : f \in FieldLines}
  \cup {f \o EndOfLine \o g \o EndOfLine : f \in FieldLines, g \in FieldLines}

\* A body, a request without the empty line, and bytes behind the request.
Endings ==
  {<<>>, <<Text>>, EndOfLine, EndOfLine \o <<Text>>, EndOfLine \o <<Text, CR, LF>>}

MCStreams ==
  {EndOfLine \o EndOfLine, <<Request("get"), LF, LF, CR, CR, LF>>}
  \cup {r \o EndOfLine \o h \o e : r \in RequestLines, h \in HeaderBlocks, e \in Endings}

\* Limits that all chunks fit, with the header limit at, above and below the
\* size of a request, and a body limit below the size of a chunk.
MCLimits == {<<8, 3>>, <<12, 3>>, <<5, 3>>, <<9, 1>>}
=============================================================================
