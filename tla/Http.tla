-------------------------------- MODULE Http --------------------------------
(***************************************************************************)
(* The HTTP handler (src/protocols/http.rs): it collects bytes until the   *)
(* blank line that ends the headers, parses the request strictly, records  *)
(* it, writes one response and closes.                                     *)
(*                                                                         *)
(* For the framing bytes are "CR", "LF" and others; the request that was   *)
(* framed is chosen when it is parsed, from Requests: its first line and   *)
(* its headers by their kind, its path piece by piece.                     *)
(***************************************************************************)
EXTENDS SessionIo

CONSTANTS MAX_HEADER_BYTES, MAX_HEADER_COUNT, Requests

\* Kinds of header lines; the _bad ones have a value the parser refuses.
HeaderKinds == {"host", "host_bad", "user_agent", "content_length", "content_length_bad",
                "transfer_encoding", "transfer_encoding_bad", "other", "malformed"}

\* Kinds of first lines.
LineKinds == {"1.0", "1.1", "invalid_request_line", "unsupported_version", "invalid_target"}

\* The pieces of a path; a "?" may follow a "#" and the other way round.
PathPieces == {"path", "query", "fragment"} \cup Marks

ASSUME HttpAssumption ==
  /\ MAX_HEADER_BYTES \in Nat \ {0}
  /\ MAX_HEADER_COUNT \in Nat
  /\ \A r \in Requests :
       r.line \in LineKinds /\ r.path \in Seq(PathPieces) /\ r.headers \in Seq(HeaderKinds)

VARIABLES
  headers,    \* the bytes collected
  header_end, \* where the blank line ends, 0 until it is found
  request,    \* the request that was parsed, else NoRequest
  status      \* the response being written: 0 none, 1 the configured one

httpVars == <<headers, header_end, request, status>>

NoRequest == [line |-> "none", path |-> <<>>, headers |-> <<>>]

InitHttp ==
  /\ headers = <<>>
  /\ header_end = 0
  /\ request = NoRequest
  /\ status = 0

Http == config.protocol = "http"

-----------------------------------------------------------------------------
(* parse_request                                                           *)

Error(message, acc) == [acc EXCEPT !.error = IF @ = "none" THEN message ELSE @]

\* (mutant) the last of several framings wins
TakeHeader_lenient(acc, kind) ==
  IF acc.count >= MAX_HEADER_COUNT THEN Error("http_too_many_headers", acc)
  ELSE CASE kind = "host" -> [acc EXCEPT !.host = TRUE]
         [] kind \in {"host_bad", "malformed", "content_length_bad", "transfer_encoding_bad"} ->
              Error("http_invalid_header", acc)
         [] kind = "content_length" -> [acc EXCEPT !.content_length = TRUE]
         [] kind = "transfer_encoding" -> [acc EXCEPT !.transfer_encoding = TRUE]
         [] kind = "user_agent" -> [acc EXCEPT !.user_agent = TRUE]
         [] OTHER -> acc

TakeHeader(acc, kind) ==
  IF acc.count >= MAX_HEADER_COUNT THEN Error("http_too_many_headers", acc)
  ELSE CASE kind = "malformed" -> Error("http_invalid_header", acc)
         [] kind \in {"host", "host_bad"} ->
              IF kind = "host_bad" \/ acc.host THEN Error("http_invalid_host", acc)
              ELSE [acc EXCEPT !.host = TRUE]
         [] kind \in {"content_length", "content_length_bad"} ->
              IF kind = "content_length_bad" \/ acc.content_length
              THEN Error("http_invalid_content_length", acc)
              ELSE [acc EXCEPT !.content_length = TRUE]
         [] kind \in {"transfer_encoding", "transfer_encoding_bad"} ->
              IF kind = "transfer_encoding_bad" \/ acc.transfer_encoding
              THEN Error("http_invalid_transfer_encoding", acc)
              ELSE [acc EXCEPT !.transfer_encoding = TRUE]
         [] kind = "user_agent" -> [acc EXCEPT !.user_agent = TRUE]
         [] OTHER -> acc

LineError(first) ==
  CASE first = "invalid_request_line" -> "http_invalid_request_line"
    [] first = "unsupported_version" -> "http_unsupported_version"
    [] first = "invalid_target" -> "http_invalid_target"
    [] OTHER -> "none"

\* The headers in order, up to the first error, and the checks after them.
parse_request(r) ==
  LET start == [error |-> LineError(r.line), count |-> 0, host |-> FALSE, user_agent |-> FALSE,
                content_length |-> FALSE, transfer_encoding |-> FALSE]
      read == FoldLeft(LAMBDA acc, kind : [TakeHeader(acc, kind) EXCEPT !.count = @ + 1],
                       start, r.headers)
  IN  IF read.error # "none" THEN read
      ELSE IF r.line = "1.1" /\ ~read.host THEN Error("http_missing_host", read)
      ELSE IF read.transfer_encoding /\ read.content_length
      THEN Error("http_ambiguous_framing", read)
      ELSE read

Text(given, name) == IF given THEN <<name>> ELSE Absent

Event(r, read) ==
  HttpRequest(<<"method">>, r.path, <<r.line>>,
              Text(read.host, "host"), Text(read.user_agent, "agent"))

-----------------------------------------------------------------------------
(* handle                                                                  *)

DelimiterAt(s, k) == SubSeq(s, k, k + 3) = <<"CR", "LF", "CR", "LF">>

\* (mutant) only the new bytes are searched
scan_from_new(before) == Len(before)

\* The last three bytes of the earlier reads are searched again.
scan_from(before) == IF Len(before) < 3 THEN 0 ELSE Len(before) - 3

Delimiters(s, from) == {k \in (from + 1)..(Len(s) - 3) : DelimiterAt(s, k)}

FirstOf(S) == CHOOSE k \in S : \A j \in S : k <= j

ReadSize == Least(MAX_HEADER_BYTES - Len(headers), BufferSize)

Respond(code, s) ==
  /\ status' = code
  /\ Goto("respond", s)

\* A read brings bytes, and the blank line is not among them yet.
ReadMore ==
  /\ Http /\ pc = "headers"
  /\ \E chunk \in Chunks(Available(ReadSize)) :
       LET s == record_bytes(session, chunk) IN
       /\ stream' = stream \o chunk
       /\ headers' = headers \o chunk
       /\ Delimiters(headers', scan_from(headers)) = {}
       /\ IF Len(headers') = MAX_HEADER_BYTES
          THEN Respond(431, notice(s, "http_headers_too_large"))
          ELSE Goto("headers", s) /\ UNCHANGED status
  /\ UNCHANGED <<config, header_end, request>>

\* A read brings the end of the headers.
ReadRequest ==
  /\ Http /\ pc = "headers"
  /\ \E chunk \in Chunks(Available(ReadSize)), r \in Requests :
       LET s == record_bytes(session, chunk)
           read == parse_request(r)
           ends == Delimiters(headers \o chunk, scan_from(headers))
       IN
       /\ stream' = stream \o chunk
       /\ headers' = headers \o chunk
       /\ ends # {}
       /\ header_end' = FirstOf(ends) + 3
       /\ request' = r
       /\ IF read.error = "none" THEN Respond(1, push_event(s, Event(r, read)))
          ELSE Respond(400, notice(s, read.error))
  /\ UNCHANGED config

HeadersEnd ==
  /\ Http /\ pc = "headers"
  /\ \E why \in ReadFailures(ReadSize) :
       Leave(why, IF why = "client_closed" /\ headers # <<>>
                  THEN notice(session, "http_incomplete_headers") ELSE session)
  /\ UNCHANGED <<config, stream, httpVars>>

WriteResponse ==
  /\ Http /\ pc = "respond"
  /\ \E why \in WriteFailures \cup {IF status = 1 THEN "server_closed" ELSE "protocol_error"} :
       Leave(why, session)
  /\ UNCHANGED <<config, stream, httpVars>>

HttpStep == ReadMore \/ ReadRequest \/ HeadersEnd \/ WriteResponse

-----------------------------------------------------------------------------
(* Properties                                                              *)

Ends == {k + 3 : k \in Delimiters(stream, 0)}

\* The end of the headers is the first blank line of the whole stream, also
\* when it falls across reads or exactly on MAX_HEADER_BYTES; a client is told
\* 431 only if the first MAX_HEADER_BYTES bytes hold none, and no byte after
\* that is read.
HttpFraming ==
  Http =>
    /\ pc = "headers" => Ends = {} /\ Len(stream) < MAX_HEADER_BYTES
    /\ request # NoRequest => Ends # {} /\ header_end = FirstOf(Ends)
    /\ status = 431 => Ends = {} /\ Len(stream) = MAX_HEADER_BYTES
    /\ Len(stream) <= MAX_HEADER_BYTES

Count(kind, r) == Cardinality({k \in DOMAIN r.headers : r.headers[k] = kind})

\* A request the handler may record, said without an order of the headers.
WellFormed(r) ==
  /\ r.line \in {"1.0", "1.1"}
  /\ Len(r.headers) <= MAX_HEADER_COUNT
  /\ \A kind \in {"malformed", "host_bad", "content_length_bad", "transfer_encoding_bad"} :
       Count(kind, r) = 0
  /\ Count("host", r) <= 1
  /\ r.line = "1.1" => Count("host", r) = 1
  /\ Count("content_length", r) + Count("transfer_encoding", r) <= 1

\* "Strict" (http.rs:1): a request is recorded, and answered with the
\* configured status, exactly if it is well formed, with one framing and one
\* host whatever the order of its headers; else the client is told 400.
HttpStrict ==
  request # NoRequest =>
    /\ WellFormed(request) <=> status = 1
    /\ WellFormed(request) <=> \E k \in DOMAIN session.events : session.events[k].kind = "http_request"

=============================================================================
