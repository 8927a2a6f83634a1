------------------------------ MODULE Session ------------------------------
(***************************************************************************)
(* One session from the handler's point of view: the dispatch of           *)
(* src/protocols/mod.rs over the four protocols, the raw handler of        *)
(* src/protocols/raw.rs, and the cancellation by handle_session            *)
(* (src/server.rs), which may drop the handler at any read or write.       *)
(* Sensor models what becomes of the record afterwards.                    *)
(***************************************************************************)
EXTENDS Telnet, Http, Ssh

vars == <<ioVars, telnetVars, httpVars, sshVars>>

\* handle: where each protocol's handler begins.
FirstPlace ==
  CASE config.protocol = "ssh"    -> "banner"
    [] config.protocol = "http"   -> "headers"
    [] config.protocol = "telnet" -> IF config.banner THEN "banner" ELSE "prompt"
    [] config.protocol = "raw"    -> IF config.banner THEN "banner" ELSE "read"

Init == InitIo /\ pc = FirstPlace /\ InitTelnet /\ InitHttp /\ InitSsh

-----------------------------------------------------------------------------
(* The raw handler                                                         *)

Raw == config.protocol = "raw"

RawBanner ==
  /\ Raw /\ pc = "banner"
  /\ \/ Goto("read", session)
     \/ \E why \in WriteFailures : Leave(why, session)
  /\ UNCHANGED <<config, stream>>

RawRead ==
  /\ Raw /\ pc = "read"
  /\ \E chunk \in Chunks(Available(BufferSize)) :
       /\ stream' = stream \o chunk
       /\ Goto("read", record_bytes(session, chunk))
  /\ UNCHANGED config

RawReadEnds ==
  /\ Raw /\ pc = "read"
  /\ \E why \in ReadFailures(BufferSize) : Leave(why, session)
  /\ UNCHANGED <<config, stream>>

RawStep == RawBanner \/ RawRead \/ RawReadEnds

-----------------------------------------------------------------------------

\* A session that is over stays over.
Over == Closed /\ UNCHANGED vars

Next ==
  \/ TelnetStep /\ UNCHANGED <<httpVars, sshVars>>
  \/ HttpStep /\ UNCHANGED <<telnetVars, sshVars>>
  \/ SshStep /\ UNCHANGED <<telnetVars, httpVars>>
  \/ RawStep /\ UNCHANGED <<telnetVars, httpVars, sshVars>>
  \/ Cancel /\ UNCHANGED <<telnetVars, httpVars, sshVars>>
  \/ Over

Spec == Init /\ [][Next]_vars

-----------------------------------------------------------------------------
(* Properties of every record                                              *)

\* The numbers of the record are true of what was read, whatever the reads
\* were: never more than the session's input limit, "byte_limit" only when it
\* is used up, the preview the longest prefix that is allowed,
\* "bytes_truncated" exactly if the preview is not everything, and no event
\* missing from the list.
RecordTruthful ==
  /\ session.bytes_received = Len(stream) /\ Len(stream) <= config.input_limit
  /\ reason = "byte_limit" => Len(stream) = config.input_limit
  /\ session.preview =
       IF config.mode = "full" THEN SubSeq(stream, 1, Least(config.preview_limit, Len(stream)))
       ELSE <<>>
  /\ bytes_truncated <=> /\ config.mode = "full" /\ config.preview_limit > 0
                         /\ Len(stream) > config.preview_limit
  /\ ~session.events_truncated

Metadata == config.mode = "metadata"

\* The longest beginning of a path that has neither a query nor a fragment.
IsBeforeMarks(text, path) ==
  \E n \in 0..Len(path) :
    /\ text = SubSeq(path, 1, n)
    /\ \A k \in 1..n : path[k] \notin Marks
    /\ n < Len(path) => path[n + 1] \in Marks

\* A login in the record: in metadata mode only whether there was a password.
LoginMinimized(event) ==
  /\ event.credentials_redacted <=> Metadata
  /\ Metadata => event.username = Redacted /\ event.password \in {Absent, Redacted}

\* The event of the request r in the record: the method and the version as
\* they were sent, the path as capture_http_path and the mode allow, the names
\* of the host and of the client in full mode.
RequestMinimized(event, r) ==
  /\ event.method = <<"method">> /\ event.version = <<r.line>>
  /\ ~config.capture_http_path => event.path = Redacted
  /\ config.capture_http_path /\ ~Metadata => event.path = r.path
  /\ config.capture_http_path /\ Metadata => IsBeforeMarks(event.path, r.path)
  /\ event.host = Text(~Metadata /\ Count("host", r) > 0, "host")
  /\ event.user_agent = Text(~Metadata /\ Count("user_agent", r) > 0, "agent")

\* The matrix of docs/CONFIGURATION.md:30-40, for the preview and the events
\* of every record: what each mode hides is hidden, and what it keeps is kept.
\* An SSH identification is kept in both modes, and the preview of full mode
\* holds the raw bytes, a path among them, whatever capture_http_path says:
\* that setting is about the event alone.
PrivacyKept ==
  /\ Metadata => session.preview = <<>>
  /\ \A k \in DOMAIN session.events :
       LET event == session.events[k] IN
       /\ event.kind = "telnet_login" => LoginMinimized(event)
       /\ event.kind = "http_request" =>
            request # NoRequest /\ RequestMinimized(event, request)

=============================================================================
