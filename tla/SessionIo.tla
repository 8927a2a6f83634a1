----------------------------- MODULE SessionIo -----------------------------
(***************************************************************************)
(* What every protocol handler works on: the record of its session         *)
(* (src/session.rs: SessionState) and the bounded reads and writes of      *)
(* src/protocols/mod.rs (SessionIo).  The handlers are the modules Telnet, *)
(* Http and Ssh; Session puts them together.                               *)
(*                                                                         *)
(* A handler runs from one read or write to the next, and only there can   *)
(* it be cancelled.  pc names the read or write it waits in.  What the     *)
(* client sends is chosen when it is read, in chunks of any size the       *)
(* buffer allows, so that a line may arrive in any number of pieces.       *)
(***************************************************************************)
EXTENDS Integers, Sequences, FiniteSets, SequencesExt

CONSTANTS BufferSize, \* size of a handler's read buffer
          MAX_EVENTS, \* events kept in one record
          Configs     \* settings: protocol, input_limit, preview_limit, mode,
                      \* capture_http_path, banner; and bytes, the kinds of
                      \* bytes the client sends

ASSUME IoAssumption ==
  /\ BufferSize \in Nat \ {0}
  /\ MAX_EVENTS \in Nat
  /\ \A c \in Configs :
       /\ c.protocol \in {"raw", "ssh", "http", "telnet"}
       /\ c.input_limit \in Nat \ {0}
       /\ c.preview_limit \in 0..c.input_limit
       /\ c.mode \in {"metadata", "full"}
       /\ c.capture_http_path \in BOOLEAN
       /\ c.banner \in BOOLEAN
       /\ "None" \notin c.bytes  \* it stands for no text

VARIABLES
  config,    \* the settings of this session
  stream,    \* history: every byte read, in order
  session,   \* SessionState: bytes_received, preview, events, events_truncated
  pc,        \* the read or write the handler waits in, or "closed"
  reason     \* CloseReason, "none" while the session is open

ioVars == <<config, stream, session, pc, reason>>

Closed == pc = "closed"

InitIo ==
  /\ config \in Configs
  /\ stream = <<>>
  /\ session = [bytes_received |-> 0, preview |-> <<>>,
                events |-> <<>>, events_truncated |-> FALSE]
  /\ reason = "none"

-----------------------------------------------------------------------------
(* SessionState                                                            *)

Least(a, b) == IF a < b THEN a ELSE b

remaining_input ==
  IF session.bytes_received >= config.input_limit THEN 0
  ELSE config.input_limit - session.bytes_received

\* (mutant) the bound is applied to each chunk by itself
record_bytes_chunk(s, chunk) ==
  [s EXCEPT !.bytes_received = @ + Len(chunk),
            !.preview = IF config.mode = "full"
                        THEN @ \o SubSeq(chunk, 1, Least(config.preview_limit, Len(chunk)))
                        ELSE @]

record_bytes(s, chunk) ==
  LET take == Least(config.preview_limit - Len(s.preview), Len(chunk))
  IN  [s EXCEPT !.bytes_received = @ + Len(chunk),
                !.preview = IF config.mode = "full" THEN @ \o SubSeq(chunk, 1, take) ELSE @]

\* A text is a sequence; these two stand for None and for what privacy hides.
Absent == <<"None">>
Redacted == <<"[redacted]">>

Notice(msg) == [kind |-> "notice", msg |-> msg]
SshClientBanner(text) == [kind |-> "ssh_client_banner", banner |-> text]
TelnetLogin(username, password) ==
  [kind |-> "telnet_login", username |-> username, password |-> password,
   credentials_redacted |-> FALSE]
HttpRequest(method, path, version, host, user_agent) ==
  [kind |-> "http_request", method |-> method, path |-> path, version |-> version,
   host |-> host, user_agent |-> user_agent]

\* A path up to its query or fragment, whichever begins first.
Marks == {"?", "#"}
Cut(path) ==
  LET mark == SelectInSeq(path, LAMBDA c : c \in Marks) IN
  IF mark = 0 THEN path ELSE SubSeq(path, 1, mark - 1)

HttpRedacted(event, path) ==
  [event EXCEPT !.path = path,
                !.host = IF config.mode = "metadata" THEN Absent ELSE @,
                !.user_agent = IF config.mode = "metadata" THEN Absent ELSE @]

LoginRedacted(event) ==
  [event EXCEPT !.username = Redacted,
                !.password = IF @ = Absent THEN Absent ELSE Redacted,
                !.credentials_redacted = TRUE]

\* (mutant) the mode is looked at first, and hides the other setting
redact_mode_first(event) ==
  CASE event.kind = "http_request" ->
         HttpRedacted(event, IF config.mode = "metadata" THEN Cut(event.path)
                             ELSE IF ~config.capture_http_path THEN Redacted ELSE event.path)
    [] event.kind = "telnet_login" /\ config.mode = "metadata" -> LoginRedacted(event)
    [] OTHER -> event

redact(event) ==
  CASE event.kind = "http_request" ->
         HttpRedacted(event, IF ~config.capture_http_path THEN Redacted
                             ELSE IF config.mode = "metadata" THEN Cut(event.path) ELSE event.path)
    [] event.kind = "telnet_login" /\ config.mode = "metadata" -> LoginRedacted(event)
    [] OTHER -> event

push_event(s, event) ==
  IF Len(s.events) >= MAX_EVENTS
  THEN [s EXCEPT !.events_truncated = TRUE]
  ELSE [s EXCEPT !.events = Append(@, redact(event))]

notice(s, msg) == push_event(s, Notice(msg))

-----------------------------------------------------------------------------
(* SessionIo: the outcomes of a read and of a write                        *)

Available(buffer) == Least(remaining_input, buffer)

\* The chunks of 1 to n bytes a read can give; they count before they are seen.
Chunks(n) == UNION {[1..k -> config.bytes] : k \in 1..n}

\* What a read gives instead of bytes: the client is gone, the read failed or
\* took too long, or the session has no input left to read.
ReadFailures(buffer) ==
  IF Available(buffer) = 0 THEN {"byte_limit"}
  ELSE {"client_closed", "timeout", "error"}

WriteFailures == {"timeout", "error"}

Close(why) ==
  /\ pc' = "closed"
  /\ reason' = why

\* The handler goes on to its next read or write, with the record at s ...
Goto(place, s) ==
  /\ pc' = place
  /\ session' = s
  /\ UNCHANGED reason

\* ... or returns.
Leave(why, s) ==
  /\ Close(why)
  /\ session' = s

\* handle_session drops the handler where it waits, with its locals.
Cancel ==
  /\ ~Closed
  /\ \E why \in {"shutdown", "lifetime_limit"} : Close(why)
  /\ UNCHANGED <<config, stream, session>>

\* finalize: the fields of the record that are computed at the end.
payload_captured == config.mode = "full" /\ config.preview_limit > 0
bytes_truncated ==
  payload_captured /\ session.bytes_received > Len(session.preview)

=============================================================================
