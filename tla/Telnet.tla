------------------------------- MODULE Telnet -------------------------------
(***************************************************************************)
(* The Telnet handler (src/protocols/telnet.rs): the decoder that strips   *)
(* option negotiation, the line reader with its pending input, and the     *)
(* login dialogue of at most MAX_ATTEMPTS rounds.                          *)
(*                                                                         *)
(* Bytes are classes: "IAC" 255, "WILL" one of 251..254, "SB" 250, "SE"    *)
(* 240, "CR", "LF", "NUL", and any other byte.                             *)
(***************************************************************************)
EXTENDS SessionIo

CONSTANTS MAX_LINE, MAX_ATTEMPTS

\* A record has room for the logins of one session (3 of 16 events).
ASSUME TelnetAssumption ==
  /\ MAX_LINE \in Nat \ {0}
  /\ MAX_ATTEMPTS \in Nat \ {0} /\ MAX_ATTEMPTS < MAX_EVENTS

VARIABLES
  pending,   \* LineReader.pending: read, and not yet decoded
  decoder,   \* TelnetDecoder.state
  line,      \* LineReader.line
  pending_cr,
  username,  \* the user name a password is awaited for
  attempts   \* rounds begun

readerVars == <<pending, decoder, line, pending_cr>>
telnetVars == <<readerVars, username, attempts>>

Nothing == <<>>

InitTelnet ==
  /\ pending = <<>>
  /\ decoder = "Data"
  /\ line = <<>>
  /\ pending_cr = FALSE
  /\ username = Nothing
  /\ attempts = 0

-----------------------------------------------------------------------------
(* TelnetDecoder                                                           *)

feed_state(state, byte) ==
  CASE state = "Data" -> IF byte = "IAC" THEN "Iac" ELSE "Data"
    [] state = "Iac" -> CASE byte = "WILL" -> "Option"
                          [] byte = "SB" -> "Subnegotiation"
                          [] OTHER -> "Data"
    [] state = "Option" -> "Data"
    [] state = "Subnegotiation" -> IF byte = "IAC" THEN "SubnegotiationIac" ELSE state
    [] state = "SubnegotiationIac" -> IF byte = "SE" THEN "Data" ELSE "Subnegotiation"

\* Whether the decoder hands the byte on.
feed_data(state, byte) ==
  \/ state = "Data" /\ byte # "IAC"
  \/ state = "Iac" /\ byte = "IAC"

-----------------------------------------------------------------------------
(* LineReader                                                              *)

\* (mutant) a CR is forgotten when the next byte arrives in another read
Reader_fresh(rest) ==
  [rest |-> rest, decoder |-> decoder, line |-> line, cr |-> FALSE,
   result |-> "more", text |-> <<>>]

\* The reader over a piece of input: result says how read_line goes on.
Reader(rest) ==
  [rest |-> rest, decoder |-> decoder, line |-> line, cr |-> pending_cr,
   result |-> "more", text |-> <<>>]

append(r, byte) ==
  IF Len(r.line) >= MAX_LINE THEN [r EXCEPT !.result = "too_long"]
  ELSE [r EXCEPT !.line = Append(@, byte)]

EndOfLine(r) == [r EXCEPT !.result = "line", !.text = r.line, !.line = <<>>]

\* A decoded byte that follows no CR.
TakePlain(r, byte) ==
  CASE byte = "CR" -> [r EXCEPT !.cr = TRUE]
    [] byte = "LF" -> EndOfLine(r)
    [] OTHER -> append(r, byte)

\* A decoded byte after a CR: CR LF ends a line, CR NUL is a literal CR.
TakeAfterCr(r, byte) ==
  LET s == [r EXCEPT !.cr = FALSE]
      t == append(s, "CR")
  IN  IF byte = "LF" THEN EndOfLine(s)
      ELSE IF t.result = "too_long" \/ byte = "NUL" THEN t
      ELSE TakePlain(t, byte)

TakeByte(r, byte) ==
  LET s == [r EXCEPT !.decoder = feed_state(r.decoder, byte)]
  IN  IF ~feed_data(r.decoder, byte) THEN s
      ELSE IF r.cr THEN TakeAfterCr(s, byte)
      ELSE TakePlain(s, byte)

\* The inner loop of read_line: decode until a line is complete or the
\* pending input is used up; the rest stays pending.
Scan(input) ==
  FoldLeft(LAMBDA r, byte :
             IF r.result = "more" THEN TakeByte(r, byte)
             ELSE [r EXCEPT !.rest = Append(@, byte)],
           Reader(<<>>), input)

Keep(r) ==
  /\ pending' = r.rest
  /\ decoder' = r.decoder
  /\ line' = r.line
  /\ pending_cr' = r.cr

-----------------------------------------------------------------------------
(* handle: the dialogue.  pc is the write or the read it waits in.         *)

Telnet == config.protocol = "telnet"

Login(s, password) == push_event(s, TelnetLogin(username, password))

EndRound(s) ==
  /\ attempts' = attempts + 1
  /\ Goto(IF attempts' < MAX_ATTEMPTS THEN "prompt" ELSE "farewell", s)

\* The name was given and the password was not.
LoginUnanswered(s) == Login(s, Absent)

\* read_line for the user name, after a scan r and with the record at s.
TakeUsername(r, s) ==
  \/ /\ r.result = "more"
     /\ Goto("username", s)
     /\ UNCHANGED <<username, attempts>>
  \/ /\ r.result = "too_long"
     /\ Leave("protocol_error", notice(s, "telnet_line_too_long"))
     /\ UNCHANGED <<username, attempts>>
  \/ /\ r.result = "line" /\ r.text = <<>>
     /\ EndRound(s)
     /\ UNCHANGED username
  \/ /\ r.result = "line" /\ r.text # <<>>
     /\ username' = r.text
     /\ Goto("ask_password", s)
     /\ UNCHANGED attempts

TakePassword(r, s) ==
  /\ UNCHANGED <<username, attempts>>
  /\ \/ r.result = "more" /\ Goto("password", s)
     \/ /\ r.result = "too_long"
        /\ Leave("protocol_error", LoginUnanswered(notice(s, "telnet_line_too_long")))
     \/ r.result = "line" /\ Goto("incorrect", Login(s, r.text))

WriteBanner ==
  /\ Telnet /\ pc = "banner"
  /\ \/ Goto("prompt", session)
     \/ \E why \in WriteFailures : Leave(why, session)
  /\ UNCHANGED <<config, stream, telnetVars>>

WritePrompt ==
  /\ Telnet /\ pc = "prompt"
  /\ \/ LET r == Scan(pending) IN Keep(r) /\ TakeUsername(r, session)
     \/ /\ \E why \in WriteFailures : Leave(why, session)
        /\ UNCHANGED telnetVars
  /\ UNCHANGED <<config, stream>>

ReadUsername ==
  /\ Telnet /\ pc = "username"
  /\ \E chunk \in Chunks(Available(BufferSize)) :
       LET r == Scan(chunk) IN
       /\ stream' = stream \o chunk
       /\ Keep(r)
       /\ TakeUsername(r, record_bytes(session, chunk))
  /\ UNCHANGED config

AskPassword ==
  /\ Telnet /\ pc = "ask_password"
  /\ \/ LET r == Scan(pending) IN Keep(r) /\ TakePassword(r, session)
     \/ /\ \E why \in WriteFailures : Leave(why, LoginUnanswered(session))
        /\ UNCHANGED telnetVars
  /\ UNCHANGED <<config, stream>>

ReadPassword ==
  /\ Telnet /\ pc = "password"
  /\ \E chunk \in Chunks(Available(BufferSize)) :
       LET r == Scan(chunk) IN
       /\ stream' = stream \o chunk
       /\ Keep(r)
       /\ TakePassword(r, record_bytes(session, chunk))
  /\ UNCHANGED config

\* The end of the client's input, with its line unfinished or not.
Unfinished(s) ==
  IF line # <<>> \/ pending_cr THEN notice(s, "telnet_incomplete_line") ELSE s

ReadLineEnds ==
  /\ Telnet /\ pc \in {"username", "password"}
  /\ \E why \in ReadFailures(BufferSize) :
       LET s == IF why = "client_closed" THEN Unfinished(session) ELSE session
       IN  Leave(why, IF pc = "password" THEN LoginUnanswered(s) ELSE s)
  /\ UNCHANGED <<config, stream, telnetVars>>

WriteIncorrect ==
  /\ Telnet /\ pc = "incorrect"
  /\ \/ EndRound(session)
     \/ /\ \E why \in WriteFailures : Leave(why, session)
        /\ UNCHANGED attempts
  /\ UNCHANGED <<config, stream, readerVars, username>>

WriteFarewell ==
  /\ Telnet /\ pc = "farewell"
  /\ \E why \in WriteFailures \cup {"server_closed"} : Leave(why, session)
  /\ UNCHANGED <<config, stream, telnetVars>>

TelnetStep ==
  \/ WriteBanner \/ WritePrompt \/ ReadUsername \/ AskPassword \/ ReadPassword
  \/ ReadLineEnds \/ WriteIncorrect \/ WriteFarewell

-----------------------------------------------------------------------------
(* What a stream of bytes says, defined on the whole of it at once         *)

\* The position after the IAC SE that ends the subnegotiation begun before i;
\* IAC IAC inside it is an escaped byte.
SubnegotiationEnd(s, i) ==
  LET after[k \in 1..(Len(s) + 2)] ==
        IF k >= Len(s) THEN Len(s) + 1
        ELSE IF s[k] # "IAC" THEN after[k + 1]
        ELSE IF s[k + 1] = "SE" THEN k + 2
        ELSE after[k + 2]
  IN  after[i]

\* The data in s, without Telnet commands (RFC 854, 855).
Decoded(s) ==
  LET from[k \in 1..(Len(s) + 3)] ==
        IF k > Len(s) THEN <<>>
        ELSE IF s[k] # "IAC" THEN <<s[k]>> \o from[k + 1]
        ELSE IF k = Len(s) THEN <<>>
        ELSE CASE s[k + 1] = "IAC"  -> <<"IAC">> \o from[k + 2]
               [] s[k + 1] = "WILL" -> from[k + 3]
               [] s[k + 1] = "SB"   -> from[SubnegotiationEnd(s, k + 2)]
               [] OTHER             -> from[k + 2]
  IN  from[1]

\* The complete lines of d.
Lines(d) ==
  LET text[k \in 1..(Len(d) + 1)] ==
        IF k > Len(d) \/ (k = Len(d) /\ d[k] = "CR") THEN [chars |-> <<>>, next |-> 0]
        ELSE CASE d[k] = "LF" -> [chars |-> <<>>, next |-> k + 1]
               [] d[k] = "CR" /\ d[k + 1] = "LF" -> [chars |-> <<>>, next |-> k + 2]
               [] d[k] = "CR" /\ d[k + 1] = "NUL" ->
                    [chars |-> <<"CR">> \o text[k + 2].chars, next |-> text[k + 2].next]
               [] OTHER ->
                    [chars |-> <<d[k]>> \o text[k + 1].chars, next |-> text[k + 1].next]
      lines[k \in 1..(Len(d) + 1)] ==
        IF text[k].next = 0 THEN <<>> ELSE <<text[k].chars>> \o lines[text[k].next]
  IN  lines[1]

\* The logins of at most MAX_ATTEMPTS rounds; an empty name is a round of its
\* own, and the last name may be without an answer.
Logins(ls) ==
  LET rounds[n \in 0..MAX_ATTEMPTS] ==
        [k \in 1..(Len(ls) + 1) |->
           IF n = 0 \/ k > Len(ls) THEN <<>>
           ELSE IF ls[k] = <<>> THEN rounds[n - 1][k + 1]
           ELSE IF k = Len(ls) THEN <<TelnetLogin(ls[k], Absent)>>
           ELSE <<TelnetLogin(ls[k], ls[k + 1])>> \o rounds[n - 1][k + 2]]
  IN  rounds[MAX_ATTEMPTS][1]

Consumed == SubSeq(stream, 1, Len(stream) - Len(pending))

Told == Logins(Lines(Decoded(Consumed)))

\* The logins among events, which may have notices between them.
LoginsIn(events) ==
  LET upTo[k \in 0..Len(events)] ==
        IF k = 0 THEN <<>>
        ELSE IF events[k].kind = "telnet_login" THEN Append(upTo[k - 1], events[k])
        ELSE upTo[k - 1]
  IN  upTo[Len(events)]

Recorded == LoginsIn(session.events)

\* Of the logins a stream tells only the last can be without an answer.
Answered(logins) ==
  IF logins # <<>> /\ Last(logins).password = Absent THEN Front(logins) ELSE logins

AllRedacted(events) == [k \in DOMAIN events |-> redact(events[k])]

\* The record tells what the client typed, however its bytes were cut into
\* reads and wherever a read ended inside a command, a CR LF or a line: the
\* logins of the record are those of the whole stream.  A name whose password
\* never came is recorded when the handler returns by itself, and only then.
TelnetFaithful ==
  Telnet =>
    IF Closed /\ reason \notin {"shutdown", "lifetime_limit"}
    THEN Recorded = AllRedacted(Told)
    ELSE Recorded = AllRedacted(Answered(Told))

=============================================================================
