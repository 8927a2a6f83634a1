-------------------------------- MODULE Ssh --------------------------------
(***************************************************************************)
(* The SSH handler (src/protocols/ssh.rs): it writes its identification,   *)
(* reads the client's identification line, byte by byte and across reads,  *)
(* and then reads on until the client or a limit ends the session.         *)
(*                                                                         *)
(* Bytes are classes: "SSH" stands for a whole prefix SSH-2.0- or          *)
(* SSH-1.99- (and counts as one byte), "SP" is a space, "CR", "LF", "CTL"  *)
(* an unprintable byte, and any other byte is printable.                   *)
(***************************************************************************)
EXTENDS SessionIo

CONSTANT MAX_IDENTIFICATION_BYTES

ASSUME SshAssumption == MAX_IDENTIFICATION_BYTES \in Nat \ {0}

VARIABLES
  identification, \* the bytes of the line so far
  identified      \* the line was accepted

sshVars == <<identification, identified>>

InitSsh ==
  /\ identification = <<>>
  /\ identified = FALSE

Ssh == config.protocol = "ssh"

\* A prefix, then at least one byte that is no space, and all of it printable.
valid_identification(text) ==
  /\ Len(text) >= 2
  /\ text[1] = "SSH" /\ text[2] # "SP"
  /\ \A k \in DOMAIN text : text[k] \notin {"CR", "LF", "CTL"}

strip_suffix(text, byte) ==
  IF text # <<>> /\ Last(text) = byte THEN Front(text) ELSE text

\* (mutant) a read that does not end the line replaces it
Begin_fresh == [id |-> <<>>, result |-> "more"]

\* Where a read resumes.
Begin == [id |-> identification, result |-> "more"]

Push(r, byte) ==
  LET id == Append(r.id, byte) IN
  [id |-> id,
   result |-> IF byte = "LF" THEN "line"
              ELSE IF Len(id) >= MAX_IDENTIFICATION_BYTES THEN "too_long" ELSE "more"]

\* The loop over one read, until the line ends or is too long.
Identify(chunk) ==
  FoldLeft(LAMBDA r, byte : IF r.result = "more" THEN Push(r, byte) ELSE r, Begin, chunk)

Stripped(id) == strip_suffix(strip_suffix(id, "LF"), "CR")

SshBanner ==
  /\ Ssh /\ pc = "banner"
  /\ \/ Goto("read", session)
     \/ \E why \in WriteFailures : Leave(why, session)
  /\ UNCHANGED <<config, stream, sshVars>>

\* What a read of the identification leads to, with the record at s.
TakeIdentification(r, s) ==
  LET text == Stripped(r.id) IN
  \/ r.result = "more" /\ Goto("read", s) /\ UNCHANGED identified
  \/ /\ r.result = "too_long"
     /\ Leave("protocol_error", notice(s, "ssh_identification_too_long"))
     /\ UNCHANGED identified
  \/ /\ r.result = "line" /\ ~valid_identification(text)
     /\ Leave("protocol_error", notice(s, "ssh_invalid_identification"))
     /\ UNCHANGED identified
  \/ /\ r.result = "line" /\ valid_identification(text)
     /\ Goto("read", push_event(s, SshClientBanner(text)))
     /\ identified' = TRUE

ReadIdentification ==
  /\ Ssh /\ pc = "read" /\ ~identified
  /\ \E chunk \in Chunks(Available(BufferSize)) :
       LET r == Identify(chunk) IN
       /\ stream' = stream \o chunk
       /\ identification' = r.id
       /\ TakeIdentification(r, record_bytes(session, chunk))
  /\ UNCHANGED config

\* What follows the identification is counted and otherwise ignored.
ReadOn ==
  /\ Ssh /\ pc = "read" /\ identified
  /\ \E chunk \in Chunks(Available(BufferSize)) :
       /\ stream' = stream \o chunk
       /\ Goto("read", record_bytes(session, chunk))
  /\ UNCHANGED <<config, sshVars>>

SshReadEnds ==
  /\ Ssh /\ pc = "read"
  /\ \E why \in ReadFailures(BufferSize) :
       Leave(why, IF why = "client_closed" /\ ~identified /\ identification # <<>>
                  THEN notice(session, "ssh_incomplete_identification") ELSE session)
  /\ UNCHANGED <<config, stream, sshVars>>

SshStep == SshBanner \/ ReadIdentification \/ ReadOn \/ SshReadEnds

-----------------------------------------------------------------------------
(* Properties                                                              *)

LineEnd == SelectInSeq(stream, LAMBDA byte : byte = "LF")

\* What the record should say of the whole stream.
Verdict ==
  LET text == Stripped(SubSeq(stream, 1, LineEnd)) IN
  IF LineEnd \in 1..MAX_IDENTIFICATION_BYTES
  THEN IF valid_identification(text) THEN <<SshClientBanner(text)>>
       ELSE <<Notice("ssh_invalid_identification")>>
  ELSE IF Len(stream) >= MAX_IDENTIFICATION_BYTES
       THEN <<Notice("ssh_identification_too_long")>>
  ELSE IF reason = "client_closed" /\ stream # <<>>
       THEN <<Notice("ssh_incomplete_identification")>>
  ELSE <<>>

\* The record of an SSH session is decided by the first line of the stream
\* and by nothing after it, however the bytes were cut into reads: a line
\* that ends exactly on the limit is accepted, and the handler stays to read
\* on only after a valid one.
SshFaithful ==
  Ssh =>
    /\ session.events = Verdict
    /\ LineEnd # 0 /\ ~Closed => identified

=============================================================================
