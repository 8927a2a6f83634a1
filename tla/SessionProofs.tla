--------------------------- MODULE SessionProofs ---------------------------
(***************************************************************************)
(* Proofs about the protocol handlers for every limit, size of buffer and  *)
(* set of bytes, and every way the bytes of a client are cut into reads.   *)
(***************************************************************************)
EXTENDS Session, FiniteSetTheorems, SequenceTheorems, WellFoundedInduction, TLAPS

\* What holds of an event of any handler: a login is minimized, and a request
\* (HttpInv says what it shows) is recorded by the HTTP handler alone.
Private(event) ==
  /\ event.kind = "telnet_login" => LoginMinimized(event)
  /\ event.kind = "http_request" => Http

\* What RecordTruthful asks of the numbers of a record s, when str was read.
Numbers(s, str) ==
  /\ s.bytes_received = Len(str) /\ Len(str) <= config.input_limit
  /\ s.preview = IF config.mode = "full"
                 THEN SubSeq(str, 1, Least(config.preview_limit, Len(str))) ELSE <<>>

\* A record s of the stream str, with at most n events.
RecordOK(s, str, n) ==
  /\ s = [bytes_received |-> s.bytes_received, preview |-> s.preview,
          events |-> s.events, events_truncated |-> s.events_truncated]
  /\ ~s.events_truncated
  /\ Numbers(s, str)
  /\ s.events \in Seq(Range(s.events)) /\ Len(s.events) <= n
  /\ \A k \in DOMAIN s.events : Private(s.events[k])

\* How many events a handler has recorded at most.
MostEvents ==
  CASE Closed -> MAX_ATTEMPTS + 1
    [] ~Closed /\ Raw -> 0
    [] ~Closed /\ Ssh -> IF identified THEN 1 ELSE 0
    [] ~Closed /\ Http -> IF pc = "headers" THEN 0 ELSE 1
    [] ~Closed /\ Telnet -> IF pc = "incorrect" THEN attempts + 1 ELSE attempts

RecordInv ==
  /\ config \in Configs
  /\ stream \in Seq(config.bytes)
  /\ reason = "byte_limit" => Len(stream) = config.input_limit
  /\ RecordOK(session, stream, MostEvents)

Letters == config.bytes \cup {"CR"}
DecoderStates == {"Data", "Iac", "Option", "Subnegotiation", "SubnegotiationIac"}
TelnetPlaces ==
  {"banner", "prompt", "username", "ask_password", "password", "incorrect", "farewell", "closed"}

TelnetInv ==
  /\ pending \in Seq(config.bytes) /\ decoder \in DecoderStates
  /\ line \in Seq(Letters) /\ pending_cr \in BOOLEAN
  /\ username \in Seq(Letters)
  /\ attempts \in 0..MAX_ATTEMPTS
  /\ Telnet =>
       /\ pc \in TelnetPlaces
       /\ pc \notin {"farewell", "closed"} => attempts < MAX_ATTEMPTS

RequestRecorded == \E k \in DOMAIN session.events : session.events[k].kind = "http_request"

\* A recorded request is the one that was parsed, as push_event shows it.
RequestShown ==
  \A k \in DOMAIN session.events :
    session.events[k].kind = "http_request" =>
      /\ request # NoRequest
      /\ session.events[k] = redact(Event(request, parse_request(request)))

\* What is collected is what was read; each read searched all that is new.
HttpInv ==
  Http =>
    /\ pc \in {"headers", "respond", "closed"}
    /\ RequestShown
    /\ headers = stream /\ Len(stream) <= MAX_HEADER_BYTES
    /\ pc = "headers" =>
         /\ Delimiters(stream, 0) = {} /\ Len(stream) < MAX_HEADER_BYTES
         /\ request = NoRequest /\ status = 0
    /\ status = 431 => Delimiters(stream, 0) = {} /\ Len(stream) = MAX_HEADER_BYTES
    /\ request # NoRequest =>
         /\ Delimiters(stream, 0) # {} /\ header_end = FirstOf(Delimiters(stream, 0)) + 3
         /\ request \in Requests
         /\ status = 1 <=> parse_request(request).error = "none"
         /\ status = 1 <=> RequestRecorded

\* Until the line is accepted all that was read belongs to it.
SshInv ==
  Ssh =>
    /\ pc \in {"banner", "read", "closed"}
    /\ identified =>
         LET text == Stripped(SubSeq(stream, 1, LineEnd)) IN
         /\ LineEnd \in 1..MAX_IDENTIFICATION_BYTES
         /\ valid_identification(text)
         /\ session.events = <<SshClientBanner(text)>>
    /\ ~identified /\ ~Closed =>
         /\ identification = stream /\ LineEnd = 0
         /\ Len(stream) < MAX_IDENTIFICATION_BYTES
         /\ session.events = <<>>
    /\ ~identified /\ Closed => session.events = Verdict

SessionInv == RecordInv /\ TelnetInv /\ HttpInv /\ SshInv

-----------------------------------------------------------------------------
(* Reads                                                                   *)

\* What the configuration and the constants are.
LEMMA SettingsOK ==
  ASSUME config \in Configs
  PROVE  /\ config.protocol \in {"raw", "ssh", "http", "telnet"}
         /\ config.input_limit \in Nat \ {0}
         /\ config.preview_limit \in 0..config.input_limit
         /\ config.mode \in {"metadata", "full"}
         /\ config.capture_http_path \in BOOLEAN
BY IoAssumption

\* A chunk is a sequence of at least one byte and at most n.
LEMMA ChunkOf ==
  ASSUME NEW n \in Nat, NEW chunk \in Chunks(n)
  PROVE  chunk \in Seq(config.bytes) /\ Len(chunk) \in 1..n
<1>1. PICK k \in 1..n : chunk \in [1..k -> config.bytes]
  BY DEF Chunks
<1> QED
  BY <1>1

\* The bytes of the input that are left.
LEMMA AvailableOf ==
  ASSUME RecordInv, NEW size \in Nat
  PROVE  /\ Available(size) \in Nat
         /\ Available(size) <= size
         /\ Available(size) <= config.input_limit - Len(stream)
         /\ Available(size) = 0 => size = 0 \/ Len(stream) = config.input_limit
<1>1. /\ session.bytes_received = Len(stream) /\ Len(stream) <= config.input_limit
      /\ Len(stream) \in Nat /\ config.input_limit \in Nat
  BY SettingsOK DEF RecordInv, RecordOK, Numbers
<1> QED
  BY <1>1 DEF Available, remaining_input, Least

\* The preview of the longer stream is the old one with what still fits.
LEMMA PreviewGrows ==
  ASSUME NEW S, NEW s \in Seq(S), NEW t \in Seq(S), NEW n \in Nat
  PROVE  SubSeq(s, 1, Least(n, Len(s)))
           \o SubSeq(t, 1, Least(n - Len(SubSeq(s, 1, Least(n, Len(s)))), Len(t)))
         = SubSeq(s \o t, 1, Least(n, Len(s \o t)))
<1>1. Len(s) \in Nat /\ Len(t) \in Nat /\ s \o t \in Seq(S) /\ Len(s \o t) = Len(s) + Len(t)
  OBVIOUS
<1> DEFINE m == Least(n, Len(s))
           k == Least(n - m, Len(t))
<1>2. m \in 0..Len(s) /\ k \in 0..Len(t) /\ Least(n, Len(s \o t)) = m + k
      /\ (m < Len(s) => k = 0)
  <2> DEFINE ls == Len(s)
             lt == Len(t)
  <2>1. ls \in Nat /\ lt \in Nat /\ Len(s \o t) = ls + lt
    BY <1>1
  <2> HIDE DEF ls, lt
  <2>2. LET a == Least(n, ls)
            b == Least(n - a, lt)
        IN  a \in 0..ls /\ b \in 0..lt /\ Least(n, ls + lt) = a + b /\ (a < ls => b = 0)
    BY <2>1 DEF Least
  <2> QED
    BY <2>1, <2>2 DEF ls, lt
<1> HIDE DEF m, k
<1>3. /\ SubSeq(s, 1, m) \in Seq(S) /\ Len(SubSeq(s, 1, m)) = m
      /\ \A i \in 1..m : SubSeq(s, 1, m)[i] = s[i]
  BY <1>1, <1>2
<1>4. /\ SubSeq(t, 1, k) \in Seq(S) /\ Len(SubSeq(t, 1, k)) = k
      /\ \A i \in 1..k : SubSeq(t, 1, k)[i] = t[i]
  BY <1>1, <1>2
<1>5. /\ SubSeq(s \o t, 1, m + k) \in Seq(S) /\ Len(SubSeq(s \o t, 1, m + k)) = m + k
      /\ \A i \in 1..(m + k) : SubSeq(s \o t, 1, m + k)[i] = (s \o t)[i]
  BY <1>1, <1>2
<1>6. SubSeq(s, 1, m) \o SubSeq(t, 1, k) = SubSeq(s \o t, 1, m + k)
  <2> DEFINE a == SubSeq(s, 1, m) \o SubSeq(t, 1, k)
             b == SubSeq(s \o t, 1, m + k)
  <2>1. a \in Seq(S) /\ Len(a) = m + k
    BY <1>3, <1>4
  <2>2. ASSUME NEW i \in 1..(m + k) PROVE a[i] = b[i]
    <3>1. CASE i <= m
      BY <3>1, <1>1, <1>2, <1>3, <1>4, <1>5
    <3>2. CASE i > m
      <4>1. k > 0 /\ m = Len(s) /\ i - m \in 1..k
        BY <3>2, <1>1, <1>2
      <4>2. a[i] = SubSeq(t, 1, k)[i - m]
        <5> DEFINE p == SubSeq(s, 1, m)
                   q == SubSeq(t, 1, k)
        <5>1. p \in Seq(S) /\ q \in Seq(S) /\ Len(p) = m /\ Len(q) = k /\ i - m \in 1..k
          BY <1>3, <1>4, <4>1
        <5>2. m \in Nat /\ i \in 1..(m + k)
          BY <1>2
        <5> HIDE DEF p, q
        <5>3. (p \o q)[i] = q[i - m]
          BY <3>2, <5>1, <5>2
        <5> QED
          BY <5>3 DEF p, q
      <4>3. SubSeq(t, 1, k)[i - m] = t[i - m]
        BY <4>1, <1>4
      <4>4. (s \o t)[i] = t[i - m]
        BY <3>2, <4>1, <1>1, <1>2
      <4>5. b[i] = (s \o t)[i]
        BY <1>5
      <4> QED
        BY <4>2, <4>3, <4>4, <4>5
    <3> QED
      BY <3>1, <3>2, <1>1, <1>2
  <2> HIDE DEF a, b
  <2> QED
    BY <2>1, <2>2, <1>5, SeqEqual DEF a, b
<1>7. Len(SubSeq(s, 1, m)) = m
  BY <1>3
<1> QED
  BY <1>2, <1>6, <1>7 DEF m, k

\* What a read changes in a record.
LEMMA RecordBytesIs ==
  ASSUME NEW r, NEW chunk,
         r = [bytes_received |-> r.bytes_received, preview |-> r.preview,
              events |-> r.events, events_truncated |-> r.events_truncated]
  PROVE  LET s == record_bytes(r, chunk) IN
         /\ s = [bytes_received |-> s.bytes_received, preview |-> s.preview,
                 events |-> s.events, events_truncated |-> s.events_truncated]
         /\ s.events = r.events /\ s.events_truncated = r.events_truncated
         /\ s.bytes_received = r.bytes_received + Len(chunk)
         /\ s.preview =
              IF config.mode = "full"
              THEN r.preview \o SubSeq(chunk, 1, Least(config.preview_limit - Len(r.preview),
                                                       Len(chunk)))
              ELSE r.preview
<1> DEFINE b == r.bytes_received
           p == r.preview
           e == r.events
           t == r.events_truncated
           x == b + Len(chunk)
           y == IF config.mode = "full"
                THEN p \o SubSeq(chunk, 1, Least(config.preview_limit - Len(p), Len(chunk)))
                ELSE p
           s == record_bytes(r, chunk)
<1>1. s = [r EXCEPT !.bytes_received = x, !.preview = y]
  BY DEF record_bytes
<1>2. r = [bytes_received |-> b, preview |-> p, events |-> e, events_truncated |-> t]
  OBVIOUS
<1> HIDE DEF b, p, e, t, x, y, s
<1>3. [r EXCEPT !.bytes_received = x]
      = [bytes_received |-> x, preview |-> p, events |-> e, events_truncated |-> t]
  BY <1>2
<1>4. [[bytes_received |-> x, preview |-> p, events |-> e, events_truncated |-> t]
         EXCEPT !.preview = y]
      = [bytes_received |-> x, preview |-> y, events |-> e, events_truncated |-> t]
  OBVIOUS
<1>5. [r EXCEPT !.bytes_received = x, !.preview = y]
      = [[r EXCEPT !.bytes_received = x] EXCEPT !.preview = y]
  BY Zenon
<1>6. s = [bytes_received |-> x, preview |-> y, events |-> e, events_truncated |-> t]
  BY <1>1, <1>3, <1>4, <1>5, Zenon
<1>7. s.bytes_received = x /\ s.preview = y /\ s.events = e /\ s.events_truncated = t
  BY <1>6
<1>8. s = [bytes_received |-> s.bytes_received, preview |-> s.preview,
           events |-> s.events, events_truncated |-> s.events_truncated]
  BY <1>6, <1>7, Zenon
<1> QED
  BY <1>7, <1>8 DEF b, p, e, t, x, y, s

\* A read keeps the numbers of the record true.
LEMMA ReadKeeps ==
  ASSUME RecordInv, NEW size \in Nat, NEW chunk \in Chunks(Available(size))
  PROVE  /\ RecordOK(record_bytes(session, chunk), stream \o chunk, MostEvents)
         /\ record_bytes(session, chunk).events = session.events
         /\ stream \o chunk \in Seq(config.bytes)
         /\ reason # "byte_limit"
<1> DEFINE s == record_bytes(session, chunk)
<1>0. /\ session = [bytes_received |-> session.bytes_received, preview |-> session.preview,
                    events |-> session.events,
                    events_truncated |-> session.events_truncated]
      /\ ~session.events_truncated
      /\ Numbers(session, stream) /\ stream \in Seq(config.bytes)
      /\ config.preview_limit \in Nat /\ config.input_limit \in Nat
  BY SettingsOK DEF RecordInv, RecordOK
<1>1. /\ chunk \in Seq(config.bytes) /\ Len(chunk) \in Nat
      /\ Len(chunk) <= config.input_limit - Len(stream) /\ Len(chunk) >= 1
  <2>1. Available(size) \in Nat /\ Available(size) <= config.input_limit - Len(stream)
    BY AvailableOf
  <2>2. chunk \in Seq(config.bytes) /\ Len(chunk) \in 1..Available(size)
    BY <2>1, ChunkOf
  <2> QED
    BY <2>1, <2>2, <1>0
<1>2. /\ s.events = session.events
      /\ s = [bytes_received |-> s.bytes_received, preview |-> s.preview,
              events |-> s.events, events_truncated |-> s.events_truncated]
      /\ s.events_truncated = session.events_truncated
      /\ s.bytes_received = session.bytes_received + Len(chunk)
      /\ s.preview = IF config.mode = "full"
                     THEN session.preview \o
                            SubSeq(chunk, 1, Least(config.preview_limit - Len(session.preview),
                                                   Len(chunk)))
                     ELSE session.preview
  BY <1>0, RecordBytesIs
<1>3. stream \o chunk \in Seq(config.bytes) /\ Len(stream \o chunk) = Len(stream) + Len(chunk)
      /\ Len(stream) \in Nat
  BY <1>0, <1>1
<1>4. Numbers(s, stream \o chunk)
  <2>1. s.bytes_received = Len(stream \o chunk) /\ Len(stream \o chunk) <= config.input_limit
    BY <1>0, <1>1, <1>2, <1>3 DEF Numbers
  <2>2. CASE config.mode = "full"
    <3>1. session.preview = SubSeq(stream, 1, Least(config.preview_limit, Len(stream)))
      BY <2>2, <1>0 DEF Numbers
    <3> HIDE DEF s
    <3>2. s.preview = session.preview \o
                        SubSeq(chunk, 1, Least(config.preview_limit - Len(session.preview),
                                               Len(chunk)))
      BY <2>2, <1>2
    <3>3. s.preview = SubSeq(stream \o chunk, 1, Least(config.preview_limit, Len(stream \o chunk)))
      BY <3>1, <3>2, <1>0, <1>1, PreviewGrows, Zenon
    <3> QED
      BY <2>1, <2>2, <3>3 DEF Numbers
  <2>3. CASE config.mode # "full"
    BY <2>1, <2>3, <1>0, <1>2 DEF Numbers
  <2> QED
    BY <2>2, <2>3
<1>5. reason # "byte_limit"
  BY <1>0, <1>1 DEF RecordInv
<1> HIDE DEF s
<1> QED
  BY <1>2, <1>3, <1>4, <1>5 DEF RecordInv, RecordOK, s

\* A read fails for the limit only when the limit is used up.
LEMMA ReadFails ==
  ASSUME RecordInv, NEW size \in Nat \ {0}, "byte_limit" \in ReadFailures(size)
  PROVE  Len(stream) = config.input_limit
<1>1. Available(size) = 0
  BY DEF ReadFailures
<1> QED
  BY <1>1, AvailableOf

-----------------------------------------------------------------------------
(* Events                                                                  *)

\* An event that is recorded is one more, and the numbers stay.
LEMMA PushKeeps ==
  ASSUME NEW r, NEW str, NEW n \in Nat, n < MAX_EVENTS, RecordOK(r, str, n),
         NEW event, Private(redact(event))
  PROVE  /\ RecordOK(push_event(r, event), str, n + 1)
         /\ push_event(r, event).events = Append(r.events, redact(event))
<1> DEFINE b == r.bytes_received
           p == r.preview
           e == r.events
           t == r.events_truncated
           x == Append(e, redact(event))
           s == push_event(r, event)
<1>0. /\ r = [bytes_received |-> b, preview |-> p, events |-> e, events_truncated |-> t]
      /\ e \in Seq(Range(e)) /\ Len(e) <= n /\ ~t /\ Numbers(r, str)
      /\ \A k \in DOMAIN e : Private(e[k])
  BY DEF RecordOK
<1>1. s = [r EXCEPT !.events = x]
  <2>1. Len(e) < MAX_EVENTS /\ Len(e) \in Nat
    BY <1>0, IoAssumption
  <2>2. ~(Len(e) >= MAX_EVENTS)
    BY <2>1, IoAssumption
  <2> QED
    BY <2>2, Zenon DEF push_event
<1> HIDE DEF s
<1>2. s = [bytes_received |-> b, preview |-> p, events |-> x, events_truncated |-> t]
  <2> HIDE DEF b, p, e, t, x
  <2> QED
    BY <1>0, <1>1
<1>3. s.bytes_received = b /\ s.preview = p /\ s.events = x /\ s.events_truncated = t
  <2> HIDE DEF b, p, e, t, x
  <2> QED
    BY <1>2
<1>4. s = [bytes_received |-> s.bytes_received, preview |-> s.preview,
           events |-> s.events, events_truncated |-> s.events_truncated]
  BY <1>2, <1>3, Zenon
<1>5. Numbers(s, str)
  BY <1>0, <1>3 DEF Numbers
<1>6. /\ x \in Seq(Range(x)) /\ Len(x) <= n + 1
      /\ \A k \in DOMAIN x : Private(x[k])
  <2> DEFINE S == Range(e) \cup {redact(event)}
  <2>1. e \in Seq(S) /\ redact(event) \in S
    BY <1>0, SeqMonotonic
  <2>2. /\ x \in Seq(S) /\ Len(x) = Len(e) + 1
        /\ \A i \in 1..Len(e) : x[i] = e[i]
        /\ x[Len(e) + 1] = redact(event)
        /\ Len(e) \in Nat /\ DOMAIN e = 1..Len(e) /\ DOMAIN x = 1..(Len(e) + 1)
    <3> HIDE DEF e, S
    <3> QED
      BY <2>1
  <2>3. x \in Seq(Range(x))
    BY <2>2, SeqOfRange
  <2> HIDE DEF e, x
  <2> QED
    BY <1>0, <2>2, <2>3
<1> QED
  BY <1>0, <1>3, <1>4, <1>5, <1>6 DEF RecordOK, s

\* Notices and the banner of an SSH client have no text that is to be hidden.
LEMMA NoticePrivate ==
  ASSUME NEW msg
  PROVE  Private(redact(Notice(msg))) /\ redact(Notice(msg)) = Notice(msg)
<1>1. redact(Notice(msg)) = Notice(msg)
  BY DEF redact, Notice
<1>2. Notice(msg).kind = "notice"
  BY DEF Notice
<1> QED
  BY <1>1, <1>2 DEF Private

\* An SSH identification is private: no mode hides it.
LEMMA BannerPrivate ==
  ASSUME NEW text
  PROVE  /\ Private(redact(SshClientBanner(text)))
         /\ redact(SshClientBanner(text)) = SshClientBanner(text)
<1>1. redact(SshClientBanner(text)) = SshClientBanner(text)
  BY DEF redact, SshClientBanner
<1>2. SshClientBanner(text).kind = "ssh_client_banner"
  BY DEF SshClientBanner
<1> QED
  BY <1>1, <1>2 DEF Private

\* A login keeps its texts in full mode only.
LEMMA LoginPrivate ==
  ASSUME NEW name, NEW password
  PROVE  Private(redact(TelnetLogin(name, password)))
<1> DEFINE event == TelnetLogin(name, password)
           other == IF password = Absent THEN Absent ELSE Redacted
           hidden == LoginRedacted(event)
<1>1. /\ event.kind = "telnet_login" /\ event.password = password
      /\ event.credentials_redacted = FALSE
  BY DEF TelnetLogin
<1>2. /\ hidden.kind = "telnet_login" /\ hidden.username = Redacted /\ hidden.password = other
      /\ hidden.credentials_redacted = TRUE
  BY DEF LoginRedacted, TelnetLogin
<1>3. redact(event) = IF Metadata THEN hidden ELSE event
  <2> HIDE DEF event, hidden
  <2> QED
    BY <1>1 DEF redact, Metadata, hidden
<1> HIDE DEF event, hidden
<1>4. CASE Metadata
  <2>1. redact(event) = hidden
    BY <1>3, <1>4
  <2> QED
    BY <1>2, <1>4, <2>1, Zenon DEF Private, LoginMinimized, event
<1>5. CASE ~Metadata
  <2>1. redact(event) = event
    BY <1>3, <1>5
  <2> QED
    BY <1>1, <1>5, <2>1, Zenon DEF Private, LoginMinimized, event
<1> QED
  BY <1>4, <1>5

-----------------------------------------------------------------------------
(* Folds over the bytes of a read                                          *)

\* A set that holds 0, and n + 1 with every n, holds every natural number.
LEMMA Inductive ==
  ASSUME NEW S \in SUBSET Nat, 0 \in S, \A n \in S : n + 1 \in S
  PROVE  S = Nat
<1> DEFINE R == {ss \in Nat \X Nat : ss[1] < ss[2]}
<1>0. IsWellFoundedOn(R, Nat)
  BY NatLessThanWellFounded DEF OpToRel
<1>r. \A a, b \in Nat : a < b => <<a, b>> \in R
  OBVIOUS
<1> HIDE DEF R
<1> SUFFICES ASSUME Nat \ S # {} PROVE FALSE
  OBVIOUS
<1>1. PICK x \in Nat \ S : \A y \in Nat \ S : ~ (<<y, x>> \in R)
  BY <1>0, WFMin
<1>2. x - 1 \in Nat /\ x - 1 < x /\ (x - 1) + 1 = x
  OBVIOUS
<1>3. x - 1 \in S
  BY <1>1, <1>2, <1>r
<1> QED
  BY <1>1, <1>2, <1>3

\* The greatest of the first k positions.
LEMMA MaxOfFirst ==
  ASSUME NEW k \in Nat \ {0}
  PROVE  1..k # {} /\ Max(1..k) = k /\ (1..k) \ {k} = 1..(k - 1)
<1>1. k \in 1..k /\ \A y \in 1..k : k >= y
  OBVIOUS
<1>2. \A x \in 1..k : (\A y \in 1..k : x >= y) => x = k
  BY <1>1
<1>3. Max(1..k) = k
  BY <1>1, <1>2 DEF Max
<1>4. \A x : x \in (1..k) \ {k} <=> x \in 1..(k - 1)
  OBVIOUS
<1> QED
  BY <1>1, <1>3, <1>4

\* F folds the elements of s at the positions of any set below n, in order.
FoldsOver(F, step, base, s, n) ==
  F = [T \in SUBSET (1..n) |->
         IF T = {} THEN base ELSE step[<<F[T \ {Max(T)}], s[Max(T)]>>]]

\* The recursion of a fold has a solution.
LEMMA FoldExists ==
  ASSUME NEW States, NEW Inputs, NEW step \in [States \X Inputs -> States],
         NEW base \in States, NEW s \in Seq(Inputs), NEW n \in Nat, n <= Len(s)
  PROVE  \E F : F \in [SUBSET (1..n) -> States] /\ FoldsOver(F, step, base, s, n)
<1> DEFINE Solved(k) == \E F : F \in [SUBSET (1..k) -> States] /\ FoldsOver(F, step, base, s, k)
           S == {k \in Nat : k <= Len(s) => Solved(k)}
<1>1. 0 \in S
  <2> DEFINE F == [T \in SUBSET (1..0) |-> base]
  <2>1. \A T \in SUBSET (1..0) : T = {}
    OBVIOUS
  <2>2. F = [T \in SUBSET (1..0) |->
               IF T = {} THEN base ELSE step[<<F[T \ {Max(T)}], s[Max(T)]>>]]
    BY <2>1
  <2>3. F \in [SUBSET (1..0) -> States]
    OBVIOUS
  <2> QED
    BY <2>2, <2>3 DEF FoldsOver
<1>2. ASSUME NEW k \in S PROVE k + 1 \in S
  <2> SUFFICES ASSUME k + 1 <= Len(s)
      PROVE  Solved(k + 1)
    <3> HIDE DEF Solved
    <3> QED
      BY <1>2
  <2>0. k \in Nat /\ k <= Len(s) /\ s[k + 1] \in Inputs
    BY <1>2
  <2>1. PICK F : F \in [SUBSET (1..k) -> States] /\ FoldsOver(F, step, base, s, k)
    BY <1>2, <2>0
  <2> DEFINE G == [T \in SUBSET (1..(k + 1)) |->
                     IF k + 1 \in T THEN step[<<F[T \ {k + 1}], s[k + 1]>>] ELSE F[T]]
  <2>2. \A T \in SUBSET (1..k) : T \in SUBSET (1..(k + 1)) /\ k + 1 \notin T
    BY <2>0
  <2>3. \A T \in SUBSET (1..(k + 1)) :
          /\ k + 1 \in T => T \ {k + 1} \in SUBSET (1..k)
          /\ k + 1 \notin T => T \in SUBSET (1..k)
    BY <2>0
  <2>4. ASSUME NEW T \in SUBSET (1..(k + 1))
        PROVE  G[T] = IF T = {} THEN base ELSE step[<<G[T \ {Max(T)}], s[Max(T)]>>]
    <3>1. CASE k + 1 \in T
      <4>1. Max(T) = k + 1
        <5>1. \A y \in T : k + 1 >= y
          BY <2>0
        <5>2. \A x \in T : (\A y \in T : x >= y) => x = k + 1
          BY <2>0, <3>1
        <5> QED
          BY <3>1, <5>1, <5>2 DEF Max
      <4>2. T \ {k + 1} \in SUBSET (1..k)
        BY <3>1, <2>3
      <4>3. G[T \ {k + 1}] = F[T \ {k + 1}]
        BY <4>2, <2>2
      <4>4. G[T] = step[<<F[T \ {k + 1}], s[k + 1]>>]
        BY <3>1
      <4> QED
        BY <3>1, <4>1, <4>3, <4>4
    <3>2. CASE k + 1 \notin T
      <4>1. T \in SUBSET (1..k) /\ T \ {Max(T)} \in SUBSET (1..k)
        BY <2>3, <3>2, Zenon
      <4>2. G[T] = F[T] /\ G[T \ {Max(T)}] = F[T \ {Max(T)}]
        BY <4>1, <2>2
      <4>3. F[T] = IF T = {} THEN base ELSE step[<<F[T \ {Max(T)}], s[Max(T)]>>]
        BY <4>1, <2>1 DEF FoldsOver
      <4> QED
        BY <4>2, <4>3
    <3> QED
      BY <3>1, <3>2
  <2>5. G \in [SUBSET (1..(k + 1)) -> States]
    <3>1. ASSUME NEW T \in SUBSET (1..(k + 1)) PROVE G[T] \in States
      <4>1. CASE k + 1 \in T
        <5>1. F[T \ {k + 1}] \in States
          BY <4>1, <2>1, <2>3
        <5> QED
          BY <4>1, <5>1, <2>0
      <4>2. CASE k + 1 \notin T
        BY <4>2, <2>1, <2>3
      <4> QED
        BY <4>1, <4>2
    <3> QED
      BY <3>1
  <2>6. G = [T \in SUBSET (1..(k + 1)) |->
               IF T = {} THEN base ELSE step[<<G[T \ {Max(T)}], s[Max(T)]>>]]
    BY <2>4
  <2> HIDE DEF G
  <2>7. FoldsOver(G, step, base, s, k + 1)
    BY <2>6 DEF FoldsOver
  <2> QED
    BY <2>5, <2>7
<1> HIDE DEF S
<1>3. S = Nat
  <2>1. S \in SUBSET Nat
    BY DEF S
  <2> QED
    BY <2>1, <1>1, <1>2, Inductive
<1>4. n \in S
  BY <1>3
<1>5. Solved(n)
  <2> HIDE DEF Solved
  <2> QED
    BY <1>4 DEF S
<1> QED
  BY <1>5

\* A set of positions has a greatest one.
LEMMA MaxExists ==
  ASSUME NEW n \in Nat, NEW T \in SUBSET (1..n), T # {}
  PROVE  Max(T) \in T
<1> DEFINE Bounded(k) == \A U \in SUBSET (1..k) : U # {} => \E x \in U : \A y \in U : x >= y
           S == {k \in Nat : Bounded(k)}
<1>1. 0 \in S
  <2>1. \A U \in SUBSET (1..0) : U = {}
    OBVIOUS
  <2> QED
    BY <2>1
<1>2. ASSUME NEW k \in S PROVE k + 1 \in S
  <2> SUFFICES ASSUME NEW U \in SUBSET (1..(k + 1)), U # {}
      PROVE  \E x \in U : \A y \in U : x >= y
    BY <1>2
  <2>1. CASE k + 1 \in U
    <3>1. \A y \in U : k + 1 >= y
      BY <1>2
    <3> QED
      BY <2>1, <3>1
  <2>2. CASE k + 1 \notin U
    <3>1. U \in SUBSET (1..k)
      BY <1>2, <2>2
    <3> QED
      BY <1>2, <3>1
  <2> QED
    BY <2>1, <2>2
<1> HIDE DEF S
<1>3. S = Nat
  <2>1. S \in SUBSET Nat
    BY DEF S
  <2> QED
    BY <2>1, <1>1, <1>2, Inductive
<1>4. \E x \in T : \A y \in T : x >= y
  BY <1>3 DEF S
<1> QED
  BY <1>4 DEF Max

Solves(F, step, base, s, States, Inputs) ==
  /\ F = [T \in SUBSET DOMAIN s |->
            IF T = {} THEN base ELSE step[<<F[T \ {Max(T)}], s[Max(T)]>>]]
  /\ \A T \in SUBSET DOMAIN s :
       T # {} => F[T \ {Max(T)}] \in States /\ s[Max(T)] \in Inputs

\* The solution has a state at every set of positions.
LEMMA FoldSolved ==
  ASSUME NEW States, NEW Inputs, NEW step \in [States \X Inputs -> States],
         NEW base \in States, NEW s \in Seq(Inputs)
  PROVE  \E F : Solves(F, step, base, s, States, Inputs)
<1>1. Len(s) \in Nat /\ DOMAIN s = 1..Len(s)
  OBVIOUS
<1>2. PICK F : F \in [SUBSET (1..Len(s)) -> States] /\ FoldsOver(F, step, base, s, Len(s))
  <2> DEFINE n == Len(s)
  <2>1. n \in Nat /\ n <= Len(s)
    BY <1>1
  <2> HIDE DEF n
  <2>2. \E F : F \in [SUBSET (1..n) -> States] /\ FoldsOver(F, step, base, s, n)
    BY <2>1, FoldExists, Zenon
  <2> QED
    BY <2>2 DEF n
<1>3. ASSUME NEW T \in SUBSET DOMAIN s, T # {}
      PROVE  F[T \ {Max(T)}] \in States /\ s[Max(T)] \in Inputs
  <2>1. Max(T) \in 1..Len(s)
    BY <1>1, <1>3, MaxExists
  <2>2. T \ {Max(T)} \in SUBSET (1..Len(s))
    BY <1>1, <1>3
  <2> QED
    BY <1>2, <2>1, <2>2
<1> QED
  BY <1>1, <1>2, <1>3 DEF FoldsOver, Solves

-----------------------------------------------------------------------------
(* The Telnet line reader                                                  *)

ReaderStates ==
  [rest : Seq(config.bytes), decoder : DecoderStates, line : Seq(Letters), cr : BOOLEAN,
   result : {"more", "line", "too_long"}, text : Seq(Letters)]

\* The fields of a reader can be replaced one by one.
LEMMA ReaderFields ==
  ASSUME NEW r \in ReaderStates
  PROVE  /\ r.rest \in Seq(config.bytes) /\ r.line \in Seq(Letters)
         /\ \A x \in Seq(config.bytes) : [r EXCEPT !.rest = x] \in ReaderStates
         /\ \A x \in Seq(Letters) : [r EXCEPT !.line = x] \in ReaderStates
         /\ \A x \in Seq(Letters) : [r EXCEPT !.text = x] \in ReaderStates
         /\ \A x \in {"more", "line", "too_long"} : [r EXCEPT !.result = x] \in ReaderStates
BY DEF ReaderStates

\* A byte keeps the reader in its states.
LEMMA TakeByteType ==
  ASSUME NEW r \in ReaderStates, NEW byte \in config.bytes
  PROVE  TakeByte(r, byte) \in ReaderStates
<1>1. byte \in Letters /\ "CR" \in Letters
  BY DEF Letters
<1>2. ASSUME NEW q \in ReaderStates, NEW b \in Letters PROVE append(q, b) \in ReaderStates
  <2>1. Append(q.line, b) \in Seq(Letters)
    BY ReaderFields, AppendProperties
  <2> QED
    BY <2>1, ReaderFields DEF append
<1>3. ASSUME NEW q \in ReaderStates PROVE EndOfLine(q) \in ReaderStates
  <2> DEFINE a == [q EXCEPT !.result = "line"]
             b == [a EXCEPT !.text = q.line]
             c == [b EXCEPT !.line = <<>>]
  <2>0. a \in ReaderStates
    <3>1. "line" \in {"more", "line", "too_long"}
      OBVIOUS
    <3> QED
      BY <3>1, ReaderFields
  <2>1. a \in ReaderStates /\ q.line \in Seq(Letters) /\ <<>> \in Seq(Letters)
    BY <2>0, ReaderFields, EmptySeq
  <2> HIDE DEF a
  <2>2. b \in ReaderStates
    BY <2>1, ReaderFields
  <2> HIDE DEF b
  <2>3. c \in ReaderStates
    BY <2>1, <2>2, ReaderFields
  <2>4. EndOfLine(q) = c
    BY Zenon DEF EndOfLine, a, b
  <2> QED
    BY <2>3, <2>4
<1>4. \A q \in ReaderStates : [q EXCEPT !.cr = TRUE] \in ReaderStates
                              /\ [q EXCEPT !.cr = FALSE] \in ReaderStates
  BY DEF ReaderStates
<1>5. \A q \in ReaderStates, b \in Letters : TakePlain(q, b) \in ReaderStates
  BY <1>2, <1>3, <1>4 DEF TakePlain
<1>6. \A q \in ReaderStates, b \in Letters : TakeAfterCr(q, b) \in ReaderStates
  BY <1>1, <1>2, <1>3, <1>4, <1>5 DEF TakeAfterCr
<1>7. feed_state(r.decoder, byte) \in DecoderStates
  BY DEF feed_state, DecoderStates, ReaderStates
<1>8. [r EXCEPT !.decoder = feed_state(r.decoder, byte)] \in ReaderStates
  BY <1>7 DEF ReaderStates
<1> QED
  BY <1>1, <1>5, <1>6, <1>8 DEF TakeByte

\* Scan as a fold that G solves.
ScanFold(G, input) ==
  G = [T \in SUBSET DOMAIN input |->
         IF T = {} THEN Reader(<<>>)
         ELSE IF G[T \ {Max(T)}].result = "more"
              THEN TakeByte(G[T \ {Max(T)}], input[Max(T)])
              ELSE [G[T \ {Max(T)}] EXCEPT !.rest = Append(@, input[Max(T)])]]

\* What a scan does with one byte.
ScanNext(r, byte) ==
  IF r.result = "more" THEN TakeByte(r, byte) ELSE [r EXCEPT !.rest = Append(@, byte)]

\* H is the reader after each number of bytes.
ScanSteps(H, input) ==
  /\ H[0] = Reader(<<>>) /\ H[Len(input)] = Scan(input)
  /\ \A k \in 0..Len(input) : H[k] \in ReaderStates
  /\ \A k \in 0..Len(input) : k < Len(input) => H[k + 1] = ScanNext(H[k], input[k + 1])

\* A scan of any input goes from state to state of the reader.
LEMMA ScanGoes ==
  ASSUME TelnetInv, NEW input \in Seq(config.bytes)
  PROVE  \E H : ScanSteps(H, input)
<1> DEFINE next(r, byte) == ScanNext(r, byte)
           step == [x \in ReaderStates \X config.bytes |-> next(x[1], x[2])]
<1>1. \A r \in ReaderStates, byte \in config.bytes : next(r, byte) \in ReaderStates
  <2> SUFFICES ASSUME NEW r \in ReaderStates, NEW byte \in config.bytes
      PROVE  next(r, byte) \in ReaderStates
    OBVIOUS
  <2>1. [r EXCEPT !.rest = Append(r.rest, byte)] \in ReaderStates
    <3>1. Append(r.rest, byte) \in Seq(config.bytes)
      BY ReaderFields, AppendProperties
    <3> QED
      BY <3>1, ReaderFields
  <2> QED
    BY <2>1, TakeByteType DEF ScanNext
<1>2. step \in [ReaderStates \X config.bytes -> ReaderStates]
  BY <1>1
<1>3. Reader(<<>>) \in ReaderStates
  BY DEF Reader, ReaderStates, TelnetInv
<1>4. PICK F : ScanFold(F, input)
  <2> HIDE DEF next, step
  <2>1. PICK F : Solves(F, step, Reader(<<>>), input, ReaderStates, config.bytes)
    BY <1>2, <1>3, FoldSolved
  <2>2. \A T \in SUBSET DOMAIN input : T # {} =>
          step[<<F[T \ {Max(T)}], input[Max(T)]>>] = next(F[T \ {Max(T)}], input[Max(T)])
    BY <2>1 DEF step, Solves
  <2>3. F = [T \in SUBSET DOMAIN input |->
               IF T = {} THEN Reader(<<>>) ELSE next(F[T \ {Max(T)}], input[Max(T)])]
    BY <2>1, <2>2 DEF Solves
  <2> QED
    BY <2>3 DEF ScanFold, next, ScanNext
<1>5. PICK G : ScanFold(G, input) /\ Scan(input) = G[DOMAIN input]
  BY <1>4 DEF Scan, FoldLeft, MapThenFoldSet, ScanFold
<1>6. Len(input) \in Nat /\ DOMAIN input = 1..Len(input)
  OBVIOUS
<1> DEFINE S == {k \in Nat : k <= Len(input) => G[1..k] \in ReaderStates}
<1>7. 0 \in S
  <2>1. 1..0 = {} /\ 1..0 \in SUBSET DOMAIN input
    OBVIOUS
  <2>2. G[1..0] = Reader(<<>>)
    BY <1>5, <2>1 DEF ScanFold
  <2> QED
    BY <1>3, <2>2
<1>8. ASSUME NEW k \in S PROVE k + 1 \in S
  <2> SUFFICES ASSUME k + 1 <= Len(input) PROVE G[1..(k + 1)] \in ReaderStates
    BY <1>8
  <2>1. /\ 1..(k + 1) \in SUBSET DOMAIN input /\ k + 1 \in Nat \ {0} /\ (k + 1) - 1 = k
        /\ input[k + 1] \in config.bytes /\ G[1..k] \in ReaderStates
    BY <1>6, <1>8
  <2>2. 1..(k + 1) # {} /\ Max(1..(k + 1)) = k + 1 /\ (1..(k + 1)) \ {k + 1} = 1..k
    BY <2>1, MaxOfFirst
  <2>3. G[1..(k + 1)] = next(G[1..k], input[k + 1])
    BY <1>5, <2>1, <2>2 DEF ScanFold, ScanNext
  <2> HIDE DEF next
  <2> QED
    BY <1>1, <2>1, <2>3
<1> HIDE DEF S
<1>9. S = Nat
  <2>1. S \in SUBSET Nat
    BY DEF S
  <2> QED
    BY <2>1, <1>7, <1>8, Inductive
<1> DEFINE H == [k \in 0..Len(input) |-> G[1..k]]
<1>10. \A k \in 0..Len(input) : H[k] = G[1..k] /\ H[k] \in ReaderStates
  BY <1>6, <1>9 DEF S
<1>11. H[0] = Reader(<<>>) /\ H[Len(input)] = Scan(input)
  <2>1. 1..0 = {} /\ 1..0 \in SUBSET DOMAIN input /\ 0 \in 0..Len(input)
    BY <1>6
  <2>2. G[1..0] = Reader(<<>>)
    BY <1>5, <2>1 DEF ScanFold
  <2>3. Len(input) \in 0..Len(input)
    BY <1>6
  <2> HIDE DEF H
  <2> QED
    BY <1>5, <1>6, <1>10, <2>1, <2>2, <2>3
<1>12. ASSUME NEW k \in 0..Len(input), k < Len(input)
       PROVE  H[k + 1] = ScanNext(H[k], input[k + 1])
  <2>1. /\ 1..(k + 1) \in SUBSET DOMAIN input /\ k + 1 \in Nat \ {0} /\ (k + 1) - 1 = k
        /\ k + 1 \in 0..Len(input)
    BY <1>6, <1>12
  <2>2. 1..(k + 1) # {} /\ Max(1..(k + 1)) = k + 1 /\ (1..(k + 1)) \ {k + 1} = 1..k
    BY <2>1, MaxOfFirst
  <2>3. G[1..(k + 1)] = ScanNext(G[1..k], input[k + 1])
    BY <1>5, <2>1, <2>2 DEF ScanFold, ScanNext
  <2> HIDE DEF H
  <2> QED
    BY <1>10, <2>1, <2>3
<1> HIDE DEF H
<1>13. ScanSteps(H, input)
  BY <1>10, <1>11, <1>12 DEF ScanSteps
<1> QED
  BY <1>13

\* It ends in one.
LEMMA ScanType ==
  ASSUME TelnetInv, NEW input \in Seq(config.bytes)
  PROVE  Scan(input) \in ReaderStates
<1>1. PICK H : ScanSteps(H, input)
  BY ScanGoes
<1>2. Len(input) \in 0..Len(input)
  OBVIOUS
<1> QED
  BY <1>1, <1>2 DEF ScanSteps

-----------------------------------------------------------------------------
(* Steps of the record                                                     *)

\* How many events there can be, at most; a handler leaves room for the two
\* it may record at its end.
LEMMA MostIs ==
  ASSUME RecordInv, TelnetInv
  PROVE  /\ MostEvents \in 0..(MAX_ATTEMPTS + 1)
         /\ ~Closed => MostEvents <= MAX_ATTEMPTS
         /\ MAX_ATTEMPTS \in Nat \ {0} /\ MAX_EVENTS \in Nat
         /\ MAX_ATTEMPTS < MAX_EVENTS
<1>1. config.protocol \in {"raw", "ssh", "http", "telnet"}
  BY SettingsOK DEF RecordInv
<1>2. /\ attempts \in 0..MAX_ATTEMPTS
      /\ Telnet /\ pc = "incorrect" => attempts < MAX_ATTEMPTS
  BY DEF TelnetInv
<1> QED
  BY <1>1, <1>2, TelnetAssumption, IoAssumption DEF MostEvents, Closed, Raw, Ssh, Http, Telnet

\* What a step owes to the record.
LEMMA StepKeeps ==
  ASSUME RecordInv, config' = config, stream' \in Seq(config.bytes),
         reason' = "byte_limit" => Len(stream') = config.input_limit,
         NEW n \in Nat, RecordOK(session', stream', n), n <= MostEvents', MostEvents' \in Nat
  PROVE  RecordInv'
<1>1. RecordOK(session, stream, MostEvents)'
  <2>1. Len(session'.events) \in Nat
    BY DEF RecordOK
  <2>2. \A k \in DOMAIN session'.events : Private(session.events[k])'
    BY DEF RecordOK, Private, LoginMinimized, Metadata, Http
  <2>3. Numbers(session, stream)'
    BY DEF RecordOK, Numbers
  <2> QED
    BY <2>1, <2>2, <2>3 DEF RecordOK
<1> QED
  BY <1>1 DEF RecordInv

\* A record with at most m events has at most n, if n is no less.
LEMMA MoreRoom ==
  ASSUME NEW s, NEW str, NEW m \in Nat, NEW n \in Nat, m <= n, RecordOK(s, str, m)
  PROVE  RecordOK(s, str, n)
BY DEF RecordOK

\* Handlers that are not the session's are not disturbed.
LEMMA OthersKeep ==
  ASSUME config' = config
  PROVE  /\ TelnetInv /\ UNCHANGED telnetVars /\ ~Telnet => TelnetInv'
         /\ ~Http => HttpInv'
         /\ ~Ssh => SshInv'
<1>1. ASSUME TelnetInv, UNCHANGED telnetVars, ~Telnet PROVE TelnetInv'
  BY <1>1 DEF TelnetInv, telnetVars, readerVars, Telnet, Letters
<1>2. ASSUME ~Http PROVE HttpInv'
  BY <1>2 DEF HttpInv, Http
<1>3. ASSUME ~Ssh PROVE SshInv'
  BY <1>3 DEF SshInv, Ssh
<1> QED
  BY <1>1, <1>2, <1>3

\* A handler that returns, with at most two more events.
LEMMA LeaveKeeps ==
  ASSUME RecordInv, UNCHANGED <<config, stream>>, NEW why, NEW s, Leave(why, s),
         why = "byte_limit" => Len(stream) = config.input_limit,
         RecordOK(s, stream, MAX_ATTEMPTS + 1)
  PROVE  RecordInv'
<1>1. pc' = "closed" /\ reason' = why /\ session' = s
  BY DEF Leave, Close
<1>2. MostEvents' = MAX_ATTEMPTS + 1 /\ MAX_ATTEMPTS + 1 \in Nat
  BY <1>1, TelnetAssumption DEF MostEvents, Closed
<1> QED
  BY <1>1, <1>2, StepKeeps DEF RecordInv

\* The raw handler.
LEMMA RawKeeps ==
  ASSUME SessionInv, RawStep, UNCHANGED <<telnetVars, httpVars, sshVars>>
  PROVE  SessionInv'
<1>0. /\ Raw /\ ~Closed /\ ~Telnet /\ ~Http /\ ~Ssh /\ config' = config
      /\ RecordInv /\ TelnetInv /\ stream \in Seq(config.bytes)
      /\ BufferSize \in Nat \ {0}
  BY IoAssumption DEF RawStep, RawBanner, RawRead, RawReadEnds, Raw, Telnet, Http, Ssh, Closed,
     SessionInv, RecordInv
<1>1. /\ MostEvents = 0 /\ RecordOK(session, stream, 0)
      /\ RecordOK(session, stream, MAX_ATTEMPTS + 1) /\ MAX_ATTEMPTS + 1 \in Nat
  <2>1. MostEvents = 0
    BY <1>0 DEF MostEvents
  <2>2. RecordOK(session, stream, 0)
    BY <1>0, <2>1 DEF RecordInv
  <2> QED
    BY <2>1, <2>2, MoreRoom, TelnetAssumption
<1>2. pc' = "read" => MostEvents' = 0
  BY <1>0 DEF MostEvents, Raw, Closed, Ssh, Http, Telnet
<1>3. RecordInv'
  <2>1. CASE RawBanner
    <3>1. CASE Goto("read", session)
      BY <1>0, <1>1, <1>2, <2>1, <3>1, StepKeeps DEF RawBanner, Goto, RecordInv
    <3>2. CASE \E why \in WriteFailures : Leave(why, session)
      <4>1. PICK why \in WriteFailures : Leave(why, session)
        BY <3>2
      <4> QED
        BY <1>0, <1>1, <2>1, <4>1, LeaveKeeps DEF RawBanner, WriteFailures
    <3> QED
      BY <2>1, <3>1, <3>2 DEF RawBanner
  <2>2. CASE RawRead
    <3>1. PICK chunk \in Chunks(Available(BufferSize)) :
            stream' = stream \o chunk /\ Goto("read", record_bytes(session, chunk))
      BY <2>2 DEF RawRead
    <3>2. /\ RecordOK(session', stream', 0) /\ stream' \in Seq(config.bytes)
          /\ reason' # "byte_limit"
      BY <1>0, <1>1, <3>1, ReadKeeps DEF Goto
    <3> QED
      BY <1>0, <1>2, <3>1, <3>2, StepKeeps DEF Goto
  <2>3. CASE RawReadEnds
    <3>1. PICK why \in ReadFailures(BufferSize) : Leave(why, session)
      BY <2>3 DEF RawReadEnds
    <3>2. why = "byte_limit" => Len(stream) = config.input_limit
      BY <1>0, <3>1, ReadFails
    <3> QED
      BY <1>0, <1>1, <2>3, <3>1, <3>2, LeaveKeeps DEF RawReadEnds
  <2> QED
    BY <2>1, <2>2, <2>3 DEF RawStep
<1> QED
  BY <1>0, <1>3, OthersKeep DEF SessionInv

-----------------------------------------------------------------------------
(* The first line of an SSH session                                        *)

\* A set of numbers has a least one.
LEMMA MinExists ==
  ASSUME NEW T \in SUBSET Nat, T # {}
  PROVE  Min(T) \in T /\ \A y \in T : Min(T) <= y
<1> DEFINE Below(k) == \A j \in 0..k : j \notin T
           S == {k \in Nat : Below(k)}
<1>1. \E x \in T : \A y \in T : x <= y
  <2> SUFFICES ASSUME ~(\E x \in T : \A y \in T : x <= y) PROVE FALSE
    OBVIOUS
  <2>1. 0 \in S
    <3>1. 0 \notin T
      BY \A y \in T : 0 <= y
    <3> QED
      BY <3>1
  <2>2. ASSUME NEW k \in S PROVE k + 1 \in S
    <3>1. \A y \in T : k + 1 <= y
      <4> SUFFICES ASSUME NEW y \in T, y <= k PROVE FALSE
        BY <2>2
      <4> QED
        BY <2>2
    <3>2. k + 1 \notin T
      BY <3>1
    <3>3. \A j \in 0..(k + 1) : j \in 0..k \/ j = k + 1
      BY <2>2
    <3> QED
      BY <2>2, <3>2, <3>3
  <2> HIDE DEF S
  <2>3. S = Nat
    <3>1. S \in SUBSET Nat
      BY DEF S
    <3> QED
      BY <3>1, <2>1, <2>2, Inductive
  <2>4. ASSUME NEW y \in T PROVE FALSE
    <3>1. y \in S /\ y \in 0..y
      BY <2>3
    <3> QED
      BY <3>1 DEF S
  <2> QED
    BY <2>4
<1> QED
  BY <1>1 DEF Min

\* Where the first line of s ends.
EndIn(s) == SelectInSeq(s, LAMBDA byte : byte = "LF")

FirstLF(s, e) == e \in 1..Len(s) /\ s[e] = "LF" /\ \A i \in 1..(e - 1) : s[i] # "LF"

\* It ends at the first LF.
LEMMA EndInIs ==
  ASSUME NEW S, NEW s \in Seq(S)
  PROVE  /\ (EndIn(s) = 0 /\ \A i \in 1..Len(s) : s[i] # "LF") \/ FirstLF(s, EndIn(s))
         /\ (\A i \in 1..Len(s) : s[i] # "LF") => EndIn(s) = 0
         /\ \A e : FirstLF(s, e) => EndIn(s) = e
<1> DEFINE I == {i \in 1..Len(s) : s[i] = "LF"}
<1>1. Len(s) \in Nat /\ I \in SUBSET Nat
  OBVIOUS
<1>2. EndIn(s) = IF I # {} THEN Min(I) ELSE 0
  BY Zenon DEF EndIn, SelectInSeq
<1>3. I # {} => Min(I) \in I /\ \A y \in I : Min(I) <= y
  BY <1>1, MinExists
<1>4. I # {} => FirstLF(s, EndIn(s))
  <2> SUFFICES ASSUME I # {} PROVE FirstLF(s, EndIn(s))
    OBVIOUS
  <2>1. EndIn(s) \in I /\ \A y \in I : EndIn(s) <= y
    BY <1>2, <1>3
  <2>2. EndIn(s) \in 1..Len(s) /\ s[EndIn(s)] = "LF"
    BY <2>1
  <2>3. ASSUME NEW i \in 1..(EndIn(s) - 1) PROVE s[i] # "LF"
    <3>1. i \in 1..Len(s) /\ ~(EndIn(s) <= i)
      BY <1>1, <2>2
    <3> QED
      BY <2>1, <3>1
  <2> QED
    BY <2>2, <2>3 DEF FirstLF
<1>5. I = {} => EndIn(s) = 0 /\ \A i \in 1..Len(s) : s[i] # "LF"
  BY <1>2
<1>6. ASSUME NEW e, FirstLF(s, e) PROVE EndIn(s) = e
  <2>1. e \in I /\ I # {}
    BY <1>6 DEF FirstLF
  <2>2. FirstLF(s, EndIn(s))
    BY <1>4, <2>1
  <2> HIDE DEF I
  <2>3. EndIn(s) \in Nat /\ e \in Nat
    BY <1>1, <1>6, <2>2 DEF FirstLF
  <2>4. ~(EndIn(s) < e) /\ ~(e < EndIn(s))
    BY <1>1, <1>6, <2>2, <2>3 DEF FirstLF
  <2> QED
    BY <2>3, <2>4
<1> QED
  BY <1>4, <1>5, <1>6

\* The beginning of a sequence.
LEMMA PrefixOf ==
  ASSUME NEW S, NEW s \in Seq(S), NEW n \in Nat, n <= Len(s)
  PROVE  /\ SubSeq(s, 1, n) \in Seq(S) /\ Len(SubSeq(s, 1, n)) = n
         /\ \A i \in 1..n : SubSeq(s, 1, n)[i] = s[i]
OBVIOUS

LineStates == [id : Seq(config.bytes), result : {"more", "line", "too_long"}]

\* r is what was made of the beginning of t, up to the byte k.
LineOK(r, t, k) ==
  /\ r \in LineStates
  /\ Len(r.id) <= k /\ r.id = SubSeq(t, 1, Len(r.id))
  /\ r.result = "more" =>
       /\ Len(r.id) = k /\ k < MAX_IDENTIFICATION_BYTES
       /\ \A i \in 1..k : t[i] # "LF"
  /\ r.result = "line" => FirstLF(t, Len(r.id)) /\ Len(r.id) <= MAX_IDENTIFICATION_BYTES
  /\ r.result = "too_long" =>
       /\ Len(r.id) = MAX_IDENTIFICATION_BYTES
       /\ \A i \in 1..Len(r.id) : t[i] # "LF"

\* One byte of the loop.
Pushed(r, byte) == IF r.result = "more" THEN Push(r, byte) ELSE r

\* A byte more, and the line is as it should be.
LEMMA PushedOK ==
  ASSUME NEW t \in Seq(config.bytes), NEW k \in Nat, k + 1 <= Len(t), NEW r, LineOK(r, t, k)
  PROVE  LineOK(Pushed(r, t[k + 1]), t, k + 1)
<1> DEFINE byte == t[k + 1]
           id == Append(r.id, byte)
           q == Push(r, byte)
<1>0. /\ r \in LineStates /\ r.id \in Seq(config.bytes) /\ Len(r.id) \in Nat
      /\ byte \in config.bytes /\ Len(t) \in Nat
      /\ r.result \in {"more", "line", "too_long"}
      /\ MAX_IDENTIFICATION_BYTES \in Nat
  BY SshAssumption DEF LineOK, LineStates
<1>1. CASE r.result # "more"
  <2>1. Pushed(r, byte) = r
    BY <1>1 DEF Pushed
  <2>2. LineOK(r, t, k + 1)
    BY <1>0, <1>1 DEF LineOK
  <2> QED
    BY <2>1, <2>2
<1>2. CASE r.result = "more"
  <2>1. /\ Len(r.id) = k /\ k < MAX_IDENTIFICATION_BYTES /\ r.id = SubSeq(t, 1, k)
        /\ \A i \in 1..k : t[i] # "LF"
    BY <1>2 DEF LineOK
  <2>2. id \in Seq(config.bytes) /\ Len(id) = k + 1
    <3> HIDE DEF byte
    <3>1. id \in Seq(config.bytes) /\ Len(id) = Len(r.id) + 1
      <4>1. \A x \in Seq(config.bytes), y \in config.bytes :
              Append(x, y) \in Seq(config.bytes) /\ Len(Append(x, y)) = Len(x) + 1
        BY AppendProperties
      <4>2. r.id \in Seq(config.bytes) /\ byte \in config.bytes
        BY <1>0
      <4> QED
        BY <4>1, <4>2, Zenon
    <3> QED
      BY <2>1, <3>1
  <2>3. id = SubSeq(t, 1, k + 1)
    <3>1. SubSeq(t, 1, k + 1) \in Seq(config.bytes) /\ Len(SubSeq(t, 1, k + 1)) = k + 1
          /\ \A i \in 1..(k + 1) : SubSeq(t, 1, k + 1)[i] = t[i]
      <4>1. k + 1 \in Nat
        OBVIOUS
      <4> QED
        BY <4>1, PrefixOf, Zenon
    <3>2. \A i \in 1..k : r.id[i] = t[i]
      BY <1>0, <2>1
    <3>3. ASSUME NEW i \in 1..(k + 1) PROVE id[i] = t[i]
      <4>1. CASE i = k + 1
        BY <1>0, <2>1, <4>1
      <4>2. CASE i # k + 1
        <5>1. i \in 1..k
          BY <4>2
        <5> QED
          BY <5>1, <1>0, <2>1, <3>2
      <4> QED
        BY <4>1, <4>2
    <3> HIDE DEF id
    <3> QED
      BY <2>2, <3>1, <3>3, SeqEqual
  <2>4. /\ q.id = id
        /\ q.result = IF byte = "LF" THEN "line"
                      ELSE IF Len(id) >= MAX_IDENTIFICATION_BYTES THEN "too_long" ELSE "more"
        /\ q = [id |-> q.id, result |-> q.result]
    BY DEF Push
  <2>5. Pushed(r, byte) = q
    BY <1>2 DEF Pushed
  <2> HIDE DEF id, q, byte
  <2>6. /\ q.result = "line" => byte = "LF"
        /\ q.result = "too_long" => byte # "LF" /\ Len(id) >= MAX_IDENTIFICATION_BYTES
        /\ q.result = "more" => byte # "LF" /\ ~(Len(id) >= MAX_IDENTIFICATION_BYTES)
        /\ q.result \in {"more", "line", "too_long"}
    BY <2>4
  <2>7. q \in LineStates
    BY <2>2, <2>4, <2>6 DEF LineStates
  <2>8. byte # "LF" => \A i \in 1..(k + 1) : t[i] # "LF"
    BY <2>1 DEF byte
  <2>9. byte = "LF" => FirstLF(t, k + 1)
    BY <2>1, <1>0 DEF byte, FirstLF
  <2>10. LineOK(q, t, k + 1)
    BY <1>0, <2>1, <2>2, <2>3, <2>4, <2>6, <2>7, <2>8, <2>9 DEF LineOK
  <2> QED
    BY <2>5, <2>10 DEF byte
<1> QED
  BY <1>1, <1>2

\* Identify as a fold that G solves.
IdentifyFold(G, chunk) ==
  G = [T \in SUBSET DOMAIN chunk |->
         IF T = {} THEN Begin
         ELSE IF G[T \ {Max(T)}].result = "more"
              THEN Push(G[T \ {Max(T)}], chunk[Max(T)])
              ELSE G[T \ {Max(T)}]]

\* The loop over one read makes of it what is due, if all that came before
\* belongs to the line.
LEMMA IdentifyOK ==
  ASSUME identification \in Seq(config.bytes), NEW chunk \in Seq(config.bytes),
         Len(identification) < MAX_IDENTIFICATION_BYTES,
         \A i \in 1..Len(identification) : identification[i] # "LF"
  PROVE  LineOK(Identify(chunk), identification \o chunk, Len(identification) + Len(chunk))
<1> DEFINE t == identification \o chunk
           n == Len(identification)
           step == [x \in LineStates \X config.bytes |-> Pushed(x[1], x[2])]
<1>0. /\ Len(chunk) \in Nat /\ n \in Nat /\ DOMAIN chunk = 1..Len(chunk)
      /\ t \in Seq(config.bytes) /\ Len(t) = n + Len(chunk)
      /\ \A k \in 1..Len(chunk) : t[n + k] = chunk[k] /\ chunk[k] \in config.bytes
  OBVIOUS
<1>1. ASSUME NEW r \in LineStates, NEW byte \in config.bytes
      PROVE  Pushed(r, byte) \in LineStates
  <2>1. Append(r.id, byte) \in Seq(config.bytes) /\ r.result \in {"more", "line", "too_long"}
    BY AppendProperties DEF LineStates
  <2> QED
    BY <2>1 DEF Pushed, Push, LineStates
<1>2. step \in [LineStates \X config.bytes -> LineStates]
  BY <1>1
<1>3. Begin \in LineStates
  BY DEF Begin, LineStates
<1>4. PICK F : IdentifyFold(F, chunk)
  <2> HIDE DEF step
  <2>1. PICK F : Solves(F, step, Begin, chunk, LineStates, config.bytes)
    BY <1>2, <1>3, FoldSolved
  <2>2. \A T \in SUBSET DOMAIN chunk : T # {} =>
          step[<<F[T \ {Max(T)}], chunk[Max(T)]>>] = Pushed(F[T \ {Max(T)}], chunk[Max(T)])
    BY <2>1 DEF step, Solves
  <2>3. F = [T \in SUBSET DOMAIN chunk |->
               IF T = {} THEN Begin ELSE Pushed(F[T \ {Max(T)}], chunk[Max(T)])]
    BY <2>1, <2>2 DEF Solves
  <2> QED
    BY <2>3 DEF IdentifyFold, Pushed
<1>5. PICK G : IdentifyFold(G, chunk) /\ Identify(chunk) = G[DOMAIN chunk]
  BY <1>4 DEF Identify, FoldLeft, MapThenFoldSet, IdentifyFold
<1> HIDE DEF t, n, step
<1> DEFINE S == {k \in Nat : k <= Len(chunk) => LineOK(G[1..k], t, n + k)}
<1>6. 0 \in S
  <2>1. 1..0 = {} /\ 1..0 \in SUBSET DOMAIN chunk
    OBVIOUS
  <2>2. G[1..0] = Begin
    BY <1>5, <2>1 DEF IdentifyFold
  <2>3. Begin.id = identification /\ Begin.result = "more"
    BY DEF Begin
  <2>4. identification = SubSeq(t, 1, n)
    <3>1. \A i \in 1..n : t[i] = identification[i]
      BY DEF t, n
    <3>2. SubSeq(t, 1, n) \in Seq(config.bytes) /\ Len(SubSeq(t, 1, n)) = n
          /\ \A i \in 1..n : SubSeq(t, 1, n)[i] = t[i]
      <4>1. n \in Nat /\ n <= Len(t) /\ t \in Seq(config.bytes)
        BY <1>0
      <4> QED
        BY <4>1, PrefixOf, Zenon
    <3> QED
      BY <3>1, <3>2, SeqEqual DEF n
  <2>5. \A i \in 1..n : t[i] # "LF"
    BY <1>0 DEF t, n
  <2>6. LineOK(Begin, t, n)
    BY <1>0, <1>3, <2>3, <2>4, <2>5 DEF LineOK, n
  <2>7. n + 0 = n
    BY <1>0
  <2> QED
    BY <2>2, <2>6, <2>7
<1>7. ASSUME NEW k \in S PROVE k + 1 \in S
  <2> SUFFICES ASSUME k + 1 <= Len(chunk) PROVE LineOK(G[1..(k + 1)], t, n + (k + 1))
    BY <1>7
  <2>1. /\ 1..(k + 1) \in SUBSET DOMAIN chunk /\ k + 1 \in Nat \ {0} /\ (k + 1) - 1 = k
        /\ LineOK(G[1..k], t, n + k) /\ k + 1 \in 1..Len(chunk)
    BY <1>0, <1>7
  <2>2. 1..(k + 1) # {} /\ Max(1..(k + 1)) = k + 1 /\ (1..(k + 1)) \ {k + 1} = 1..k
    BY <2>1, MaxOfFirst
  <2>3. G[1..(k + 1)] = Pushed(G[1..k], chunk[k + 1])
    <3>1. \A T \in SUBSET DOMAIN chunk :
            T # {} => G[T] = Pushed(G[T \ {Max(T)}], chunk[Max(T)])
      BY <1>5 DEF IdentifyFold, Pushed
    <3> QED
      BY <2>1, <2>2, <3>1
  <2>4. /\ n + k \in Nat /\ (n + k) + 1 <= Len(t) /\ (n + k) + 1 = n + (k + 1)
        /\ t[n + (k + 1)] = chunk[k + 1]
    BY <1>0, <1>7, <2>1
  <2>5. LineOK(Pushed(G[1..k], t[(n + k) + 1]), t, (n + k) + 1)
    BY <1>0, <2>1, <2>4, PushedOK
  <2> QED
    BY <2>3, <2>4, <2>5
<1> HIDE DEF S
<1>8. S = Nat
  <2>1. S \in SUBSET Nat
    BY DEF S
  <2> QED
    BY <2>1, <1>6, <1>7, Inductive
<1>9. LineOK(G[1..Len(chunk)], t, n + Len(chunk))
  BY <1>0, <1>8 DEF S
<1> QED
  BY <1>0, <1>5, <1>9 DEF t, n

\* What follows the first line does not move its end.
LEMMA EndStays ==
  ASSUME NEW S, NEW s \in Seq(S), NEW t \in Seq(S), EndIn(s) # 0
  PROVE  /\ EndIn(s \o t) = EndIn(s)
         /\ SubSeq(s \o t, 1, EndIn(s)) = SubSeq(s, 1, EndIn(s))
<1>1. FirstLF(s, EndIn(s))
  BY EndInIs
<1>2. /\ s \o t \in Seq(S) /\ Len(s \o t) = Len(s) + Len(t) /\ Len(s) \in Nat /\ Len(t) \in Nat
      /\ \A i \in 1..Len(s) : (s \o t)[i] = s[i]
  OBVIOUS
<1> DEFINE e == EndIn(s)
<1>3. e \in 1..Len(s)
  BY <1>1 DEF FirstLF
<1> HIDE DEF e
<1>4. FirstLF(s \o t, e)
  BY <1>1, <1>2, <1>3 DEF FirstLF, e
<1>5. SubSeq(s \o t, 1, e) = SubSeq(s, 1, e)
  BY <1>2, <1>3, SubSeqOfConcat1
<1> QED
  BY <1>2, <1>4, <1>5, EndInIs DEF e

-----------------------------------------------------------------------------
(* The SSH handler                                                         *)

\* An event more than the record had, and the handler goes on or returns.
LEMMA PushedRecord ==
  ASSUME NEW r, NEW str, NEW n \in 0..MAX_ATTEMPTS, RecordOK(r, str, n),
         NEW event, Private(redact(event))
  PROVE  /\ RecordOK(push_event(r, event), str, n + 1)
         /\ push_event(r, event).events = Append(r.events, redact(event))
<1>1. n \in Nat /\ n < MAX_EVENTS
  BY TelnetAssumption, IoAssumption
<1> QED
  BY <1>1, PushKeeps

\* Reading the identification: the record.
LEMMA ReadIdentificationKeeps ==
  ASSUME SessionInv, ReadIdentification
  PROVE  RecordInv' /\ SshInv'
<1>0. /\ Ssh /\ pc = "read" /\ ~identified /\ ~Closed /\ config' = config
      /\ RecordInv /\ TelnetInv /\ config \in Configs
      /\ stream \in Seq(config.bytes) /\ BufferSize \in Nat
  BY IoAssumption DEF ReadIdentification, Closed, SessionInv, RecordInv
<1>1. PICK chunk \in Chunks(Available(BufferSize)) :
        LET r == Identify(chunk) IN
        /\ stream' = stream \o chunk
        /\ identification' = r.id
        /\ TakeIdentification(r, record_bytes(session, chunk))
  BY DEF ReadIdentification
<1> DEFINE r == Identify(chunk)
           s == record_bytes(session, chunk)
           t == stream \o chunk
           text == Stripped(r.id)
<1>2. chunk \in Seq(config.bytes) /\ Len(chunk) \in Nat
  BY <1>0, AvailableOf, ChunkOf
<1>3. /\ identification = stream /\ LineEnd = 0
      /\ Len(stream) < MAX_IDENTIFICATION_BYTES /\ session.events = <<>>
  BY <1>0 DEF SessionInv, SshInv
<1>4. MostEvents = 0
  BY <1>0 DEF MostEvents, Ssh, Raw, Http, Telnet
<1>5. RecordOK(s, t, 0) /\ s.events = <<>> /\ t \in Seq(config.bytes) /\ reason # "byte_limit"
  BY <1>0, <1>3, <1>4, ReadKeeps
<1>6. LineOK(r, t, Len(t)) /\ Len(t) \in Nat /\ MAX_IDENTIFICATION_BYTES \in Nat
  <2>1. \A i \in 1..Len(stream) : stream[i] # "LF"
    BY <1>0, <1>3, EndInIs DEF LineEnd, EndIn, FirstLF
  <2>2. LineOK(r, t, Len(stream) + Len(chunk))
    BY <1>0, <1>2, <1>3, <2>1, IdentifyOK
  <2>3. Len(t) = Len(stream) + Len(chunk) /\ Len(t) \in Nat
    BY <1>0, <1>2
  <2> QED
    BY <2>2, <2>3, SshAssumption
<1>7. stream' = t /\ LineEnd' = EndIn(t) /\ TakeIdentification(r, s)
  <2>1. stream' = t
    BY <1>1
  <2> HIDE DEF t
  <2>2. LineEnd' = EndIn(t)
    BY <2>1 DEF LineEnd, EndIn, SelectInSeq
  <2> QED
    BY <1>1, <2>1, <2>2
<1> HIDE DEF r, s, t
<1>8. 0 \in 0..MAX_ATTEMPTS /\ MAX_ATTEMPTS + 1 \in Nat /\ 1 <= MAX_ATTEMPTS + 1
      /\ 0 \in Nat /\ 1 \in Nat /\ 0 + 1 = 1
  BY TelnetAssumption
<1>9. /\ pc' = "closed" => MostEvents' = MAX_ATTEMPTS + 1
      /\ pc' = "read" /\ ~identified' => MostEvents' = 0
      /\ pc' = "read" /\ identified' => MostEvents' = 1
  BY <1>0 DEF MostEvents, Closed, Raw, Ssh, Http, Telnet
<1>10. r.id = SubSeq(t, 1, Len(r.id)) /\ Len(r.id) \in Nat /\ Len(r.id) <= Len(t)
  BY <1>6 DEF LineOK, LineStates
<1>11. /\ r.result = "line" => EndIn(t) = Len(r.id) /\ Len(r.id) \in 1..MAX_IDENTIFICATION_BYTES
       /\ r.result = "more" => EndIn(t) = 0 /\ r.id = t /\ Len(t) < MAX_IDENTIFICATION_BYTES
       /\ r.result = "too_long" =>
            EndIn(t) \notin 1..MAX_IDENTIFICATION_BYTES /\ Len(t) >= MAX_IDENTIFICATION_BYTES
  <2>1. CASE r.result = "line"
    <3>1. FirstLF(t, Len(r.id)) /\ Len(r.id) <= MAX_IDENTIFICATION_BYTES
      BY <1>6, <2>1 DEF LineOK
    <3>2. EndIn(t) = Len(r.id)
      BY <1>5, <3>1, EndInIs
    <3>3. Len(r.id) \in 1..MAX_IDENTIFICATION_BYTES
      BY <1>10, <3>1, SshAssumption DEF FirstLF
    <3> QED
      BY <2>1, <3>2, <3>3
  <2>2. CASE r.result = "more"
    <3>1. Len(r.id) = Len(t) /\ Len(t) < MAX_IDENTIFICATION_BYTES
          /\ \A i \in 1..Len(t) : t[i] # "LF"
      BY <1>6, <2>2 DEF LineOK
    <3> QED
      BY <1>5, <1>10, <2>2, <3>1, EndInIs, SubSeqFull
  <2>3. CASE r.result = "too_long"
    <3>1. Len(r.id) = MAX_IDENTIFICATION_BYTES
          /\ \A i \in 1..MAX_IDENTIFICATION_BYTES : t[i] # "LF"
      BY <1>6, <2>3 DEF LineOK
    <3>2. EndIn(t) # 0 => t[EndIn(t)] = "LF"
      BY <1>5, EndInIs DEF FirstLF
    <3> QED
      BY <1>6, <1>10, <2>3, <3>1, <3>2
  <2> QED
    BY <2>1, <2>2, <2>3
<1>12. CASE r.result = "more" /\ Goto("read", s) /\ UNCHANGED identified
  <2>1. session' = s /\ pc' = "read" /\ reason' = reason /\ ~identified'
    BY <1>0, <1>12 DEF Goto
  <2>2. RecordInv'
    BY <1>0, <1>5, <1>7, <1>8, <1>9, <2>1, StepKeeps
  <2>3. identification' = stream'
    BY <1>1, <1>7, <1>11, <1>12 DEF r
  <2>4. SshInv'
    BY <1>5, <1>7, <1>11, <1>12, <2>1, <2>3 DEF SshInv, Closed
  <2> QED
    BY <2>2, <2>4
<1>13. ASSUME NEW why \in {"protocol_error"}, NEW msg, Leave(why, notice(s, msg)),
              UNCHANGED identified, Verdict' = <<Notice(msg)>>
       PROVE  RecordInv' /\ SshInv'
  <2>1. /\ RecordOK(notice(s, msg), t, 1)
        /\ notice(s, msg).events = <<Notice(msg)>>
    <3>1. Private(redact(Notice(msg))) /\ redact(Notice(msg)) = Notice(msg)
      BY NoticePrivate
    <3>2. /\ RecordOK(notice(s, msg), t, 1)
          /\ notice(s, msg).events = Append(<<>>, Notice(msg))
      BY <1>5, <1>8, <3>1, PushedRecord DEF notice
    <3> QED
      BY <3>2
  <2>2. session' = notice(s, msg) /\ pc' = "closed" /\ reason' = "protocol_error" /\ ~identified'
    BY <1>0, <1>13 DEF Leave, Close
  <2>3. RecordInv'
    BY <1>0, <1>5, <1>7, <1>8, <1>9, <2>1, <2>2, StepKeeps
  <2>4. SshInv'
    BY <1>13, <2>1, <2>2 DEF SshInv, Closed
  <2> QED
    BY <2>3, <2>4
<1>14. CASE /\ r.result = "too_long"
            /\ Leave("protocol_error", notice(s, "ssh_identification_too_long"))
            /\ UNCHANGED identified
  <2>1. Verdict' = <<Notice("ssh_identification_too_long")>>
    BY <1>7, <1>11, <1>14 DEF Verdict
  <2> QED
    BY <1>13, <1>14, <2>1
<1>15. CASE /\ r.result = "line" /\ ~valid_identification(text)
            /\ Leave("protocol_error", notice(s, "ssh_invalid_identification"))
            /\ UNCHANGED identified
  <2>1. SubSeq(t, 1, EndIn(t)) = r.id /\ EndIn(t) \in 1..MAX_IDENTIFICATION_BYTES
    BY <1>10, <1>11, <1>15
  <2>2. Verdict' = <<Notice("ssh_invalid_identification")>>
    BY <1>7, <1>15, <2>1 DEF Verdict
  <2> QED
    BY <1>13, <1>15, <2>2
<1>16. CASE /\ r.result = "line" /\ valid_identification(text)
            /\ Goto("read", push_event(s, SshClientBanner(text)))
            /\ identified' = TRUE
  <2>1. SubSeq(t, 1, EndIn(t)) = r.id /\ EndIn(t) \in 1..MAX_IDENTIFICATION_BYTES
    BY <1>10, <1>11, <1>16
  <2>2. /\ RecordOK(push_event(s, SshClientBanner(text)), t, 1)
        /\ push_event(s, SshClientBanner(text)).events = <<SshClientBanner(text)>>
    <3> HIDE DEF text
    <3>1. /\ Private(redact(SshClientBanner(text)))
          /\ redact(SshClientBanner(text)) = SshClientBanner(text)
      BY BannerPrivate
    <3>2. /\ RecordOK(push_event(s, SshClientBanner(text)), t, 1)
          /\ push_event(s, SshClientBanner(text)).events = Append(<<>>, SshClientBanner(text))
      BY <1>5, <1>8, <3>1, PushedRecord
    <3> QED
      BY <3>2
  <2>3. session' = push_event(s, SshClientBanner(text)) /\ pc' = "read" /\ reason' = reason
        /\ identified'
    BY <1>16 DEF Goto
  <2>4. RecordInv'
    BY <1>0, <1>5, <1>7, <1>8, <1>9, <2>2, <2>3, StepKeeps
  <2>5. SshInv'
    BY <1>7, <1>16, <2>1, <2>2, <2>3 DEF SshInv
  <2> QED
    BY <2>4, <2>5
<1> QED
  BY <1>7, <1>12, <1>14, <1>15, <1>16 DEF TakeIdentification

\* The SSH handler.
LEMMA SshKeeps ==
  ASSUME SessionInv, SshStep, UNCHANGED <<telnetVars, httpVars>>
  PROVE  SessionInv'
<1>0. /\ Ssh /\ ~Closed /\ ~Telnet /\ ~Http /\ ~Raw /\ config' = config
      /\ RecordInv /\ TelnetInv /\ SshInv /\ stream \in Seq(config.bytes)
      /\ config \in Configs /\ BufferSize \in Nat \ {0}
      /\ pc \in {"banner", "read"}
  BY IoAssumption DEF SshStep, SshBanner, ReadIdentification, ReadOn, SshReadEnds, Raw, Telnet,
     Http, Ssh, Closed, SessionInv, RecordInv
<1> DEFINE n == IF identified THEN 1 ELSE 0
<1>1. /\ MostEvents = n /\ n \in 0..MAX_ATTEMPTS /\ n \in Nat
      /\ RecordOK(session, stream, n) /\ MAX_ATTEMPTS + 1 \in Nat
      /\ RecordOK(session, stream, MAX_ATTEMPTS + 1)
  <2>1. MostEvents = n /\ n \in 0..MAX_ATTEMPTS /\ n <= MAX_ATTEMPTS + 1
        /\ n \in Nat /\ MAX_ATTEMPTS + 1 \in Nat
    BY <1>0, TelnetAssumption DEF MostEvents
  <2>2. RecordOK(session, stream, n)
    BY <1>0, <2>1 DEF RecordInv
  <2> HIDE DEF n
  <2> QED
    BY <2>1, <2>2, MoreRoom
<1>2. pc' \in {"read"} /\ identified' = identified => MostEvents' = n
  BY <1>0 DEF MostEvents, Raw, Closed, Ssh, Http, Telnet
<1> HIDE DEF n
<1>3. stream' = stream => LineEnd' = LineEnd
  BY DEF LineEnd, SelectInSeq
<1>4. ASSUME identified, identified', SubSeq(stream', 1, LineEnd') = SubSeq(stream, 1, LineEnd),
             LineEnd' = LineEnd, session'.events = session.events,
             pc' \in {"read", "closed"}
      PROVE  SshInv'
  BY <1>0, <1>4 DEF SshInv, Ssh
<1>5. ASSUME NEW why \in {"client_closed", "timeout", "error", "byte_limit"},
             Leave(why, session),
             UNCHANGED <<stream, identified, identification>>,
             why = "client_closed" => identified \/ identification = <<>>
      PROVE  SshInv'
  <2>1. pc' = "closed" /\ reason' = why /\ session' = session /\ LineEnd' = LineEnd
    BY <1>3, <1>5 DEF Leave, Close
  <2>2. CASE identified
    BY <1>4, <1>5, <2>1, <2>2
  <2>3. CASE ~identified
    <3>1. LineEnd = 0 /\ Len(stream) < MAX_IDENTIFICATION_BYTES /\ session.events = <<>>
          /\ identification = stream
      BY <1>0, <2>3 DEF SshInv
    <3>2. Verdict' = <<>>
      <4>1. LineEnd' \notin 1..MAX_IDENTIFICATION_BYTES
        BY <2>1, <3>1
      <4>2. ~(Len(stream') >= MAX_IDENTIFICATION_BYTES)
        BY <1>0, <1>5, <3>1, SshAssumption
      <4>3. ~(reason' = "client_closed" /\ stream' # <<>>)
        BY <1>5, <2>1, <2>3, <3>1
      <4> QED
        BY <4>1, <4>2, <4>3, Zenon DEF Verdict
    <3> QED
      BY <1>5, <2>1, <2>3, <3>1, <3>2 DEF SshInv, Closed
  <2> QED
    BY <2>2, <2>3
<1>6. RecordInv' /\ SshInv'
  <2>1. CASE SshBanner
    <3>1. CASE Goto("read", session)
      <4>1. RecordInv'
        BY <1>0, <1>1, <1>2, <2>1, <3>1, StepKeeps DEF SshBanner, sshVars, Goto, RecordInv
      <4>2. SshInv'
        BY <1>0, <1>3, <2>1, <3>1 DEF SshBanner, sshVars, Goto, SshInv, Ssh, Closed
      <4> QED
        BY <4>1, <4>2
    <3>2. CASE \E why \in WriteFailures : Leave(why, session)
      <4>1. PICK why \in WriteFailures : Leave(why, session)
        BY <3>2
      <4>2. why \in {"timeout", "error"}
        BY DEF WriteFailures
      <4>3. RecordInv'
        BY <1>0, <1>1, <2>1, <4>1, <4>2, LeaveKeeps DEF SshBanner
      <4>4. SshInv'
        BY <1>5, <2>1, <4>1, <4>2 DEF SshBanner, sshVars
      <4> QED
        BY <4>3, <4>4
    <3> QED
      BY <2>1, <3>1, <3>2 DEF SshBanner
  <2>2. CASE ReadIdentification
    BY <2>2, ReadIdentificationKeeps
  <2>3. CASE ReadOn
    <3>1. PICK chunk \in Chunks(Available(BufferSize)) :
            stream' = stream \o chunk /\ Goto("read", record_bytes(session, chunk))
      BY <2>3 DEF ReadOn
    <3>2. /\ RecordOK(session', stream', n) /\ stream' \in Seq(config.bytes)
          /\ session'.events = session.events
          /\ reason' # "byte_limit"
      BY <1>0, <1>1, <3>1, ReadKeeps DEF Goto
    <3>3. pc' = "read" /\ identified /\ identified' = identified
      BY <2>3, <3>1 DEF ReadOn, Goto, sshVars
    <3>4. RecordInv'
      BY <1>0, <1>1, <1>2, <3>1, <3>2, <3>3, StepKeeps
    <3>5. chunk \in Seq(config.bytes)
      BY <1>0, AvailableOf, ChunkOf
    <3>6. LineEnd = EndIn(stream) /\ LineEnd' = EndIn(stream') /\ LineEnd # 0
      BY <1>0, <3>3 DEF LineEnd, EndIn, SelectInSeq, SshInv
    <3>7. LineEnd' = LineEnd /\ SubSeq(stream', 1, LineEnd') = SubSeq(stream, 1, LineEnd)
      BY <1>0, <3>1, <3>5, <3>6, EndStays
    <3> QED
      BY <1>4, <3>2, <3>3, <3>4, <3>7
  <2>4. CASE SshReadEnds
    <3>1. PICK why \in ReadFailures(BufferSize) :
            Leave(why, IF why = "client_closed" /\ ~identified /\ identification # <<>>
                       THEN notice(session, "ssh_incomplete_identification") ELSE session)
      BY <2>4 DEF SshReadEnds
    <3>2. why = "byte_limit" => Len(stream) = config.input_limit
      BY <1>0, <3>1, ReadFails
    <3>3. why \in {"client_closed", "timeout", "error", "byte_limit"}
      BY DEF ReadFailures
    <3>4. UNCHANGED <<config, stream, identified, identification>>
      BY <2>4 DEF SshReadEnds, sshVars
    <3>5. CASE why = "client_closed" /\ ~identified /\ identification # <<>>
      <4> DEFINE s == notice(session, "ssh_incomplete_identification")
      <4>1. Leave(why, s)
        BY <3>1, <3>5
      <4>2. LineEnd = 0 /\ Len(stream) < MAX_IDENTIFICATION_BYTES /\ session.events = <<>>
            /\ identification = stream
        BY <1>0, <3>5 DEF SshInv
      <4>3. /\ Private(redact(Notice("ssh_incomplete_identification")))
            /\ redact(Notice("ssh_incomplete_identification"))
                 = Notice("ssh_incomplete_identification")
        BY NoticePrivate
      <4>4. RecordOK(s, stream, n + 1)
            /\ s.events = Append(<<>>, Notice("ssh_incomplete_identification"))
        BY <1>1, <4>2, <4>3, PushedRecord DEF notice
      <4>5. RecordOK(s, stream, MAX_ATTEMPTS + 1)
        <5>1. n + 1 \in Nat /\ n + 1 <= MAX_ATTEMPTS + 1
          BY <1>1, TelnetAssumption
        <5> HIDE DEF s
        <5> QED
          BY <1>1, <4>4, <5>1, MoreRoom
      <4>6. s.events = <<Notice("ssh_incomplete_identification")>>
        BY <4>4
      <4> HIDE DEF s
      <4>7. RecordInv'
        BY <1>0, <3>2, <3>4, <4>1, <4>5, LeaveKeeps
      <4>8. pc' = "closed" /\ reason' = "client_closed" /\ session' = s
        BY <3>5, <4>1 DEF Leave, Close
      <4>9. Verdict' = <<Notice("ssh_incomplete_identification")>>
        <5>1. LineEnd' \notin 1..MAX_IDENTIFICATION_BYTES
          BY <1>3, <3>4, <4>2
        <5>2. ~(Len(stream') >= MAX_IDENTIFICATION_BYTES)
          BY <1>0, <3>4, <4>2, SshAssumption
        <5>3. reason' = "client_closed" /\ stream' # <<>>
          BY <3>4, <3>5, <4>2, <4>8
        <5> QED
          BY <5>1, <5>2, <5>3, Zenon DEF Verdict
      <4>10. SshInv'
        BY <3>4, <3>5, <4>6, <4>8, <4>9 DEF SshInv, Closed
      <4> QED
        BY <4>7, <4>10
    <3>6. CASE ~(why = "client_closed" /\ ~identified /\ identification # <<>>)
      <4>1. Leave(why, session)
        BY <3>1, <3>6
      <4>2. RecordInv'
        BY <1>0, <1>1, <3>2, <3>4, <4>1, LeaveKeeps
      <4>3. SshInv'
        BY <1>5, <3>3, <3>4, <3>6, <4>1
      <4> QED
        BY <4>2, <4>3
    <3> QED
      BY <3>5, <3>6
  <2> QED
    BY <2>1, <2>2, <2>3, <2>4 DEF SshStep
<1> QED
  BY <1>0, <1>6, OthersKeep DEF SessionInv

-----------------------------------------------------------------------------
(* The HTTP handler                                                        *)

\* A delimiter that ends in the new bytes begins in what is searched again.
LEMMA ScanNew ==
  ASSUME NEW S, NEW s \in Seq(S), NEW c \in Seq(S), Delimiters(s, 0) = {}
  PROVE  Delimiters(s \o c, scan_from(s)) = Delimiters(s \o c, 0)
<1>1. Len(s) \in Nat /\ Len(c) \in Nat /\ Len(s \o c) = Len(s) + Len(c)
  OBVIOUS
<1>2. ASSUME NEW k \in Delimiters(s \o c, 0) PROVE k > scan_from(s)
  <2> SUFFICES ASSUME k <= scan_from(s) PROVE FALSE
    BY <1>1, <1>2 DEF Delimiters, scan_from
  <2>1. k \in 1..(Len(s) - 3) /\ k \in 1..Len(s) /\ k + 3 \in 1..Len(s)
    BY <1>1, <1>2 DEF Delimiters, scan_from
  <2>2. SubSeq(s \o c, k, k + 3) = SubSeq(s, k, k + 3)
    BY <2>1, SubSeqOfConcat1
  <2>3. k \in Delimiters(s, 0)
    <3>1. DelimiterAt(s \o c, k)
      BY <1>2 DEF Delimiters
    <3>2. DelimiterAt(s, k)
      BY <2>2, <3>1, Zenon DEF DelimiterAt
    <3>3. k \in (0 + 1)..(Len(s) - 3)
      BY <2>1
    <3> QED
      BY <3>2, <3>3, Zenon DEF Delimiters
  <2> QED
    BY <2>3
<1> QED
  BY <1>1, <1>2 DEF Delimiters, scan_from

\* What HttpFraming calls the end of the headers.
LEMMA EndsAre ==
  ASSUME stream \in Seq(config.bytes)
  PROVE  /\ Ends = {} <=> Delimiters(stream, 0) = {}
         /\ Ends # {} => FirstOf(Ends) = FirstOf(Delimiters(stream, 0)) + 3
<1> DEFINE D == Delimiters(stream, 0)
<1>1. D \in SUBSET Nat /\ Ends = {k + 3 : k \in D}
  <2>1. Len(stream) \in Nat
    OBVIOUS
  <2> QED
    BY <2>1 DEF Delimiters, Ends
<1> HIDE DEF D
<1>2. ASSUME D # {} PROVE FirstOf(Ends) = FirstOf(D) + 3
  <2>1. PICK k \in D : \A j \in D : k <= j
    BY <1>1, <1>2, MinExists
  <2>2. FirstOf(D) = k
    <3>1. \A i \in D : (\A j \in D : i <= j) => i = k
      BY <1>1, <2>1
    <3> QED
      BY <2>1, <3>1 DEF FirstOf
  <2>3. k + 3 \in Ends /\ \A j \in Ends : k + 3 <= j
    BY <1>1, <2>1
  <2>4. FirstOf(Ends) = k + 3
    <3>0. \A i \in Ends : i \in Nat
      BY <1>1
    <3>1. ASSUME NEW i \in Ends, \A j \in Ends : i <= j PROVE i = k + 3
      <4>1. i <= k + 3 /\ k + 3 <= i
        BY <2>3, <3>1
      <4>2. i \in Nat /\ k \in Nat
        BY <1>1, <3>0
      <4> QED
        BY <4>1, <4>2
    <3> QED
      BY <2>3, <3>1 DEF FirstOf
  <2> QED
    BY <2>2, <2>4
<1> QED
  BY <1>1, <1>2 DEF D

\* What is common to the reads of the HTTP handler.
LEMMA HttpReads ==
  ASSUME SessionInv, Http, pc = "headers", NEW chunk \in Chunks(Available(ReadSize))
  PROVE  /\ RecordOK(record_bytes(session, chunk), stream \o chunk, 0)
         /\ record_bytes(session, chunk).events = <<>>
         /\ stream \o chunk \in Seq(config.bytes) /\ reason # "byte_limit"
         /\ headers \o chunk = stream \o chunk
         /\ Len(stream \o chunk) <= MAX_HEADER_BYTES
         /\ Delimiters(headers \o chunk, scan_from(headers)) = Delimiters(stream \o chunk, 0)
<1>0. /\ RecordInv /\ TelnetInv /\ stream \in Seq(config.bytes) /\ Len(stream) \in Nat
      /\ headers = stream /\ Len(stream) < MAX_HEADER_BYTES /\ Delimiters(stream, 0) = {}
      /\ MAX_HEADER_BYTES \in Nat /\ BufferSize \in Nat \ {0}
  BY HttpAssumption, IoAssumption DEF SessionInv, HttpInv, RecordInv
<1>1. ReadSize \in Nat /\ ReadSize <= MAX_HEADER_BYTES - Len(stream)
  BY <1>0 DEF ReadSize, Least
<1>2. MostEvents = 0
  BY DEF MostEvents, Closed, Raw, Ssh, Http, Telnet
<1>3. /\ RecordOK(record_bytes(session, chunk), stream \o chunk, 0)
      /\ record_bytes(session, chunk).events = session.events
      /\ stream \o chunk \in Seq(config.bytes) /\ reason # "byte_limit"
  BY <1>0, <1>1, <1>2, ReadKeeps
<1>4. session.events = <<>>
  <2>1. session.events \in Seq(Range(session.events)) /\ Len(session.events) <= 0
    BY <1>0, <1>2 DEF RecordInv, RecordOK
  <2> QED
    BY <2>1, EmptySeq
<1>5. chunk \in Seq(config.bytes) /\ Len(chunk) <= MAX_HEADER_BYTES - Len(stream)
      /\ Len(chunk) \in Nat
  <2>1. Available(ReadSize) \in Nat /\ Available(ReadSize) <= ReadSize
    BY <1>0, <1>1, AvailableOf
  <2>2. chunk \in Seq(config.bytes) /\ Len(chunk) \in 1..Available(ReadSize)
    BY <2>1, ChunkOf
  <2> QED
    BY <1>0, <1>1, <2>1, <2>2
<1>6. Len(stream \o chunk) = Len(stream) + Len(chunk)
  BY <1>0, <1>5
<1> QED
  BY <1>0, <1>3, <1>4, <1>5, <1>6, ScanNew

\* What push_event makes of a request is a request still.
LEMMA RequestKind ==
  ASSUME NEW r, NEW read
  PROVE  redact(Event(r, read)).kind = "http_request"
<1> DEFINE event == Event(r, read)
<1>1. event.kind = "http_request"
  BY DEF Event, HttpRequest
<1>2. \A path : HttpRedacted(event, path).kind = "http_request"
  BY DEF HttpRedacted, Event, HttpRequest
<1> HIDE DEF event
<1>3. redact(event).kind = "http_request"
  BY <1>1, <1>2 DEF redact
<1> QED
  BY <1>3 DEF event

\* A notice is no request.
LEMMA NoticeShown ==
  ASSUME NEW s, NEW msg, s.events = <<>>, session'.events = Append(s.events, Notice(msg))
  PROVE  RequestShown'
<1>0. session'.events = Append(<<>>, Notice(msg))
  BY Zenon
<1>1. DOMAIN session'.events = {1} /\ session'.events[1] = Notice(msg)
  BY <1>0
<1> QED
  BY <1>1 DEF RequestShown, Notice

\* What is shown of a request stays as long as the record does.
LEMMA ShownStays ==
  ASSUME RequestShown, UNCHANGED <<config, request>>, session'.events = session.events
  PROVE  RequestShown'
BY DEF RequestShown, redact, HttpRedacted, LoginRedacted

\* A read that does not end the headers.
LEMMA ReadMoreKeeps ==
  ASSUME SessionInv, ReadMore
  PROVE  RecordInv' /\ HttpInv'
<1>0. /\ Http /\ pc = "headers" /\ config' = config /\ RecordInv /\ TelnetInv
      /\ request = NoRequest /\ status = 0 /\ UNCHANGED request
      /\ MAX_HEADER_BYTES \in Nat
  BY HttpAssumption DEF ReadMore, SessionInv, HttpInv
<1>1. PICK chunk \in Chunks(Available(ReadSize)) :
        LET s == record_bytes(session, chunk) IN
        /\ stream' = stream \o chunk
        /\ headers' = headers \o chunk
        /\ Delimiters(headers', scan_from(headers)) = {}
        /\ IF Len(headers') = MAX_HEADER_BYTES
           THEN Respond(431, notice(s, "http_headers_too_large"))
           ELSE Goto("headers", s) /\ UNCHANGED status
  BY DEF ReadMore
<1> DEFINE s == record_bytes(session, chunk)
<1>2. /\ RecordOK(s, stream', 0) /\ s.events = <<>>
      /\ stream' \in Seq(config.bytes) /\ reason # "byte_limit"
      /\ headers' = stream' /\ Len(stream') <= MAX_HEADER_BYTES /\ Len(stream') \in Nat
      /\ Delimiters(stream', 0) = {}
  <2> DEFINE t == stream \o chunk
             u == headers \o chunk
  <2>1. /\ RecordOK(s, t, 0) /\ s.events = <<>>
        /\ t \in Seq(config.bytes) /\ reason # "byte_limit"
        /\ u = t /\ Len(t) <= MAX_HEADER_BYTES
        /\ Delimiters(u, scan_from(headers)) = Delimiters(t, 0)
    BY <1>0, HttpReads
  <2>2. stream' = t /\ headers' = u /\ Delimiters(headers', scan_from(headers)) = {}
    BY <1>1
  <2> HIDE DEF s, t, u
  <2>3. Len(t) \in Nat
    BY <2>1
  <2> QED
    BY <2>1, <2>2, <2>3
<1> HIDE DEF s
<1>3. /\ pc' = "headers" => MostEvents' = 0
      /\ pc' = "respond" => MostEvents' = 1
  BY <1>0 DEF MostEvents, Closed, Raw, Ssh, Http, Telnet
<1>4. CASE Len(headers') = MAX_HEADER_BYTES
  <2>1. Respond(431, notice(s, "http_headers_too_large"))
    BY <1>1, <1>4 DEF s
  <2>2. Private(redact(Notice("http_headers_too_large")))
    BY NoticePrivate
  <2>3. /\ RecordOK(notice(s, "http_headers_too_large"), stream', 1)
        /\ notice(s, "http_headers_too_large").events
             = Append(s.events, Notice("http_headers_too_large"))
    <3>1. 0 \in 0..MAX_ATTEMPTS /\ 0 + 1 = 1
      BY TelnetAssumption
    <3>2. /\ RecordOK(notice(s, "http_headers_too_large"), stream', 0 + 1)
          /\ notice(s, "http_headers_too_large").events
               = Append(s.events, redact(Notice("http_headers_too_large")))
      BY <1>2, <2>2, <3>1, PushedRecord DEF notice
    <3> QED
      BY <3>1, <3>2, NoticePrivate
  <2>4. pc' = "respond" /\ status' = 431 /\ reason' = reason
        /\ session' = notice(s, "http_headers_too_large")
    BY <2>1 DEF Respond, Goto
  <2>5. RecordInv'
    BY <1>0, <1>2, <1>3, <2>3, <2>4, StepKeeps
  <2>6. RequestShown'
    BY <1>2, <2>3, <2>4, NoticeShown
  <2>7. HttpInv'
    BY <1>0, <1>2, <1>4, <2>4, <2>6 DEF HttpInv
  <2> QED
    BY <2>5, <2>7
<1>5. CASE Len(headers') # MAX_HEADER_BYTES
  <2>1. pc' = "headers" /\ session' = s /\ reason' = reason /\ status' = status
    BY <1>1, <1>5 DEF Goto, s
  <2>2. RecordInv'
    BY <1>0, <1>2, <1>3, <2>1, StepKeeps
  <2>3. Len(stream') < MAX_HEADER_BYTES
    BY <1>0, <1>2, <1>5
  <2>4. RequestShown'
    BY <1>2, <2>1 DEF RequestShown
  <2>5. HttpInv'
    BY <1>0, <1>2, <2>1, <2>3, <2>4 DEF HttpInv
  <2> QED
    BY <2>2, <2>5
<1> QED
  BY <1>4, <1>5

\* A read that ends the headers.
LEMMA ReadRequestKeeps ==
  ASSUME SessionInv, ReadRequest
  PROVE  RecordInv' /\ HttpInv'
<1>0. /\ Http /\ pc = "headers" /\ config' = config /\ RecordInv /\ TelnetInv
      /\ MAX_HEADER_BYTES \in Nat
  BY HttpAssumption DEF ReadRequest, SessionInv
<1>1. PICK chunk \in Chunks(Available(ReadSize)), r \in Requests :
        LET s == record_bytes(session, chunk)
            read == parse_request(r)
            ends == Delimiters(headers \o chunk, scan_from(headers))
        IN
        /\ stream' = stream \o chunk
        /\ headers' = headers \o chunk
        /\ ends # {}
        /\ header_end' = FirstOf(ends) + 3
        /\ request' = r
        /\ IF read.error = "none" THEN Respond(1, push_event(s, Event(r, read)))
           ELSE Respond(400, notice(s, read.error))
  BY DEF ReadRequest
<1> DEFINE s == record_bytes(session, chunk)
           read == parse_request(r)
<1>2. /\ RecordOK(s, stream', 0) /\ s.events = <<>>
      /\ stream' \in Seq(config.bytes) /\ reason # "byte_limit"
      /\ headers' = stream' /\ Len(stream') <= MAX_HEADER_BYTES /\ Len(stream') \in Nat
      /\ Delimiters(stream', 0) # {} /\ header_end' = FirstOf(Delimiters(stream', 0)) + 3
  <2> DEFINE t == stream \o chunk
             u == headers \o chunk
             ends == Delimiters(u, scan_from(headers))
  <2>1. /\ RecordOK(s, t, 0) /\ s.events = <<>>
        /\ t \in Seq(config.bytes) /\ reason # "byte_limit"
        /\ u = t /\ Len(t) <= MAX_HEADER_BYTES /\ ends = Delimiters(t, 0)
    BY <1>0, HttpReads
  <2>2. stream' = t /\ headers' = u /\ ends # {} /\ header_end' = FirstOf(ends) + 3
    BY <1>1
  <2> HIDE DEF s, t, u, ends
  <2>3. Len(t) \in Nat
    BY <2>1
  <2> QED
    BY <2>1, <2>2, <2>3
<1>3. IF read.error = "none" THEN Respond(1, push_event(s, Event(r, read)))
      ELSE Respond(400, notice(s, read.error))
  BY <1>1
<1>4. request' = r /\ read = parse_request(request')
  BY <1>1
<1> HIDE DEF s, read
<1>5. pc' = "respond" => MostEvents' = 1
  BY <1>0 DEF MostEvents, Closed, Raw, Ssh, Http, Telnet
<1>6. 0 \in 0..MAX_ATTEMPTS /\ 0 + 1 = 1 /\ 1 \in Nat
  BY TelnetAssumption
<1>7. CASE read.error = "none"
  <2>0. r # NoRequest
    BY HttpAssumption DEF NoRequest, LineKinds
  <2> DEFINE event == Event(r, read)
  <2>1. pc' = "respond" /\ status' = 1 /\ reason' = reason /\ session' = push_event(s, event)
    BY <1>3, <1>7 DEF Respond, Goto
  <2>2. Private(redact(event)) /\ redact(event).kind = "http_request"
    BY <1>0, RequestKind DEF Private
  <2> HIDE DEF event
  <2>3. RecordOK(session', stream', 1) /\ session'.events = Append(<<>>, redact(event))
    BY <1>2, <1>6, <2>1, <2>2, PushedRecord
  <2>4. RequestRecorded'
    <3>1. 1 \in DOMAIN session'.events /\ session'.events[1] = redact(event)
      BY <2>3
    <3> QED
      BY <2>2, <3>1 DEF RequestRecorded
  <2>5. RecordInv'
    BY <1>0, <1>2, <1>5, <1>6, <2>1, <2>3, StepKeeps
  <2>6. RequestShown'
    <3>1. DOMAIN session'.events = {1} /\ session'.events[1] = redact(Event(request', parse_request(request')))
      BY <1>4, <2>3 DEF event
    <3>2. request' # NoRequest
      BY <1>4, <2>0
    <3> QED
      BY <1>0, <3>1, <3>2 DEF RequestShown, redact, HttpRedacted, LoginRedacted
  <2>7. HttpInv'
    BY <1>2, <1>4, <1>7, <2>1, <2>4, <2>6 DEF HttpInv
  <2> QED
    BY <2>5, <2>7
<1>8. CASE read.error # "none"
  <2> DEFINE event == Notice(read.error)
  <2>1. pc' = "respond" /\ status' = 400 /\ reason' = reason /\ session' = push_event(s, event)
    BY <1>3, <1>8 DEF Respond, Goto, notice
  <2>2. Private(redact(event)) /\ redact(event) = event
    BY NoticePrivate
  <2>3. event.kind = "notice"
    BY DEF Notice
  <2> HIDE DEF event
  <2>4. RecordOK(session', stream', 1) /\ session'.events = Append(<<>>, event)
    BY <1>2, <1>6, <2>1, <2>2, PushedRecord
  <2>5. ~RequestRecorded' /\ RequestShown'
    <3>1. DOMAIN session'.events = {1} /\ session'.events[1] = event
      BY <2>4
    <3> QED
      BY <2>3, <3>1 DEF RequestRecorded, RequestShown
  <2>6. RecordInv'
    BY <1>0, <1>2, <1>5, <1>6, <2>1, <2>4, StepKeeps
  <2>7. HttpInv'
    BY <1>2, <1>4, <1>8, <2>1, <2>5 DEF HttpInv
  <2> QED
    BY <2>6, <2>7
<1> QED
  BY <1>7, <1>8

\* The HTTP handler.
LEMMA HttpKeeps ==
  ASSUME SessionInv, HttpStep, UNCHANGED <<telnetVars, sshVars>>
  PROVE  SessionInv'
<1>0. /\ Http /\ ~Closed /\ ~Telnet /\ ~Ssh /\ ~Raw /\ config' = config
      /\ RecordInv /\ TelnetInv /\ HttpInv
      /\ MAX_HEADER_BYTES \in Nat /\ BufferSize \in Nat \ {0}
  BY HttpAssumption, IoAssumption DEF HttpStep, ReadMore, ReadRequest, HeadersEnd, WriteResponse,
     Raw, Telnet, Http, Ssh, Closed, SessionInv
<1>1. /\ RecordOK(session, stream, MAX_ATTEMPTS + 1)
      /\ pc = "headers" => RecordOK(session, stream, 0)
      /\ 0 \in 0..MAX_ATTEMPTS /\ 0 + 1 = 1 /\ 1 \in Nat /\ 1 <= MAX_ATTEMPTS + 1
      /\ MAX_ATTEMPTS + 1 \in Nat
  <2>1. /\ MostEvents \in Nat /\ MostEvents <= MAX_ATTEMPTS + 1 /\ MAX_ATTEMPTS \in Nat \ {0}
        /\ pc = "headers" => MostEvents = 0
    BY <1>0, TelnetAssumption DEF MostEvents
  <2>2. RecordOK(session, stream, MostEvents)
    BY <1>0 DEF RecordInv
  <2> QED
    BY <2>1, <2>2, MoreRoom
<1>2. ASSUME pc' = "closed", UNCHANGED <<stream, httpVars>>,
             request # NoRequest => session' = session, RequestShown'
      PROVE  HttpInv'
  BY <1>0, <1>2 DEF HttpInv, httpVars, Http, RequestRecorded
<1>3. RecordInv' /\ HttpInv'
  <2>1. CASE ReadMore
    BY <2>1, ReadMoreKeeps
  <2>2. CASE ReadRequest
    BY <2>2, ReadRequestKeeps
  <2>3. CASE HeadersEnd
    <3>1. PICK why \in ReadFailures(ReadSize) :
            Leave(why, IF why = "client_closed" /\ headers # <<>>
                       THEN notice(session, "http_incomplete_headers") ELSE session)
      BY <2>3 DEF HeadersEnd
    <3>2. UNCHANGED <<config, stream, httpVars>> /\ pc = "headers" /\ request = NoRequest
      BY <1>0, <2>3 DEF HeadersEnd, HttpInv
    <3>3. ReadSize \in Nat \ {0}
      <4>1. Len(headers) \in Nat /\ Len(headers) < MAX_HEADER_BYTES
        BY <1>0, <3>2 DEF HttpInv, RecordInv
      <4> QED
        BY <1>0, <4>1 DEF ReadSize, Least
    <3>4. why = "byte_limit" => Len(stream) = config.input_limit
      BY <1>0, <3>1, <3>3, ReadFails
    <3> DEFINE s == notice(session, "http_incomplete_headers")
    <3>5. /\ RecordOK(s, stream, MAX_ATTEMPTS + 1)
          /\ session.events = <<>>
          /\ s.events = Append(session.events, Notice("http_incomplete_headers"))
      <4>1. /\ Private(redact(Notice("http_incomplete_headers")))
            /\ redact(Notice("http_incomplete_headers")) = Notice("http_incomplete_headers")
        BY NoticePrivate
      <4>2. /\ RecordOK(s, stream, 0 + 1)
            /\ s.events = Append(session.events, Notice("http_incomplete_headers"))
        BY <1>1, <3>2, <4>1, PushedRecord DEF notice
      <4>3. session.events = <<>>
        BY <1>1, <3>2 DEF RecordOK
      <4> HIDE DEF s
      <4> QED
        BY <1>1, <4>2, <4>3, MoreRoom
    <3> HIDE DEF s
    <3>6. RecordInv'
      <4>1. CASE why = "client_closed" /\ headers # <<>>
        <5>1. Leave(why, s)
          BY <3>1, <4>1 DEF s
        <5> QED
          BY <1>0, <3>2, <3>4, <3>5, <5>1, LeaveKeeps
      <4>2. CASE ~(why = "client_closed" /\ headers # <<>>)
        <5>1. Leave(why, session)
          BY <3>1, <4>2
        <5> QED
          BY <1>0, <1>1, <3>2, <3>4, <5>1, LeaveKeeps
      <4> QED
        BY <4>1, <4>2
    <3>7. pc' = "closed" /\ session' \in {s, session}
      BY <3>1 DEF Leave, Close, s
    <3>8. RequestShown'
      <4>1. CASE session' = s
        BY <3>5, <4>1, NoticeShown
      <4>2. CASE session' = session
        BY <3>5, <4>2 DEF RequestShown
      <4> QED
        BY <3>7, <4>1, <4>2
    <3> QED
      BY <1>2, <3>2, <3>6, <3>7, <3>8
  <2>4. CASE WriteResponse
    <3>1. PICK why \in WriteFailures \cup
                         {IF status = 1 THEN "server_closed" ELSE "protocol_error"} :
            Leave(why, session)
      BY <2>4 DEF WriteResponse
    <3>2. why # "byte_limit"
      BY DEF WriteFailures
    <3>3. UNCHANGED <<config, stream, httpVars>>
      BY <2>4 DEF WriteResponse
    <3>4. RecordInv'
      BY <1>0, <1>1, <3>1, <3>2, <3>3, LeaveKeeps
    <3>5. pc' = "closed" /\ session' = session
      BY <3>1 DEF Leave, Close
    <3>6. RequestShown'
      BY <1>0, <3>3, <3>5, ShownStays DEF HttpInv, httpVars
    <3> QED
      BY <1>2, <3>3, <3>4, <3>5, <3>6
  <2> QED
    BY <2>1, <2>2, <2>3, <2>4 DEF HttpStep
<1> QED
  BY <1>0, <1>3, OthersKeep DEF SessionInv

-----------------------------------------------------------------------------
(* The Telnet handler                                                      *)

\* A login is one more event of the record.
LEMMA LoginKeeps ==
  ASSUME NEW s, NEW str, NEW n \in 0..MAX_ATTEMPTS, RecordOK(s, str, n), NEW password
  PROVE  RecordOK(Login(s, password), str, n + 1)
<1>1. Private(redact(TelnetLogin(username, password)))
  BY LoginPrivate
<1> QED
  BY <1>1, PushedRecord DEF Login

\* A notice is one more event of the record.
LEMMA NoticeKeeps ==
  ASSUME NEW s, NEW str, NEW n \in 0..MAX_ATTEMPTS, RecordOK(s, str, n), NEW msg
  PROVE  RecordOK(notice(s, msg), str, n + 1)
<1>1. Private(redact(Notice(msg)))
  BY NoticePrivate
<1> QED
  BY <1>1, PushedRecord DEF notice

\* The events of a Telnet session that goes on, and of any that is over.
LEMMA MostOfTelnet ==
  ASSUME Telnet, config' = config
  PROVE  /\ pc' = "closed" => MostEvents' = MAX_ATTEMPTS + 1
         /\ pc' # "closed" =>
              MostEvents' = IF pc' = "incorrect" THEN attempts' + 1 ELSE attempts'
BY DEF MostEvents, Closed, Raw, Ssh, Http, Telnet

\* The reader's state is kept, or not touched.
LEMMA KeepType ==
  ASSUME TelnetInv, config' = config, NEW r \in ReaderStates, Keep(r)
  PROVE  /\ pending' \in Seq(config.bytes) /\ decoder' \in DecoderStates
         /\ line' \in Seq(Letters) /\ pending_cr' \in BOOLEAN
         /\ r.text \in Seq(Letters)
BY DEF Keep, ReaderStates

\* After a line for the user name.
LEMMA TakeUsernameKeeps ==
  ASSUME TelnetInv, RecordInv, Telnet, pc \in {"prompt", "username"}, config' = config,
         stream' \in Seq(config.bytes),
         reason = "byte_limit" => Len(stream') = config.input_limit,
         NEW r \in ReaderStates, Keep(r), NEW s, RecordOK(s, stream', attempts),
         TakeUsername(r, s)
  PROVE  RecordInv' /\ TelnetInv'
<1>0. /\ attempts \in 0..MAX_ATTEMPTS /\ attempts < MAX_ATTEMPTS /\ attempts \in Nat
      /\ attempts + 1 \in 0..MAX_ATTEMPTS /\ attempts + 1 \in Nat
      /\ MAX_ATTEMPTS \in Nat /\ MAX_ATTEMPTS + 1 \in Nat
      /\ username \in Seq(Letters) /\ Letters' = Letters /\ Telnet'
  BY TelnetAssumption DEF TelnetInv, Letters, Telnet
<1>1. /\ pending' \in Seq(config.bytes) /\ decoder' \in DecoderStates
      /\ line' \in Seq(Letters) /\ pending_cr' \in BOOLEAN
      /\ r.text \in Seq(Letters)
  BY KeepType
<1>2. ASSUME username' \in Seq(Letters), attempts' \in 0..MAX_ATTEMPTS, pc' \in TelnetPlaces,
             pc' \notin {"farewell", "closed"} => attempts' < MAX_ATTEMPTS
      PROVE  TelnetInv'
  BY <1>0, <1>1, <1>2 DEF TelnetInv
<1>3. CASE r.result = "more" /\ Goto("username", s) /\ UNCHANGED <<username, attempts>>
  <2>1. pc' = "username" /\ session' = s /\ reason' = reason
    BY <1>3 DEF Goto
  <2>2. MostEvents' = attempts
    BY <1>3, <2>1, MostOfTelnet
  <2>3. RecordInv'
    BY <1>0, <2>1, <2>2, StepKeeps
  <2>4. TelnetInv'
    BY <1>0, <1>2, <1>3, <2>1 DEF TelnetPlaces
  <2> QED
    BY <2>3, <2>4
<1>4. CASE /\ Leave("protocol_error", notice(s, "telnet_line_too_long"))
           /\ UNCHANGED <<username, attempts>>
  <2>1. /\ pc' = "closed" /\ session' = notice(s, "telnet_line_too_long")
        /\ reason' = "protocol_error"
    BY <1>4 DEF Leave, Close
  <2>2. MostEvents' = MAX_ATTEMPTS + 1
    BY <2>1, MostOfTelnet
  <2>3. RecordOK(session', stream', attempts + 1)
    BY <1>0, <2>1, NoticeKeeps
  <2>4. RecordInv'
    BY <1>0, <2>1, <2>2, <2>3, StepKeeps
  <2>5. TelnetInv'
    BY <1>0, <1>2, <1>4, <2>1 DEF TelnetPlaces
  <2> QED
    BY <2>4, <2>5
<1>5. CASE EndRound(s) /\ UNCHANGED username
  <2>1. /\ pc' = (IF attempts' < MAX_ATTEMPTS THEN "prompt" ELSE "farewell")
        /\ session' = s /\ reason' = reason /\ attempts' = attempts + 1
    BY <1>5 DEF EndRound, Goto
  <2>2. pc' # "closed" /\ pc' # "incorrect"
    BY <2>1
  <2>3. MostEvents' = attempts + 1
    BY <2>1, <2>2, MostOfTelnet
  <2>4. RecordInv'
    BY <1>0, <2>1, <2>3, StepKeeps
  <2>5. pc' \notin {"farewell", "closed"} => attempts' < MAX_ATTEMPTS
    BY <2>1
  <2>6. pc' \in TelnetPlaces
    BY <2>1 DEF TelnetPlaces
  <2>7. TelnetInv'
    BY <1>0, <1>2, <1>5, <2>1, <2>5, <2>6
  <2> QED
    BY <2>4, <2>7
<1>6. CASE username' = r.text /\ Goto("ask_password", s) /\ UNCHANGED attempts
  <2>1. pc' = "ask_password" /\ session' = s /\ reason' = reason
    BY <1>6 DEF Goto
  <2>2. MostEvents' = attempts
    BY <1>6, <2>1, MostOfTelnet
  <2>3. RecordInv'
    BY <1>0, <2>1, <2>2, StepKeeps
  <2>4. TelnetInv'
    BY <1>0, <1>1, <1>2, <1>6, <2>1 DEF TelnetPlaces
  <2> QED
    BY <2>3, <2>4
<1> QED
  BY <1>3, <1>4, <1>5, <1>6 DEF TakeUsername

\* After a line for the password.
LEMMA TakePasswordKeeps ==
  ASSUME TelnetInv, RecordInv, Telnet, pc \in {"ask_password", "password"}, config' = config,
         stream' \in Seq(config.bytes),
         reason = "byte_limit" => Len(stream') = config.input_limit,
         NEW r \in ReaderStates, Keep(r), NEW s, RecordOK(s, stream', attempts),
         TakePassword(r, s)
  PROVE  RecordInv' /\ TelnetInv'
<1>0. /\ attempts \in 0..MAX_ATTEMPTS /\ attempts < MAX_ATTEMPTS /\ attempts \in Nat
      /\ attempts + 1 \in 0..MAX_ATTEMPTS /\ attempts + 1 \in Nat
      /\ attempts + 1 + 1 \in Nat /\ attempts + 1 + 1 <= MAX_ATTEMPTS + 1
      /\ MAX_ATTEMPTS \in Nat /\ MAX_ATTEMPTS + 1 \in Nat
      /\ username \in Seq(Letters) /\ Letters' = Letters /\ Telnet'
      /\ username' = username /\ attempts' = attempts /\ config \in Configs
  BY TelnetAssumption DEF TelnetInv, Letters, Telnet, TakePassword, RecordInv
<1>1. /\ pending' \in Seq(config.bytes) /\ decoder' \in DecoderStates
      /\ line' \in Seq(Letters) /\ pending_cr' \in BOOLEAN
      /\ r.text \in Seq(Letters)
  BY KeepType
<1>2. ASSUME pc' \in TelnetPlaces
      PROVE  TelnetInv'
  BY <1>0, <1>1, <1>2 DEF TelnetInv
<1>4. CASE Goto("password", s)
  <2>1. pc' = "password" /\ session' = s /\ reason' = reason
    BY <1>4 DEF Goto
  <2>2. MostEvents' = attempts
    BY <1>0, <2>1, MostOfTelnet
  <2>3. RecordInv'
    BY <1>0, <2>1, <2>2, StepKeeps
  <2>4. TelnetInv'
    BY <1>2, <2>1 DEF TelnetPlaces
  <2> QED
    BY <2>3, <2>4
<1>5. CASE Leave("protocol_error", LoginUnanswered(notice(s, "telnet_line_too_long")))
  <2> DEFINE t == notice(s, "telnet_line_too_long")
  <2>1. pc' = "closed" /\ session' = Login(t, Absent) /\ reason' = "protocol_error"
    BY <1>5 DEF Leave, Close, LoginUnanswered
  <2>2. MostEvents' = MAX_ATTEMPTS + 1
    BY <2>1, MostOfTelnet
  <2>3. RecordOK(t, stream', attempts + 1)
    BY <1>0, NoticeKeeps
  <2> HIDE DEF t
  <2>4. RecordOK(session', stream', attempts + 1 + 1)
    BY <1>0, <2>1, <2>3, LoginKeeps
  <2>5. RecordInv'
    BY <1>0, <2>1, <2>2, <2>4, StepKeeps
  <2>6. TelnetInv'
    BY <1>2, <2>1 DEF TelnetPlaces
  <2> QED
    BY <2>5, <2>6
<1>6. CASE Goto("incorrect", Login(s, r.text))
  <2>1. pc' = "incorrect" /\ session' = Login(s, r.text) /\ reason' = reason
    BY <1>6 DEF Goto
  <2>2. MostEvents' = attempts + 1
    BY <1>0, <2>1, MostOfTelnet
  <2>3. RecordOK(session', stream', attempts + 1)
    BY <1>0, <2>1, LoginKeeps
  <2>4. RecordInv'
    BY <1>0, <2>1, <2>2, <2>3, StepKeeps
  <2>5. TelnetInv'
    BY <1>2, <2>1 DEF TelnetPlaces
  <2> QED
    BY <2>4, <2>5
<1> QED
  BY <1>4, <1>5, <1>6 DEF TakePassword

\* A Telnet read or prompt that fails, with at most two events for its end.
LEMMA TelnetLeaves ==
  ASSUME TelnetInv, RecordInv, Telnet, UNCHANGED <<config, stream, telnetVars>>,
         NEW why, NEW s, Leave(why, s),
         why = "byte_limit" => Len(stream) = config.input_limit,
         NEW n \in Nat, n <= MAX_ATTEMPTS + 1, RecordOK(s, stream, n)
  PROVE  RecordInv' /\ TelnetInv'
<1>1. RecordOK(s, stream, MAX_ATTEMPTS + 1) /\ MAX_ATTEMPTS + 1 \in Nat
  BY MoreRoom, TelnetAssumption
<1>2. RecordInv'
  BY <1>1, LeaveKeeps
<1>3. pc' = "closed"
  BY DEF Leave, Close
<1> QED
  BY <1>2, <1>3 DEF TelnetInv, TelnetPlaces, telnetVars, readerVars, Telnet, Letters

\* The Telnet handler.
LEMMA TelnetKeeps ==
  ASSUME SessionInv, TelnetStep, UNCHANGED <<httpVars, sshVars>>
  PROVE  SessionInv'
<1>0. /\ Telnet /\ ~Closed /\ ~Raw /\ ~Http /\ ~Ssh /\ config' = config
      /\ RecordInv /\ TelnetInv /\ config \in Configs
      /\ stream \in Seq(config.bytes) /\ pending \in Seq(config.bytes)
      /\ reason = "byte_limit" => Len(stream) = config.input_limit
      /\ BufferSize \in Nat \ {0}
  BY IoAssumption DEF TelnetStep, WriteBanner, WritePrompt, ReadUsername, AskPassword,
     ReadPassword, ReadLineEnds, WriteIncorrect, WriteFarewell, Raw, Telnet, Http, Ssh, Closed,
     SessionInv, RecordInv, TelnetInv
<1>1. /\ MostEvents = IF pc = "incorrect" THEN attempts + 1 ELSE attempts
      /\ RecordOK(session, stream, MostEvents)
      /\ attempts \in 0..MAX_ATTEMPTS /\ attempts \in Nat /\ MAX_ATTEMPTS \in Nat \ {0}
      /\ attempts + 1 \in Nat /\ attempts + 1 <= MAX_ATTEMPTS + 1
      /\ pc \notin {"farewell", "closed"} => attempts + 1 <= MAX_ATTEMPTS
      /\ pc \notin {"farewell", "closed"} => attempts + 1 \in 0..MAX_ATTEMPTS
      /\ pc # "incorrect" => RecordOK(session, stream, attempts)
      /\ username \in Seq(Letters)
  BY <1>0, TelnetAssumption DEF MostEvents, RecordInv, TelnetInv
<1>3. ASSUME UNCHANGED <<config, stream, telnetVars>>, NEW why \in WriteFailures \cup {"server_closed"},
             Leave(why, session)
      PROVE  RecordInv' /\ TelnetInv'
  <2>1. why # "byte_limit"
    BY DEF WriteFailures
  <2>2. MostEvents \in Nat /\ MostEvents <= MAX_ATTEMPTS + 1
    BY <1>1
  <2> QED
    BY <1>0, <1>1, <1>3, <2>1, <2>2, TelnetLeaves
<1>4. RecordInv' /\ TelnetInv'
  <2>1. CASE WriteBanner
    <3>1. CASE Goto("prompt", session)
      <4>1. /\ pc' = "prompt" /\ session' = session /\ reason' = reason
            /\ UNCHANGED <<config, stream, telnetVars>> /\ attempts' = attempts /\ pc = "banner"
        BY <2>1, <3>1 DEF WriteBanner, Goto, telnetVars
      <4>2. MostEvents' = attempts
        BY <1>0, <4>1, MostOfTelnet
      <4>3. RecordInv'
        BY <1>0, <1>1, <4>1, <4>2, StepKeeps
      <4>4. TelnetInv'
        BY <1>0, <4>1 DEF TelnetInv, TelnetPlaces, telnetVars, readerVars, Telnet, Letters
      <4> QED
        BY <4>3, <4>4
    <3>2. CASE \E why \in WriteFailures : Leave(why, session)
      BY <1>3, <2>1, <3>2 DEF WriteBanner
    <3> QED
      BY <2>1, <3>1, <3>2 DEF WriteBanner
  <2>2. CASE WritePrompt
    <3>0. pc = "prompt" /\ UNCHANGED <<config, stream>>
      BY <2>2 DEF WritePrompt
    <3>1. CASE LET r == Scan(pending) IN Keep(r) /\ TakeUsername(r, session)
      <4> DEFINE r == Scan(pending)
      <4>1. r \in ReaderStates
        BY <1>0, ScanType
      <4>2. Keep(r) /\ TakeUsername(r, session)
        BY <3>1
      <4> HIDE DEF r
      <4> QED
        BY <1>0, <1>1, <3>0, <4>1, <4>2, TakeUsernameKeeps
    <3>2. CASE (\E why \in WriteFailures : Leave(why, session)) /\ UNCHANGED telnetVars
      BY <1>3, <3>0, <3>2
    <3> QED
      BY <2>2, <3>1, <3>2 DEF WritePrompt
  <2>3. CASE ReadUsername
    <3>1. PICK chunk \in Chunks(Available(BufferSize)) :
            LET r == Scan(chunk) IN
            /\ stream' = stream \o chunk
            /\ Keep(r)
            /\ TakeUsername(r, record_bytes(session, chunk))
      BY <2>3 DEF ReadUsername
    <3> DEFINE r == Scan(chunk)
               s == record_bytes(session, chunk)
    <3>2. pc = "username" /\ MostEvents = attempts
      BY <1>1, <2>3 DEF ReadUsername
    <3>3. chunk \in Seq(config.bytes)
      BY <1>0, AvailableOf, ChunkOf
    <3>4. RecordOK(s, stream', attempts) /\ stream' \in Seq(config.bytes)
          /\ reason # "byte_limit"
      BY <1>0, <3>1, <3>2, ReadKeeps
    <3>5. r \in ReaderStates
      BY <1>0, <3>3, ScanType
    <3>6. Keep(r) /\ TakeUsername(r, s)
      BY <3>1
    <3> HIDE DEF r, s
    <3> QED
      BY <1>0, <3>2, <3>4, <3>5, <3>6, TakeUsernameKeeps
  <2>4. CASE AskPassword
    <3>0. pc = "ask_password" /\ UNCHANGED <<config, stream>>
      BY <2>4 DEF AskPassword
    <3>1. CASE LET r == Scan(pending) IN Keep(r) /\ TakePassword(r, session)
      <4> DEFINE r == Scan(pending)
      <4>1. r \in ReaderStates
        BY <1>0, ScanType
      <4>2. Keep(r) /\ TakePassword(r, session)
        BY <3>1
      <4> HIDE DEF r
      <4> QED
        BY <1>0, <1>1, <3>0, <4>1, <4>2, TakePasswordKeeps
    <3>2. CASE /\ \E why \in WriteFailures : Leave(why, LoginUnanswered(session))
               /\ UNCHANGED telnetVars
      <4>1. PICK why \in WriteFailures : Leave(why, Login(session, Absent))
        BY <3>2 DEF LoginUnanswered
      <4>2. RecordOK(Login(session, Absent), stream, attempts + 1)
        BY <1>0, <1>1, <3>0, LoginKeeps
      <4>3. why # "byte_limit"
        BY DEF WriteFailures
      <4> QED
        BY <1>0, <1>1, <3>0, <3>2, <4>1, <4>2, <4>3, TelnetLeaves
    <3> QED
      BY <2>4, <3>1, <3>2 DEF AskPassword
  <2>5. CASE ReadPassword
    <3>1. PICK chunk \in Chunks(Available(BufferSize)) :
            LET r == Scan(chunk) IN
            /\ stream' = stream \o chunk
            /\ Keep(r)
            /\ TakePassword(r, record_bytes(session, chunk))
      BY <2>5 DEF ReadPassword
    <3> DEFINE r == Scan(chunk)
               s == record_bytes(session, chunk)
    <3>2. pc = "password" /\ MostEvents = attempts
      BY <1>1, <2>5 DEF ReadPassword
    <3>3. chunk \in Seq(config.bytes)
      BY <1>0, AvailableOf, ChunkOf
    <3>4. RecordOK(s, stream', attempts) /\ stream' \in Seq(config.bytes)
          /\ reason # "byte_limit"
      BY <1>0, <3>1, <3>2, ReadKeeps
    <3>5. r \in ReaderStates
      BY <1>0, <3>3, ScanType
    <3>6. Keep(r) /\ TakePassword(r, s)
      BY <3>1
    <3> HIDE DEF r, s
    <3> QED
      BY <1>0, <3>2, <3>4, <3>5, <3>6, TakePasswordKeeps
  <2>6. CASE ReadLineEnds
    <3>0. UNCHANGED <<config, stream, telnetVars>> /\ pc \in {"username", "password"}
      BY <2>6 DEF ReadLineEnds
    <3>1. PICK why \in ReadFailures(BufferSize) :
            LET s == IF why = "client_closed" THEN Unfinished(session) ELSE session
            IN  Leave(why, IF pc = "password" THEN LoginUnanswered(s) ELSE s)
      BY <2>6 DEF ReadLineEnds
    <3> DEFINE s == IF why = "client_closed" THEN Unfinished(session) ELSE session
               t == IF pc = "password" THEN Login(s, Absent) ELSE s
    <3>2. Leave(why, t)
      BY <3>1 DEF LoginUnanswered
    <3>3. why = "byte_limit" => Len(stream) = config.input_limit
      BY <1>0, <3>1, ReadFails
    <3>4. RecordOK(session, stream, attempts) /\ attempts + 1 \in 0..MAX_ATTEMPTS
      BY <1>1, <3>0
    <3>5. RecordOK(s, stream, attempts + 1)
      <4>1. RecordOK(session, stream, attempts + 1)
        BY <1>1, <3>4, MoreRoom
      <4>2. RecordOK(notice(session, "telnet_incomplete_line"), stream, attempts + 1)
        BY <1>1, <3>4, NoticeKeeps
      <4> QED
        BY <4>1, <4>2 DEF Unfinished
    <3> HIDE DEF s
    <3>6. RecordOK(t, stream, attempts + 1 + 1)
      <4>1. RecordOK(Login(s, Absent), stream, attempts + 1 + 1)
        BY <1>0, <1>1, <3>4, <3>5, LoginKeeps
      <4>2. RecordOK(s, stream, attempts + 1 + 1)
        BY <1>1, <3>5, MoreRoom
      <4> QED
        BY <4>1, <4>2
    <3> HIDE DEF t
    <3>7. attempts + 1 + 1 \in Nat /\ attempts + 1 + 1 <= MAX_ATTEMPTS + 1
      BY <1>1, <3>4
    <3> QED
      BY <1>0, <3>0, <3>2, <3>3, <3>6, <3>7, TelnetLeaves
  <2>7. CASE WriteIncorrect
    <3>0. /\ UNCHANGED <<config, stream, readerVars, username>> /\ pc = "incorrect"
          /\ RecordOK(session, stream, attempts + 1)
      BY <1>1, <2>7 DEF WriteIncorrect
    <3>1. CASE EndRound(session)
      <4>1. /\ pc' = (IF attempts' < MAX_ATTEMPTS THEN "prompt" ELSE "farewell")
            /\ session' = session /\ reason' = reason /\ attempts' = attempts + 1
        BY <3>1 DEF EndRound, Goto
      <4>2. pc' # "closed" /\ pc' # "incorrect"
        BY <4>1
      <4>3. MostEvents' = attempts + 1
        BY <1>0, <4>1, <4>2, MostOfTelnet
      <4>4. RecordInv'
        BY <1>0, <1>1, <3>0, <4>1, <4>3, StepKeeps
      <4>5. attempts' \in 0..MAX_ATTEMPTS /\ pc' \in TelnetPlaces
            /\ (pc' \notin {"farewell", "closed"} => attempts' < MAX_ATTEMPTS)
        BY <1>1, <3>0, <4>1 DEF TelnetPlaces
      <4>6. TelnetInv'
        BY <1>0, <3>0, <4>5 DEF TelnetInv, readerVars, Telnet, Letters
      <4> QED
        BY <4>4, <4>6
    <3>2. CASE (\E why \in WriteFailures : Leave(why, session)) /\ UNCHANGED attempts
      BY <1>3, <3>0, <3>2 DEF telnetVars
    <3> QED
      BY <2>7, <3>1, <3>2 DEF WriteIncorrect
  <2>8. CASE WriteFarewell
    BY <1>3, <2>8 DEF WriteFarewell
  <2> QED
    BY <2>1, <2>2, <2>3, <2>4, <2>5, <2>6, <2>7, <2>8 DEF TelnetStep
<1> QED
  BY <1>0, <1>4, OthersKeep DEF SessionInv

-----------------------------------------------------------------------------
(* Beginning, cancellation and the whole session                           *)

\* A session begins with an empty record, and its handler with nothing read.
LEMMA InitSession ==
  ASSUME Init
  PROVE  SessionInv
<1>0. /\ config \in Configs /\ stream = <<>> /\ reason = "none" /\ attempts = 0
      /\ session = [bytes_received |-> 0, preview |-> <<>>,
                    events |-> <<>>, events_truncated |-> FALSE]
      /\ pc = FirstPlace /\ ~identified /\ identification = <<>>
      /\ headers = <<>> /\ request = NoRequest /\ status = 0
      /\ config.protocol \in {"raw", "ssh", "http", "telnet"}
      /\ config.input_limit \in Nat /\ config.preview_limit \in Nat
      /\ MAX_ATTEMPTS \in Nat \ {0}
  BY SettingsOK, TelnetAssumption DEF Init, InitIo, InitTelnet, InitSsh, InitHttp
<1>1. /\ pc \notin {"closed", "farewell", "incorrect"}
      /\ Http => pc = "headers"
      /\ Ssh => pc = "banner"
      /\ Telnet => pc \in {"banner", "prompt"}
  BY <1>0 DEF FirstPlace, Http, Ssh, Telnet
<1>2. MostEvents = 0
  BY <1>0, <1>1 DEF MostEvents, Closed, Raw, Ssh, Http, Telnet
<1>3. RecordOK(session, stream, 0)
  <2>1. Least(config.preview_limit, 0) = 0 /\ Len(<<>>) = 0
    BY <1>0 DEF Least
  <2>2. SubSeq(<<>>, 1, Least(config.preview_limit, Len(<<>>))) = <<>>
    BY <2>1
  <2>3. Numbers(session, <<>>)
    BY <1>0, <2>1, <2>2 DEF Numbers
  <2>4. session.events = <<>> /\ <<>> \in Seq(Range(<<>>)) /\ DOMAIN <<>> = {}
    BY <1>0
  <2> QED
    BY <1>0, <2>1, <2>3, <2>4 DEF RecordOK
<1>4. RecordInv
  BY <1>0, <1>2, <1>3 DEF RecordInv
<1>5. TelnetInv
  <2>1. /\ pending = <<>> /\ decoder = "Data" /\ line = <<>> /\ pending_cr = FALSE
        /\ username = <<>>
    BY DEF Init, InitTelnet, Nothing
  <2>2. Telnet => pc \in TelnetPlaces
    BY <1>1 DEF TelnetPlaces
  <2>3. <<>> \in Seq(Letters) /\ <<>> \in Seq(config.bytes) /\ "Data" \in DecoderStates
    BY DEF DecoderStates
  <2>4. attempts \in 0..MAX_ATTEMPTS /\ attempts < MAX_ATTEMPTS
    BY <1>0
  <2> QED
    BY <2>1, <2>2, <2>3, <2>4 DEF TelnetInv
<1>6. HttpInv
  <2>1. Delimiters(<<>>, 0) = {}
    BY DEF Delimiters
  <2>2. Len(stream) < MAX_HEADER_BYTES /\ Len(stream) <= MAX_HEADER_BYTES
    BY <1>0, HttpAssumption
  <2>3. Delimiters(stream, 0) = {} /\ headers = stream
    BY <1>0, <2>1
  <2>4. status # 431 /\ status = 0
    BY <1>0
  <2>5. Http => pc \in {"headers", "respond", "closed"}
    BY <1>1
  <2>6. RequestShown
    BY <1>0 DEF RequestShown
  <2> QED
    BY <1>0, <2>2, <2>3, <2>4, <2>5, <2>6 DEF HttpInv
<1>7. SshInv
  <2>1. <<>> \in Seq({}) /\ Len(<<>>) = 0 /\ \A i \in 1..Len(<<>>) : <<>>[i] # "LF"
    OBVIOUS
  <2>2. EndIn(<<>>) = 0
    BY <2>1, EndInIs, Zenon
  <2>3. LineEnd = 0
    BY <1>0, <2>2 DEF LineEnd, EndIn
  <2> QED
    BY <1>0, <1>1, <2>1, <2>3, SshAssumption DEF SshInv, Closed
<1> QED
  BY <1>4, <1>5, <1>6, <1>7 DEF SessionInv

\* A handler that is dropped leaves its record as it is.
LEMMA CancelKeeps ==
  ASSUME SessionInv, Cancel, UNCHANGED <<telnetVars, httpVars, sshVars>>
  PROVE  SessionInv'
<1>0. /\ ~Closed /\ pc' = "closed" /\ reason' \in {"shutdown", "lifetime_limit"}
      /\ UNCHANGED <<config, stream, session>>
      /\ RecordInv /\ TelnetInv /\ HttpInv /\ SshInv
  BY DEF Cancel, Close, SessionInv
<1>1. RecordInv'
  <2>1. RecordOK(session, stream, MAX_ATTEMPTS + 1) /\ MAX_ATTEMPTS + 1 \in Nat
    <3>1. RecordOK(session, stream, MostEvents)
      BY <1>0 DEF RecordInv
    <3>2. /\ MostEvents \in Nat /\ MostEvents <= MAX_ATTEMPTS + 1
          /\ MAX_ATTEMPTS + 1 \in Nat
      BY <1>0, MostIs
    <3> QED
      BY <3>1, <3>2, MoreRoom
  <2>2. Leave(reason', session)
    BY <1>0 DEF Leave, Close
  <2>3. reason' # "byte_limit"
    BY <1>0
  <2>4. MostEvents' = MAX_ATTEMPTS + 1
    BY <1>0, <2>1 DEF MostEvents, Closed
  <2> QED
    BY <1>0, <2>1, <2>3, <2>4, StepKeeps DEF RecordInv
<1>2. TelnetInv'
  BY <1>0 DEF TelnetInv, TelnetPlaces, telnetVars, readerVars, Telnet, Letters
<1>3. HttpInv'
  <2>1. RequestShown => RequestShown'
    BY <1>0, ShownStays DEF httpVars
  <2> QED
    BY <1>0, <2>1 DEF HttpInv, httpVars, Http, RequestRecorded
<1>4. SshInv'
  <2>1. CASE ~Ssh
    BY <1>0, <2>1 DEF SshInv, Ssh
  <2>2. CASE Ssh /\ identified
    BY <1>0, <2>2 DEF SshInv, Ssh, sshVars, LineEnd, SelectInSeq
  <2>3. CASE Ssh /\ ~identified
    <3>1. /\ session.events = <<>> /\ LineEnd = 0 /\ Len(stream) < MAX_IDENTIFICATION_BYTES
          /\ ~identified'
      BY <1>0, <2>3 DEF SshInv, sshVars
    <3>2. LineEnd' = 0
      BY <1>0, <3>1 DEF LineEnd, SelectInSeq
    <3>3. Len(stream) \in Nat
      BY <1>0 DEF RecordInv
    <3>4. ~(Len(stream') >= MAX_IDENTIFICATION_BYTES)
      BY <1>0, <3>1, <3>3, SshAssumption
    <3>5. LineEnd' \notin 1..MAX_IDENTIFICATION_BYTES /\ reason' # "client_closed"
      BY <1>0, <3>2, SshAssumption
    <3>6. Verdict' = <<>>
      BY <3>4, <3>5, Zenon DEF Verdict
    <3> QED
      BY <1>0, <3>1, <3>6 DEF SshInv, Closed
  <2> QED
    BY <2>1, <2>2, <2>3
<1> QED
  BY <1>1, <1>2, <1>3, <1>4 DEF SessionInv

\* Nothing changes in a step in which no variable does.
LEMMA StutterKeeps ==
  ASSUME SessionInv, UNCHANGED vars
  PROVE  SessionInv'
<1>0. UNCHANGED <<config, stream, session, pc, reason, pending, decoder, line, pending_cr,
                  username, attempts, headers, header_end, request, status,
                  identification, identified>>
  BY DEF vars, ioVars, telnetVars, readerVars, httpVars, sshVars
<1>1. RecordInv'
  <2>1. RecordInv /\ MostEvents \in Nat
    BY MostIs DEF SessionInv
  <2>2. MostEvents' = MostEvents
    BY <1>0 DEF MostEvents, Closed, Raw, Ssh, Http, Telnet
  <2>3. RecordOK(session', stream', MostEvents)
    BY <1>0, <2>1 DEF RecordInv
  <2> QED
    BY <1>0, <2>1, <2>2, <2>3, StepKeeps DEF RecordInv
<1>2. TelnetInv'
  BY <1>0 DEF SessionInv, TelnetInv, Telnet, Letters
<1>3. HttpInv'
  <2>1. RequestShown => RequestShown'
    BY <1>0, ShownStays
  <2> QED
    BY <1>0, <2>1 DEF SessionInv, HttpInv, Http, RequestRecorded
<1>4. SshInv'
  <2>1. LineEnd' = LineEnd
    BY <1>0 DEF LineEnd, SelectInSeq
  <2>2. Verdict' = Verdict
    BY <1>0, <2>1 DEF Verdict
  <2> QED
    BY <1>0, <2>1, <2>2 DEF SessionInv, SshInv, Ssh, Closed
<1> QED
  BY <1>1, <1>2, <1>3, <1>4 DEF SessionInv

\* Every step of a session keeps the invariant.
LEMMA NextKeeps ==
  ASSUME SessionInv, [Next]_vars
  PROVE  SessionInv'
<1>1. CASE TelnetStep /\ UNCHANGED <<httpVars, sshVars>>
  BY <1>1, TelnetKeeps
<1>2. CASE HttpStep /\ UNCHANGED <<telnetVars, sshVars>>
  BY <1>2, HttpKeeps
<1>3. CASE SshStep /\ UNCHANGED <<telnetVars, httpVars>>
  BY <1>3, SshKeeps
<1>4. CASE RawStep /\ UNCHANGED <<telnetVars, httpVars, sshVars>>
  BY <1>4, RawKeeps
<1>5. CASE Cancel /\ UNCHANGED <<telnetVars, httpVars, sshVars>>
  BY <1>5, CancelKeeps
<1>6. CASE UNCHANGED vars
  BY <1>6, StutterKeeps
<1> QED
  BY <1>1, <1>2, <1>3, <1>4, <1>5, <1>6 DEF Next, Over

\* The inductive invariant of a session: the record holds the stream's numbers
\* and only what privacy allows, and what each handler keeps between two
\* reads is what the stream so far leads to.
THEOREM SessionInvariant == Spec => []SessionInv
<1>1. Init => SessionInv
  BY InitSession
<1>2. SessionInv /\ [Next]_vars => SessionInv'
  BY NextKeeps
<1> QED
  BY <1>1, <1>2, PTL DEF Spec

\* A session has no reason to be closed while it is open, and a request only
\* the HTTP handler parses.
OpenInv == (~Closed => reason = "none") /\ (~Http => request = NoRequest)

\* A handler goes on, or gives its reason and returns.
LEMMA Moves ==
  ASSUME TelnetStep \/ HttpStep \/ SshStep \/ RawStep \/ Cancel
  PROVE  config' = config /\ (pc' # "closed" => pc # "closed" /\ reason' = reason)
<1>1. CASE TelnetStep
  BY <1>1 DEF TelnetStep, WriteBanner, WritePrompt, ReadUsername, AskPassword, ReadPassword,
     ReadLineEnds, WriteIncorrect, WriteFarewell, TakeUsername, TakePassword, EndRound, Goto,
     Leave, Close
<1>2. CASE HttpStep
  BY <1>2 DEF HttpStep, ReadMore, ReadRequest, HeadersEnd, WriteResponse, Respond, Goto, Leave,
     Close
<1>3. CASE SshStep
  BY <1>3 DEF SshStep, SshBanner, ReadIdentification, ReadOn, SshReadEnds, TakeIdentification,
     Goto, Leave, Close
<1>4. CASE RawStep
  BY <1>4 DEF RawStep, RawBanner, RawRead, RawReadEnds, Goto, Leave, Close
<1>5. CASE Cancel
  BY <1>5 DEF Cancel, Close
<1> QED
  BY <1>1, <1>2, <1>3, <1>4, <1>5

\* Both hold of every session.
LEMMA OpenInvariant == Spec => []OpenInv
<1>1. Init => OpenInv
  BY DEF Init, InitIo, InitHttp, OpenInv
<1>2. OpenInv /\ [Next]_vars => OpenInv'
  <2> SUFFICES ASSUME OpenInv, [Next]_vars PROVE OpenInv'
    OBVIOUS
  <2>1. CASE UNCHANGED vars
    BY <2>1 DEF OpenInv, Closed, Http, vars, ioVars, httpVars
  <2>2. CASE HttpStep /\ UNCHANGED <<telnetVars, sshVars>>
    <3>1. Http
      BY <2>2 DEF HttpStep, ReadMore, ReadRequest, HeadersEnd, WriteResponse
    <3> QED
      BY <2>2, <3>1, Moves DEF OpenInv, Closed, Http
  <2>3. CASE (TelnetStep \/ SshStep \/ RawStep \/ Cancel) /\ UNCHANGED httpVars
    BY <2>3, Moves DEF OpenInv, Closed, Http, httpVars
  <2> QED
    BY <2>1, <2>2, <2>3 DEF Next, Over
<1> QED
  BY <1>1, <1>2, PTL DEF Spec

-----------------------------------------------------------------------------
(* The properties                                                          *)

\* RecordTruthful, whatever the reads were: the counters, the preview and its
\* truncation flag are those of the bytes read, the byte limit is given as the
\* reason only when it is used up, and no event was dropped.
THEOREM RecordsAreTruthful == Spec => []RecordTruthful
<1>1. SessionInv => RecordTruthful
  <2> SUFFICES ASSUME SessionInv PROVE RecordTruthful
    OBVIOUS
  <2> DEFINE limit == config.preview_limit
  <2>1. /\ RecordOK(session, stream, MostEvents) /\ stream \in Seq(config.bytes)
        /\ reason = "byte_limit" => Len(stream) = config.input_limit
        /\ limit \in Nat
    BY SettingsOK DEF SessionInv, RecordInv
  <2>2. /\ session.bytes_received = Len(stream) /\ Len(stream) <= config.input_limit
        /\ session.preview = IF config.mode = "full"
                             THEN SubSeq(stream, 1, Least(limit, Len(stream))) ELSE <<>>
        /\ ~session.events_truncated
    BY <2>1 DEF RecordOK, Numbers
  <2>3. config.mode = "full" => Len(session.preview) = Least(limit, Len(stream))
    <3>1. Len(stream) \in Nat
      BY <2>1
    <3>2. Least(limit, Len(stream)) \in Nat /\ Least(limit, Len(stream)) <= Len(stream)
      BY <2>1, <3>1 DEF Least
    <3> QED
      BY <2>1, <2>2, <3>2, PrefixOf
  <2>4. bytes_truncated <=> config.mode = "full" /\ limit > 0 /\ Len(stream) > limit
    <3>1. Len(stream) \in Nat
      BY <2>1
    <3> QED
      BY <2>1, <2>2, <2>3, <3>1 DEF bytes_truncated, payload_captured, Least
  <2> QED
    BY <2>1, <2>2, <2>4 DEF RecordTruthful
<1> QED
  BY <1>1, SessionInvariant, PTL

\* SshFaithful: the events of an SSH session are the verdict on the first line
\* of the whole stream, for every way it was cut into reads.
THEOREM SshIsFaithful == Spec => []SshFaithful
<1>1. SessionInv /\ OpenInv => SshFaithful
  <2> SUFFICES ASSUME SessionInv, OpenInv, Ssh PROVE SshFaithful
    BY DEF SshFaithful
  <2>1. SshInv /\ stream \in Seq(config.bytes) /\ Len(stream) \in Nat
    BY DEF SessionInv, RecordInv
  <2>2. CASE identified
    BY <2>1, <2>2 DEF SshInv, Verdict, SshFaithful
  <2>3. CASE ~identified /\ ~Closed
    <3>1. /\ LineEnd = 0 /\ Len(stream) < MAX_IDENTIFICATION_BYTES
          /\ session.events = <<>> /\ reason = "none"
      BY <2>1, <2>3 DEF SshInv, OpenInv
    <3>2. LineEnd \notin 1..MAX_IDENTIFICATION_BYTES
          /\ ~(Len(stream) >= MAX_IDENTIFICATION_BYTES)
      BY <2>1, <3>1, SshAssumption
    <3>3. Verdict = <<>>
      BY <3>1, <3>2, Zenon DEF Verdict
    <3> QED
      BY <3>1, <3>3 DEF SshFaithful
  <2>4. CASE ~identified /\ Closed
    BY <2>1, <2>4 DEF SshInv, SshFaithful
  <2> QED
    BY <2>2, <2>3, <2>4
<1> QED
  BY <1>1, SessionInvariant, OpenInvariant, PTL

\* HttpFraming: the headers end at the first blank line of the whole stream,
\* for every way it was cut into reads, and 431 is the answer only to a full
\* buffer that holds none.
THEOREM HttpIsFramed == Spec => []HttpFraming
<1>1. SessionInv => HttpFraming
  <2> SUFFICES ASSUME SessionInv, Http PROVE HttpFraming
    BY DEF HttpFraming
  <2>1. HttpInv /\ stream \in Seq(config.bytes)
    BY DEF SessionInv, RecordInv
  <2>2. /\ Ends = {} <=> Delimiters(stream, 0) = {}
        /\ Ends # {} => FirstOf(Ends) = FirstOf(Delimiters(stream, 0)) + 3
    BY <2>1, EndsAre
  <2> QED
    BY <2>1, <2>2 DEF HttpInv, HttpFraming
<1> QED
  BY <1>1, SessionInvariant, PTL

-----------------------------------------------------------------------------
(* The strict parser                                                       *)

ParseErrors ==
  {"none", "http_too_many_headers", "http_invalid_header", "http_invalid_host",
   "http_invalid_content_length", "http_invalid_transfer_encoding",
   "http_invalid_request_line", "http_unsupported_version", "http_invalid_target",
   "http_missing_host", "http_ambiguous_framing"}

ParseStates ==
  [error : ParseErrors, count : Nat, host : BOOLEAN, user_agent : BOOLEAN,
   content_length : BOOLEAN, transfer_encoding : BOOLEAN]

BadKinds == {"malformed", "host_bad", "content_length_bad", "transfer_encoding_bad"}

\* The headers that may be given once.
SingleKinds == {"host", "content_length", "transfer_encoding"}

Seen(acc, kind) ==
  \/ kind = "host" /\ acc.host
  \/ kind = "content_length" /\ acc.content_length
  \/ kind = "transfer_encoding" /\ acc.transfer_encoding

TakeNext(acc, kind) == [TakeHeader(acc, kind) EXCEPT !.count = @ + 1]

\* An error is kept, and nothing else changes with it.
LEMMA ErrorIs ==
  ASSUME NEW acc \in ParseStates, NEW message \in ParseErrors \ {"none"}
  PROVE  /\ Error(message, acc) \in ParseStates
         /\ Error(message, acc).error # "none"
         /\ Error(message, acc).count = acc.count
<1>1. (IF acc.error = "none" THEN message ELSE acc.error) \in ParseErrors \ {"none"}
  BY DEF ParseStates
<1> QED
  BY <1>1 DEF Error, ParseStates

\* A header that is taken sets its flag, and nothing else changes with it.
LEMMA FlagIs ==
  ASSUME NEW acc \in ParseStates
  PROVE  /\ LET t == [acc EXCEPT !.host = TRUE] IN
            /\ t \in ParseStates /\ t.error = acc.error /\ t.count = acc.count /\ t.host
            /\ t.user_agent = acc.user_agent /\ t.content_length = acc.content_length
            /\ t.transfer_encoding = acc.transfer_encoding
         /\ LET t == [acc EXCEPT !.content_length = TRUE] IN
            /\ t \in ParseStates /\ t.error = acc.error /\ t.count = acc.count /\ t.host = acc.host
            /\ t.user_agent = acc.user_agent
            /\ t.content_length /\ t.transfer_encoding = acc.transfer_encoding
         /\ LET t == [acc EXCEPT !.transfer_encoding = TRUE] IN
            /\ t \in ParseStates /\ t.error = acc.error /\ t.count = acc.count /\ t.host = acc.host
            /\ t.user_agent = acc.user_agent
            /\ t.content_length = acc.content_length /\ t.transfer_encoding
         /\ LET t == [acc EXCEPT !.user_agent = TRUE] IN
            /\ t \in ParseStates /\ t.error = acc.error /\ t.count = acc.count /\ t.host = acc.host
            /\ t.user_agent /\ t.content_length = acc.content_length
            /\ t.transfer_encoding = acc.transfer_encoding
         /\ LET t == [acc EXCEPT !.count = acc.count + 1] IN
            /\ t \in ParseStates /\ t.error = acc.error /\ t.count = acc.count + 1
            /\ t.host = acc.host /\ t.user_agent = acc.user_agent
            /\ t.content_length = acc.content_length
            /\ t.transfer_encoding = acc.transfer_encoding
<1>0. /\ acc.error \in ParseErrors /\ acc.count \in Nat /\ acc.count + 1 \in Nat
      /\ acc.host \in BOOLEAN /\ acc.user_agent \in BOOLEAN
      /\ acc.content_length \in BOOLEAN /\ acc.transfer_encoding \in BOOLEAN
  BY DEF ParseStates
<1>1. LET t == [acc EXCEPT !.host = TRUE] IN
      /\ t \in ParseStates /\ t.error = acc.error /\ t.count = acc.count
      /\ t.host /\ t.user_agent = acc.user_agent
      /\ t.content_length = acc.content_length /\ t.transfer_encoding = acc.transfer_encoding
  <2> DEFINE made(x) == [error |-> acc.error, count |-> acc.count,
                         host |-> x, user_agent |-> acc.user_agent,
                         content_length |-> acc.content_length,
                         transfer_encoding |-> acc.transfer_encoding]
  <2>1. \A x : [acc EXCEPT !.host = x] = made(x)
    BY DEF ParseStates
  <2>2. [acc EXCEPT !.host = TRUE] = made(TRUE)
    BY <2>1, Zenon
  <2>3. made(TRUE) \in ParseStates
    BY <1>0 DEF ParseStates
  <2> QED
    BY <2>2, <2>3
<1>2. LET t == [acc EXCEPT !.content_length = TRUE] IN
      /\ t \in ParseStates /\ t.error = acc.error /\ t.count = acc.count
      /\ t.host = acc.host /\ t.user_agent = acc.user_agent
      /\ t.content_length /\ t.transfer_encoding = acc.transfer_encoding
  <2> DEFINE made(x) == [error |-> acc.error, count |-> acc.count,
                         host |-> acc.host, user_agent |-> acc.user_agent,
                         content_length |-> x,
                         transfer_encoding |-> acc.transfer_encoding]
  <2>1. \A x : [acc EXCEPT !.content_length = x] = made(x)
    BY DEF ParseStates
  <2>2. [acc EXCEPT !.content_length = TRUE] = made(TRUE)
    BY <2>1, Zenon
  <2>3. made(TRUE) \in ParseStates
    BY <1>0 DEF ParseStates
  <2> QED
    BY <2>2, <2>3
<1>3. LET t == [acc EXCEPT !.transfer_encoding = TRUE] IN
      /\ t \in ParseStates /\ t.error = acc.error /\ t.count = acc.count
      /\ t.host = acc.host /\ t.user_agent = acc.user_agent
      /\ t.content_length = acc.content_length /\ t.transfer_encoding
  <2> DEFINE made(x) == [error |-> acc.error, count |-> acc.count,
                         host |-> acc.host, user_agent |-> acc.user_agent,
                         content_length |-> acc.content_length,
                         transfer_encoding |-> x]
  <2>1. \A x : [acc EXCEPT !.transfer_encoding = x] = made(x)
    BY DEF ParseStates
  <2>2. [acc EXCEPT !.transfer_encoding = TRUE] = made(TRUE)
    BY <2>1, Zenon
  <2>3. made(TRUE) \in ParseStates
    BY <1>0 DEF ParseStates
  <2> QED
    BY <2>2, <2>3
<1>4. LET t == [acc EXCEPT !.user_agent = TRUE] IN
      /\ t \in ParseStates /\ t.error = acc.error /\ t.count = acc.count
      /\ t.host = acc.host /\ t.user_agent
      /\ t.content_length = acc.content_length /\ t.transfer_encoding = acc.transfer_encoding
  <2> DEFINE made(x) == [error |-> acc.error, count |-> acc.count,
                         host |-> acc.host, user_agent |-> x,
                         content_length |-> acc.content_length,
                         transfer_encoding |-> acc.transfer_encoding]
  <2>1. \A x : [acc EXCEPT !.user_agent = x] = made(x)
    BY DEF ParseStates
  <2>2. [acc EXCEPT !.user_agent = TRUE] = made(TRUE)
    BY <2>1, Zenon
  <2>3. made(TRUE) \in ParseStates
    BY <1>0 DEF ParseStates
  <2> QED
    BY <2>2, <2>3
<1>5. [acc EXCEPT !.count = acc.count + 1]
      = [error |-> acc.error, count |-> acc.count + 1, host |-> acc.host,
         user_agent |-> acc.user_agent, content_length |-> acc.content_length,
         transfer_encoding |-> acc.transfer_encoding]
  BY DEF ParseStates
<1> QED
  BY <1>0, <1>1, <1>2, <1>3, <1>4, <1>5 DEF ParseStates

\* What one header does to the parser.
LEMMA TakeHeaderIs ==
  ASSUME NEW acc \in ParseStates, NEW kind \in HeaderKinds
  PROVE  LET t == TakeHeader(acc, kind) IN
         /\ t \in ParseStates /\ t.count = acc.count
         /\ t.error = "none" <=> /\ acc.error = "none" /\ acc.count < MAX_HEADER_COUNT
                                 /\ kind \notin BadKinds /\ ~Seen(acc, kind)
         /\ t.error = "none" =>
              /\ t.host <=> acc.host \/ kind = "host"
              /\ t.user_agent <=> acc.user_agent \/ kind = "user_agent"
              /\ t.content_length <=> acc.content_length \/ kind = "content_length"
              /\ t.transfer_encoding <=> acc.transfer_encoding \/ kind = "transfer_encoding"
<1> DEFINE t == TakeHeader(acc, kind)
<1>0. acc.count \in Nat /\ MAX_HEADER_COUNT \in Nat
  BY HttpAssumption DEF ParseStates
<1>1. CASE acc.count >= MAX_HEADER_COUNT
  <2>1. t = Error("http_too_many_headers", acc)
    BY <1>1 DEF TakeHeader
  <2>2. "http_too_many_headers" \in ParseErrors \ {"none"}
    BY DEF ParseErrors
  <2> HIDE DEF t
  <2>3. t \in ParseStates /\ t.error # "none" /\ t.count = acc.count
    BY <2>1, <2>2, ErrorIs
  <2> QED
    BY <1>0, <1>1, <2>3 DEF t
<1>2. CASE ~(acc.count >= MAX_HEADER_COUNT)
  <2>0. acc.count < MAX_HEADER_COUNT
    BY <1>0, <1>2
  <2>1. CASE kind \in BadKinds \/ Seen(acc, kind)
    <3>1. \E message \in ParseErrors \ {"none"} : t = Error(message, acc)
      BY <1>2, <2>1 DEF TakeHeader, BadKinds, Seen, ParseErrors
    <3> HIDE DEF t
    <3>2. t \in ParseStates /\ t.error # "none" /\ t.count = acc.count
      BY <3>1, ErrorIs
    <3> QED
      BY <2>1, <3>2 DEF t
  <2>2. CASE kind = "host" /\ ~Seen(acc, kind)
    <3>1. t = [acc EXCEPT !.host = TRUE]
      BY <1>2, <2>2 DEF TakeHeader, Seen
    <3> HIDE DEF t
    <3>2. /\ t \in ParseStates /\ t.error = acc.error /\ t.count = acc.count /\ t.host
          /\ t.user_agent = acc.user_agent /\ t.content_length = acc.content_length
          /\ t.transfer_encoding = acc.transfer_encoding
      BY <3>1, FlagIs
    <3> QED
      BY <2>0, <2>2, <3>2 DEF t, BadKinds
  <2>3. CASE kind = "content_length" /\ ~Seen(acc, kind)
    <3>1. t = [acc EXCEPT !.content_length = TRUE]
      BY <1>2, <2>3 DEF TakeHeader, Seen
    <3> HIDE DEF t
    <3>2. /\ t \in ParseStates /\ t.error = acc.error /\ t.count = acc.count
          /\ t.host = acc.host /\ t.user_agent = acc.user_agent /\ t.content_length
          /\ t.transfer_encoding = acc.transfer_encoding
      BY <3>1, FlagIs
    <3> QED
      BY <2>0, <2>3, <3>2 DEF t, BadKinds
  <2>4. CASE kind = "transfer_encoding" /\ ~Seen(acc, kind)
    <3>1. t = [acc EXCEPT !.transfer_encoding = TRUE]
      BY <1>2, <2>4 DEF TakeHeader, Seen
    <3> HIDE DEF t
    <3>2. /\ t \in ParseStates /\ t.error = acc.error /\ t.count = acc.count
          /\ t.host = acc.host /\ t.user_agent = acc.user_agent
          /\ t.content_length = acc.content_length /\ t.transfer_encoding
      BY <3>1, FlagIs
    <3> QED
      BY <2>0, <2>4, <3>2 DEF t, BadKinds
  <2>5. CASE kind = "user_agent"
    <3>1. t = [acc EXCEPT !.user_agent = TRUE]
      BY <1>2, <2>5 DEF TakeHeader
    <3>2. ~Seen(acc, kind) /\ kind \notin BadKinds
      BY <2>5 DEF Seen, BadKinds
    <3> HIDE DEF t
    <3>3. /\ t \in ParseStates /\ t.error = acc.error /\ t.count = acc.count
          /\ t.host = acc.host /\ t.user_agent /\ t.content_length = acc.content_length
          /\ t.transfer_encoding = acc.transfer_encoding
      BY <3>1, FlagIs
    <3> QED
      BY <2>0, <2>5, <3>2, <3>3 DEF t
  <2>6. CASE kind \notin BadKinds \cup SingleKinds \cup {"user_agent"}
    <3>1. t = acc
      BY <1>2, <2>6 DEF TakeHeader, BadKinds, SingleKinds
    <3>2. ~Seen(acc, kind)
      BY <2>6 DEF Seen, SingleKinds
    <3> QED
      BY <2>0, <2>6, <3>1, <3>2 DEF SingleKinds
  <2> QED
    BY <2>1, <2>2, <2>3, <2>4, <2>5, <2>6 DEF SingleKinds
<1> QED
  BY <1>1, <1>2

\* What a header and its count do to the parser.
LEMMA TakeNextIs ==
  ASSUME NEW acc \in ParseStates, NEW kind \in HeaderKinds
  PROVE  LET t == TakeNext(acc, kind) IN
         /\ t \in ParseStates /\ t.count = acc.count + 1
         /\ t.error = "none" <=> /\ acc.error = "none" /\ acc.count < MAX_HEADER_COUNT
                                 /\ kind \notin BadKinds /\ ~Seen(acc, kind)
         /\ t.error = "none" =>
              /\ t.host <=> acc.host \/ kind = "host"
              /\ t.user_agent <=> acc.user_agent \/ kind = "user_agent"
              /\ t.content_length <=> acc.content_length \/ kind = "content_length"
              /\ t.transfer_encoding <=> acc.transfer_encoding \/ kind = "transfer_encoding"
<1> DEFINE u == TakeHeader(acc, kind)
           t == TakeNext(acc, kind)
<1>1. /\ u \in ParseStates /\ u.count = acc.count
      /\ u.error = "none" <=> /\ acc.error = "none" /\ acc.count < MAX_HEADER_COUNT
                              /\ kind \notin BadKinds /\ ~Seen(acc, kind)
      /\ u.error = "none" =>
           /\ u.host <=> acc.host \/ kind = "host"
           /\ u.user_agent <=> acc.user_agent \/ kind = "user_agent"
           /\ u.content_length <=> acc.content_length \/ kind = "content_length"
           /\ u.transfer_encoding <=> acc.transfer_encoding \/ kind = "transfer_encoding"
  BY TakeHeaderIs
<1>2. t = [u EXCEPT !.count = u.count + 1]
  BY DEF TakeNext
<1> HIDE DEF u, t
<1>3. /\ t \in ParseStates /\ t.error = u.error /\ t.count = u.count + 1 /\ t.host = u.host
      /\ t.user_agent = u.user_agent
      /\ t.content_length = u.content_length /\ t.transfer_encoding = u.transfer_encoding
  BY <1>1, <1>2, FlagIs
<1>4. /\ t \in ParseStates /\ t.count = acc.count + 1
      /\ t.error = "none" <=> /\ acc.error = "none" /\ acc.count < MAX_HEADER_COUNT
                              /\ kind \notin BadKinds /\ ~Seen(acc, kind)
  BY <1>1, <1>3
<1>5. ASSUME t.error = "none"
      PROVE  /\ t.host <=> acc.host \/ kind = "host"
             /\ t.user_agent <=> acc.user_agent \/ kind = "user_agent"
             /\ t.content_length <=> acc.content_length \/ kind = "content_length"
             /\ t.transfer_encoding <=> acc.transfer_encoding \/ kind = "transfer_encoding"
  <2>1. u.error = "none"
    BY <1>3, <1>5
  <2> QED
    BY <2>1, <1>1, <1>3, Zenon
<1> QED
  BY <1>4, <1>5 DEF t

\* The first k headers of r are fine.
FineTo(r, k) ==
  /\ LineError(r.line) = "none" /\ k <= MAX_HEADER_COUNT
  /\ \A i \in 1..k : r.headers[i] \notin BadKinds
  /\ \A i, j \in 1..k : r.headers[i] \in SingleKinds /\ r.headers[i] = r.headers[j] => i = j

Occurs(kind, r, k) == \E i \in 1..k : r.headers[i] = kind

\* The parser after the first k headers of r.
ParsedOK(acc, r, k) ==
  /\ acc \in ParseStates /\ acc.count = k
  /\ acc.error = "none" <=> FineTo(r, k)
  /\ acc.error = "none" =>
       /\ acc.host <=> Occurs("host", r, k)
       /\ acc.user_agent <=> Occurs("user_agent", r, k)
       /\ acc.content_length <=> Occurs("content_length", r, k)
       /\ acc.transfer_encoding <=> Occurs("transfer_encoding", r, k)

\* One more header.
LEMMA ParseStep ==
  ASSUME NEW r \in Requests, NEW k \in Nat, k + 1 <= Len(r.headers),
         NEW acc, ParsedOK(acc, r, k)
  PROVE  ParsedOK(TakeNext(acc, r.headers[k + 1]), r, k + 1)
<1> DEFINE h == r.headers
           kind == h[k + 1]
           t == TakeNext(acc, kind)
<1>0. /\ h \in Seq(HeaderKinds) /\ kind \in HeaderKinds /\ MAX_HEADER_COUNT \in Nat
      /\ acc \in ParseStates /\ acc.count = k
      /\ 1..(k + 1) = (1..k) \cup {k + 1} /\ k + 1 \notin 1..k
  BY HttpAssumption DEF ParsedOK
<1>1. /\ t \in ParseStates /\ t.count = k + 1
      /\ t.error = "none" <=> /\ acc.error = "none" /\ k < MAX_HEADER_COUNT
                              /\ kind \notin BadKinds /\ ~Seen(acc, kind)
      /\ t.error = "none" =>
           /\ t.host <=> acc.host \/ kind = "host"
           /\ t.user_agent <=> acc.user_agent \/ kind = "user_agent"
           /\ t.content_length <=> acc.content_length \/ kind = "content_length"
           /\ t.transfer_encoding <=> acc.transfer_encoding \/ kind = "transfer_encoding"
  <2> HIDE DEF kind
  <2>1. /\ t \in ParseStates /\ t.count = acc.count + 1
        /\ t.error = "none" <=> /\ acc.error = "none" /\ acc.count < MAX_HEADER_COUNT
                                /\ kind \notin BadKinds /\ ~Seen(acc, kind)
        /\ t.error = "none" =>
             /\ t.host <=> acc.host \/ kind = "host"
             /\ t.user_agent <=> acc.user_agent \/ kind = "user_agent"
             /\ t.content_length <=> acc.content_length \/ kind = "content_length"
             /\ t.transfer_encoding <=> acc.transfer_encoding \/ kind = "transfer_encoding"
    BY <1>0, TakeNextIs, Zenon
  <2> HIDE DEF t
  <2>2. t.count = k + 1
    BY <1>0, <2>1
  <2> QED
    BY <1>0, <2>1, <2>2, Zenon
<1>2. \A x : Occurs(x, r, k + 1) <=> Occurs(x, r, k) \/ kind = x
  BY <1>0 DEF Occurs
<1>3. acc.error = "none" => (Seen(acc, kind) <=> kind \in SingleKinds /\ Occurs(kind, r, k))
  BY DEF ParsedOK, Seen, SingleKinds
<1> HIDE DEF t
<1>4. FineTo(r, k + 1) <=> /\ FineTo(r, k) /\ k < MAX_HEADER_COUNT /\ kind \notin BadKinds
                           /\ ~(kind \in SingleKinds /\ Occurs(kind, r, k))
  <2>1. k + 1 <= MAX_HEADER_COUNT <=> k <= MAX_HEADER_COUNT /\ k < MAX_HEADER_COUNT
    BY <1>0
  <2>2. (\A i \in 1..(k + 1) : h[i] \notin BadKinds)
          <=> (\A i \in 1..k : h[i] \notin BadKinds) /\ kind \notin BadKinds
    BY <1>0
  <2>3. (\A i, j \in 1..(k + 1) : h[i] \in SingleKinds /\ h[i] = h[j] => i = j)
          <=> /\ \A i, j \in 1..k : h[i] \in SingleKinds /\ h[i] = h[j] => i = j
              /\ ~(kind \in SingleKinds /\ Occurs(kind, r, k))
    BY <1>0 DEF Occurs
  <2> QED
    BY <2>1, <2>2, <2>3 DEF FineTo
<1>5. t.error = "none" <=> FineTo(r, k + 1)
  BY <1>1, <1>3, <1>4 DEF ParsedOK
<1>6. ASSUME t.error = "none"
      PROVE  /\ t.host <=> Occurs("host", r, k + 1)
             /\ t.user_agent <=> Occurs("user_agent", r, k + 1)
             /\ t.content_length <=> Occurs("content_length", r, k + 1)
             /\ t.transfer_encoding <=> Occurs("transfer_encoding", r, k + 1)
  <2>1. /\ acc.host <=> Occurs("host", r, k)
        /\ acc.user_agent <=> Occurs("user_agent", r, k)
        /\ acc.content_length <=> Occurs("content_length", r, k)
        /\ acc.transfer_encoding <=> Occurs("transfer_encoding", r, k)
    BY <1>1, <1>6 DEF ParsedOK
  <2> QED
    BY <2>1, <1>1, <1>2, <1>6, Zenon
<1> QED
  BY <1>1, <1>5, <1>6 DEF ParsedOK, t

\* The parser before the first header.
ParseStart(r) ==
  [error |-> LineError(r.line), count |-> 0, host |-> FALSE, user_agent |-> FALSE,
   content_length |-> FALSE, transfer_encoding |-> FALSE]

\* parse_request as a fold that G solves.
ParseFold(G, r) ==
  G = [T \in SUBSET DOMAIN r.headers |->
         IF T = {} THEN ParseStart(r)
         ELSE [TakeHeader(G[T \ {Max(T)}], r.headers[Max(T)]) EXCEPT !.count = @ + 1]]

\* The checks after the last header.
ParseEnd(r, read) ==
  IF read.error # "none" THEN read
  ELSE IF r.line = "1.1" /\ ~read.host THEN Error("http_missing_host", read)
  ELSE IF read.transfer_encoding /\ read.content_length
  THEN Error("http_ambiguous_framing", read)
  ELSE read

\* Nothing is wrong with no header.
LEMMA ParseStarts ==
  ASSUME NEW r \in Requests
  PROVE  ParsedOK(ParseStart(r), r, 0)
<1>1. LineError(r.line) \in ParseErrors
  BY DEF LineError, ParseErrors
<1>2. ParseStart(r) \in ParseStates /\ ParseStart(r).count = 0
      /\ ParseStart(r).error = LineError(r.line)
  BY <1>1 DEF ParseStart, ParseStates
<1>3. ParseStart(r).error = "none" <=> FineTo(r, 0)
  BY <1>2, HttpAssumption DEF FineTo
<1>4. /\ ParseStart(r).host <=> Occurs("host", r, 0)
      /\ ParseStart(r).user_agent <=> Occurs("user_agent", r, 0)
      /\ ParseStart(r).content_length <=> Occurs("content_length", r, 0)
      /\ ParseStart(r).transfer_encoding <=> Occurs("transfer_encoding", r, 0)
  <2>1. \A x : ~Occurs(x, r, 0)
    BY DEF Occurs
  <2>2. /\ ParseStart(r).host = FALSE /\ ParseStart(r).user_agent = FALSE
        /\ ParseStart(r).content_length = FALSE /\ ParseStart(r).transfer_encoding = FALSE
    BY DEF ParseStart
  <2> QED
    BY <2>1, <2>2, Zenon
<1> QED
  BY <1>2, <1>3, <1>4 DEF ParsedOK

\* The parser reads all headers before the last checks.
LEMMA ParsedAll ==
  ASSUME NEW r \in Requests
  PROVE  \E read : ParsedOK(read, r, Len(r.headers)) /\ parse_request(r) = ParseEnd(r, read)
<1> DEFINE h == r.headers
           step == [x \in ParseStates \X HeaderKinds |-> TakeNext(x[1], x[2])]
<1>0. h \in Seq(HeaderKinds) /\ Len(h) \in Nat /\ DOMAIN h = 1..Len(h)
  BY HttpAssumption
<1>1. \A acc \in ParseStates, kind \in HeaderKinds : TakeNext(acc, kind) \in ParseStates
  BY TakeNextIs, Zenon
<1>2. step \in [ParseStates \X HeaderKinds -> ParseStates]
  BY <1>1
<1>3. ParsedOK(ParseStart(r), r, 0) /\ ParseStart(r) \in ParseStates
  BY ParseStarts DEF ParsedOK
<1>4. PICK F : ParseFold(F, r)
  <2> HIDE DEF step
  <2>1. PICK F : Solves(F, step, ParseStart(r), h, ParseStates, HeaderKinds)
    BY <1>0, <1>2, <1>3, FoldSolved
  <2>2. \A T \in SUBSET DOMAIN h : T # {} =>
          step[<<F[T \ {Max(T)}], h[Max(T)]>>] = TakeNext(F[T \ {Max(T)}], h[Max(T)])
    BY <2>1 DEF step, Solves
  <2>3. F = [T \in SUBSET DOMAIN h |->
               IF T = {} THEN ParseStart(r) ELSE TakeNext(F[T \ {Max(T)}], h[Max(T)])]
    BY <2>1, <2>2 DEF Solves
  <2> QED
    BY <2>3 DEF ParseFold, TakeNext
<1>5. PICK G : ParseFold(G, r) /\ parse_request(r) = ParseEnd(r, G[DOMAIN h])
  BY <1>4, Zenon DEF parse_request, ParseEnd, ParseStart, FoldLeft, MapThenFoldSet, ParseFold
<1> DEFINE S == {k \in Nat : k <= Len(h) => ParsedOK(G[1..k], r, k)}
<1>6. 0 \in S
  <2>1. 1..0 = {} /\ 1..0 \in SUBSET DOMAIN h
    OBVIOUS
  <2>2. G[1..0] = ParseStart(r)
    BY <1>5, <2>1 DEF ParseFold
  <2> QED
    BY <1>3, <2>2
<1>7. ASSUME NEW k \in S PROVE k + 1 \in S
  <2> SUFFICES ASSUME k + 1 <= Len(h) PROVE ParsedOK(G[1..(k + 1)], r, k + 1)
    BY <1>7
  <2>1. /\ 1..(k + 1) \in SUBSET DOMAIN h /\ k + 1 \in Nat \ {0} /\ (k + 1) - 1 = k
        /\ ParsedOK(G[1..k], r, k) /\ k \in Nat
    BY <1>0, <1>7
  <2>2. 1..(k + 1) # {} /\ Max(1..(k + 1)) = k + 1 /\ (1..(k + 1)) \ {k + 1} = 1..k
    BY <2>1, MaxOfFirst
  <2>3. G[1..(k + 1)] = TakeNext(G[1..k], h[k + 1])
    BY <1>5, <2>1, <2>2 DEF ParseFold, TakeNext
  <2> QED
    BY <2>1, <2>3, ParseStep
<1> HIDE DEF S
<1>8. S = Nat
  <2>1. S \in SUBSET Nat
    BY DEF S
  <2> QED
    BY <2>1, <1>6, <1>7, Inductive
<1>9. ParsedOK(G[DOMAIN h], r, Len(h))
  BY <1>0, <1>8 DEF S
<1> QED
  BY <1>5, <1>9

\* How often a header is given.
LEMMA CountIs ==
  ASSUME NEW r \in Requests, NEW kind
  PROVE  /\ Count(kind, r) \in Nat
         /\ Count(kind, r) = 0 <=> ~Occurs(kind, r, Len(r.headers))
         /\ Count(kind, r) <= 1 <=>
              \A i, j \in 1..Len(r.headers) :
                r.headers[i] = kind /\ r.headers[j] = kind => i = j
<1> DEFINE h == r.headers
           P == {k \in DOMAIN h : h[k] = kind}
<1>1. h \in Seq(HeaderKinds) /\ Len(h) \in Nat /\ DOMAIN h = 1..Len(h)
  BY HttpAssumption
<1>2. IsFiniteSet(P)
  <2>1. IsFiniteSet(1..Len(h)) /\ P \in SUBSET (1..Len(h))
    BY <1>1, FS_Interval
  <2> QED
    BY <2>1, FS_Subset
<1>3. Count(kind, r) = Cardinality(P)
  BY DEF Count
<1>4. Occurs(kind, r, Len(h)) <=> P # {}
  BY <1>1 DEF Occurs
<1>5. (\A i, j \in 1..Len(h) : h[i] = kind /\ h[j] = kind => i = j) <=> \A i, j \in P : i = j
  BY <1>1
<1> HIDE DEF P
<1>6. Cardinality(P) \in Nat /\ (Cardinality(P) = 0 <=> P = {})
  BY <1>2, FS_CardinalityType, FS_EmptySet
<1>7. Cardinality(P) <= 1 <=> \A i, j \in P : i = j
  <2>1. ASSUME \A i, j \in P : i = j PROVE Cardinality(P) <= 1
    <3>1. CASE P = {}
      BY <1>6, <3>1
    <3>2. CASE P # {}
      <4>1. PICK x \in P : TRUE
        BY <3>2
      <4>2. P = {x}
        BY <2>1, <4>1
      <4> QED
        BY <1>2, <4>2, FS_Singleton
    <3> QED
      BY <3>1, <3>2
  <2>2. ASSUME Cardinality(P) <= 1 PROVE \A i, j \in P : i = j
    <3>1. Cardinality(P) = 0 \/ Cardinality(P) = 1
      BY <1>6, <2>2
    <3>2. P = {} \/ \E x : P = {x}
      BY <1>2, <1>6, <3>1, FS_Singleton
    <3> QED
      BY <3>2
  <2> QED
    BY <2>1, <2>2
<1> QED
  BY <1>3, <1>4, <1>5, <1>6, <1>7

\* The parser refuses exactly what is not well formed.
LEMMA StrictIs ==
  ASSUME NEW r \in Requests
  PROVE  parse_request(r).error = "none" <=> WellFormed(r)
<1> DEFINE h == r.headers
           n == Len(h)
<1>0. /\ h \in Seq(HeaderKinds) /\ n \in Nat /\ r.line \in LineKinds
      /\ \A i \in 1..n : h[i] \in HeaderKinds
  BY HttpAssumption
<1>1. PICK read : ParsedOK(read, r, n) /\ parse_request(r) = ParseEnd(r, read)
  BY ParsedAll
<1>2. /\ read \in ParseStates
      /\ read.error = "none" <=> FineTo(r, n)
      /\ read.error = "none" =>
           /\ read.host <=> Occurs("host", r, n)
           /\ read.content_length <=> Occurs("content_length", r, n)
           /\ read.transfer_encoding <=> Occurs("transfer_encoding", r, n)
  BY <1>1 DEF ParsedOK
<1>3. ParseEnd(r, read).error = "none" <=>
        /\ read.error = "none" /\ ~(r.line = "1.1" /\ ~read.host)
        /\ ~(read.transfer_encoding /\ read.content_length)
  <2>1. /\ Error("http_missing_host", read).error # "none"
        /\ Error("http_ambiguous_framing", read).error # "none"
    <3>1. "http_missing_host" \in ParseErrors \ {"none"}
          /\ "http_ambiguous_framing" \in ParseErrors \ {"none"}
      BY DEF ParseErrors
    <3> QED
      BY <1>2, <3>1, ErrorIs
  <2> QED
    BY <2>1, Zenon DEF ParseEnd
<1>4. parse_request(r).error = "none" <=>
        /\ FineTo(r, n)
        /\ r.line = "1.1" => Occurs("host", r, n)
        /\ ~(Occurs("transfer_encoding", r, n) /\ Occurs("content_length", r, n))
  BY <1>1, <1>2, <1>3, Zenon
<1>5. LineError(r.line) = "none" <=> r.line \in {"1.0", "1.1"}
  BY <1>0 DEF LineError, LineKinds
<1>6. (\A i \in 1..n : h[i] \notin BadKinds) <=> \A kind \in BadKinds : Count(kind, r) = 0
  BY CountIs DEF Occurs
<1>7. (\A i, j \in 1..n : h[i] \in SingleKinds /\ h[i] = h[j] => i = j)
        <=> \A kind \in SingleKinds : Count(kind, r) <= 1
  BY CountIs
<1>8. /\ Count("host", r) \in Nat /\ Count("content_length", r) \in Nat
      /\ Count("transfer_encoding", r) \in Nat
      /\ \A kind \in SingleKinds : Count(kind, r) = 0 <=> ~Occurs(kind, r, n)
  BY CountIs
<1>9. FineTo(r, n) <=>
        /\ r.line \in {"1.0", "1.1"} /\ n <= MAX_HEADER_COUNT
        /\ \A kind \in BadKinds : Count(kind, r) = 0
        /\ Count("host", r) <= 1 /\ Count("content_length", r) <= 1
        /\ Count("transfer_encoding", r) <= 1
  BY <1>5, <1>6, <1>7 DEF FineTo, SingleKinds
<1>10. /\ Occurs("host", r, n) <=> Count("host", r) # 0
       /\ Occurs("content_length", r, n) <=> Count("content_length", r) # 0
       /\ Occurs("transfer_encoding", r, n) <=> Count("transfer_encoding", r) # 0
  BY <1>8 DEF SingleKinds
<1> DEFINE hosts == Count("host", r)
           lengths == Count("content_length", r)
           encodings == Count("transfer_encoding", r)
<1>11. /\ hosts <= 1 /\ lengths <= 1 /\ encodings <= 1
       /\ (r.line = "1.1" => hosts # 0) /\ ~(encodings # 0 /\ lengths # 0)
       <=> /\ hosts <= 1 /\ (r.line = "1.1" => hosts = 1)
           /\ lengths + encodings <= 1
  <2>1. hosts \in Nat /\ lengths \in Nat /\ encodings \in Nat
    BY <1>8
  <2> HIDE DEF hosts, lengths, encodings
  <2> QED
    BY <2>1
<1> HIDE DEF hosts, lengths, encodings
<1>12. WellFormed(r) <=>
         /\ r.line \in {"1.0", "1.1"} /\ n <= MAX_HEADER_COUNT
         /\ \A kind \in BadKinds : Count(kind, r) = 0
         /\ hosts <= 1 /\ (r.line = "1.1" => hosts = 1) /\ lengths + encodings <= 1
  BY DEF WellFormed, BadKinds, hosts, lengths, encodings
<1> QED
  BY <1>4, <1>9, <1>10, <1>11, <1>12, Zenon DEF hosts, lengths, encodings

\* The names the parser has found in a request it takes.
LEMMA NamesAre ==
  ASSUME NEW r \in Requests, parse_request(r).error = "none"
  PROVE  /\ parse_request(r).host <=> Count("host", r) > 0
         /\ parse_request(r).user_agent <=> Count("user_agent", r) > 0
<1> DEFINE n == Len(r.headers)
<1>1. PICK read : ParsedOK(read, r, n) /\ parse_request(r) = ParseEnd(r, read)
  BY ParsedAll
<1>2. read \in ParseStates
  BY <1>1 DEF ParsedOK
<1>3. /\ Error("http_missing_host", read).error # "none"
      /\ Error("http_ambiguous_framing", read).error # "none"
  <2>1. "http_missing_host" \in ParseErrors \ {"none"}
        /\ "http_ambiguous_framing" \in ParseErrors \ {"none"}
    BY DEF ParseErrors
  <2> QED
    BY <1>2, <2>1, ErrorIs
<1>4. parse_request(r) = read /\ read.error = "none"
  BY <1>1, <1>3, Zenon DEF ParseEnd
<1>5. /\ parse_request(r).host <=> Occurs("host", r, n)
      /\ parse_request(r).user_agent <=> Occurs("user_agent", r, n)
  BY <1>1, <1>4, Zenon DEF ParsedOK
<1>6. \A kind : Occurs(kind, r, n) <=> Count(kind, r) > 0
  <2> SUFFICES ASSUME NEW kind PROVE Occurs(kind, r, n) <=> Count(kind, r) > 0
    OBVIOUS
  <2>1. Count(kind, r) \in Nat /\ (Count(kind, r) = 0 <=> ~Occurs(kind, r, n))
    BY CountIs
  <2> QED
    BY <2>1
<1> QED
  BY <1>5, <1>6, Zenon

\* Cut leaves a path up to its first mark.
LEMMA CutIs ==
  ASSUME NEW path \in Seq(PathPieces)
  PROVE  IsBeforeMarks(Cut(path), path)
<1> DEFINE I == {i \in 1..Len(path) : path[i] \in Marks}
           mark == SelectInSeq(path, LAMBDA c : c \in Marks)
<1>0. Len(path) \in Nat /\ path = SubSeq(path, 1, Len(path))
  OBVIOUS
<1>1. mark = IF I = {} THEN 0 ELSE Min(I)
  BY Zenon DEF SelectInSeq
<1>2. Cut(path) = IF mark = 0 THEN path ELSE SubSeq(path, 1, mark - 1)
  BY Zenon DEF Cut
<1>3. CASE I = {}
  <2>1. Cut(path) = SubSeq(path, 1, Len(path))
    BY <1>0, <1>1, <1>2, <1>3
  <2>2. Len(path) \in 0..Len(path) /\ ~(Len(path) < Len(path))
    BY <1>0
  <2>3. \A k \in 1..Len(path) : path[k] \notin Marks
    BY <1>3
  <2> QED
    BY <2>1, <2>2, <2>3, Zenon DEF IsBeforeMarks
<1>4. CASE I # {}
  <2>1. I \in SUBSET Nat /\ I # {}
    BY <1>0, <1>4
  <2> HIDE DEF I
  <2>2. Min(I) \in I /\ \A i \in I : Min(I) <= i
    BY <2>1, MinExists
  <2>3. mark = Min(I)
    BY <1>1, <1>4
  <2> HIDE DEF mark
  <2>4. /\ mark \in 1..Len(path) /\ path[mark] \in Marks
        /\ \A i \in 1..Len(path) : path[i] \in Marks => mark <= i
    BY <2>2, <2>3 DEF I
  <2> DEFINE m == mark - 1
  <2>5. m \in 0..Len(path) /\ m + 1 = mark /\ mark # 0
    BY <1>0, <2>4
  <2>6. Cut(path) = SubSeq(path, 1, m)
    BY <1>2, <2>5
  <2>7. \A k \in 1..m : path[k] \notin Marks
    BY <1>0, <2>4
  <2> HIDE DEF m
  <2> QED
    BY <2>4, <2>5, <2>6, <2>7 DEF IsBeforeMarks
<1> QED
  BY <1>3, <1>4

\* What push_event shows of a request the parser takes.
LEMMA RequestIs ==
  ASSUME config \in Configs, NEW r \in Requests, parse_request(r).error = "none"
  PROVE  RequestMinimized(redact(Event(r, parse_request(r))), r)
<1> DEFINE read == parse_request(r)
           host == Text(read.host, "host")
           agent == Text(read.user_agent, "agent")
           event == Event(r, read)
           kept == IF ~config.capture_http_path THEN Redacted
                   ELSE IF Metadata THEN Cut(r.path) ELSE r.path
           shown == HttpRedacted(event, kept)
<1>1. /\ event.kind = "http_request" /\ event.path = r.path
      /\ event.method = <<"method">> /\ event.version = <<r.line>>
      /\ event.host = host /\ event.user_agent = agent
  BY DEF Event, HttpRequest
<1>2. redact(event) = shown
  <2>1. event.kind = "http_request" /\ event.path = r.path
    BY <1>1
  <2> HIDE DEF event
  <2> QED
    BY <2>1 DEF redact, Metadata
<1>3. /\ shown.path = kept /\ shown.method = event.method /\ shown.version = event.version
      /\ shown.host = IF Metadata THEN Absent ELSE event.host
      /\ shown.user_agent = IF Metadata THEN Absent ELSE event.user_agent
  <2> HIDE DEF kept, read
  <2> QED
    BY DEF HttpRedacted, Event, HttpRequest, Metadata
<1>4. /\ read.host <=> Count("host", r) > 0
      /\ read.user_agent <=> Count("user_agent", r) > 0
  BY NamesAre
<1>5. IsBeforeMarks(Cut(r.path), r.path)
  BY HttpAssumption, CutIs
<1>6. /\ ~config.capture_http_path => kept = Redacted
      /\ config.capture_http_path /\ ~Metadata => kept = r.path
      /\ config.capture_http_path /\ Metadata => IsBeforeMarks(kept, r.path)
  BY <1>5, Zenon
<1>7. /\ (IF Metadata THEN Absent ELSE host) = Text(~Metadata /\ Count("host", r) > 0, "host")
      /\ (IF Metadata THEN Absent ELSE agent)
           = Text(~Metadata /\ Count("user_agent", r) > 0, "agent")
  <2> HIDE DEF read
  <2>1. (Count("host", r) > 0) \in BOOLEAN /\ (Count("user_agent", r) > 0) \in BOOLEAN
    OBVIOUS
  <2> QED
    BY <1>4, <2>1, Zenon DEF Text
<1> HIDE DEF read, event, shown, kept, host, agent
<1>8. RequestMinimized(shown, r)
  BY <1>1, <1>3, <1>6, <1>7, Zenon DEF RequestMinimized
<1> QED
  BY <1>2, <1>8 DEF event, read

\* PrivacyKept, for every sequence of events of every handler and every path
\* and list of headers of a request: in metadata mode there is no preview, no
\* name and no password of a login, no host or client of a request and no
\* query or fragment of its path; the path of the event is hidden in both
\* modes without capture_http_path; and method, version and what full mode
\* keeps are recorded as they were sent.
THEOREM PrivacyIsKept == Spec => []PrivacyKept
<1>1. SessionInv /\ OpenInv => PrivacyKept
  <2> SUFFICES ASSUME SessionInv, OpenInv PROVE PrivacyKept
    OBVIOUS
  <2>1. config \in Configs /\ RecordOK(session, stream, MostEvents)
    BY DEF SessionInv, RecordInv
  <2>2. Metadata => session.preview = <<>>
    BY <2>1 DEF RecordOK, Numbers, Metadata
  <2>3. ASSUME NEW k \in DOMAIN session.events
        PROVE  /\ session.events[k].kind = "telnet_login" => LoginMinimized(session.events[k])
               /\ session.events[k].kind = "http_request" =>
                    request # NoRequest /\ RequestMinimized(session.events[k], request)
    <3>1. Private(session.events[k])
      BY <2>1, <2>3 DEF RecordOK
    <3>2. ASSUME session.events[k].kind = "http_request"
          PROVE  request # NoRequest /\ RequestMinimized(session.events[k], request)
      <4>1. Http
        BY <3>1, <3>2 DEF Private
      <4>2. request # NoRequest /\ session.events[k] = redact(Event(request, parse_request(request)))
        BY <2>3, <3>2, <4>1 DEF SessionInv, HttpInv, RequestShown
      <4>3. request \in Requests /\ parse_request(request).error = "none"
        BY <2>3, <3>2, <4>1, <4>2 DEF SessionInv, HttpInv, RequestRecorded
      <4> QED
        BY <2>1, <4>2, <4>3, RequestIs
    <3> QED
      BY <3>1, <3>2 DEF Private
  <2> QED
    BY <2>2, <2>3, Zenon DEF PrivacyKept
<1> QED
  BY <1>1, SessionInvariant, OpenInvariant, PTL

\* HttpStrict: a request is recorded, and answered with the configured status,
\* exactly if it is well formed, for every list of headers in every order.
THEOREM HttpIsStrict == Spec => []HttpStrict
<1>1. SessionInv /\ OpenInv => HttpStrict
  <2> SUFFICES ASSUME SessionInv, OpenInv, request # NoRequest
      PROVE  /\ WellFormed(request) <=> status = 1
             /\ WellFormed(request) <=> RequestRecorded
    BY DEF HttpStrict, RequestRecorded
  <2>1. /\ request \in Requests
        /\ status = 1 <=> parse_request(request).error = "none"
        /\ status = 1 <=> RequestRecorded
    BY DEF SessionInv, OpenInv, HttpInv
  <2>2. parse_request(request).error = "none" <=> WellFormed(request)
    BY <2>1, StrictIs
  <2> QED
    BY <2>1, <2>2, Zenon
<1> QED
  BY <1>1, SessionInvariant, OpenInvariant, PTL

=============================================================================
