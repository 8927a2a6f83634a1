------------------------------- MODULE Config -------------------------------
(***************************************************************************)
(* src/config.rs: which configurations are accepted.  A configuration is a *)
(* record of the fields validate looks at.  A text is a record [len, set]: *)
(* its length in bytes and the smallest of the classes "ident" (letters,   *)
(* digits, '.', '_', '-'), "ascii" (printable ASCII), "text" (no control   *)
(* character) and "any" that it belongs to.  An optional field is a set of *)
(* at most one value.  TOML and the defaults are left out.                 *)
(***************************************************************************)
EXTENDS Addresses, FiniteSets, Sequences

\* Where the log goes: empty and "-" are the same as no output.
has_file(c) == c.output # {}

\* from_path: a relative output is in the directory of the configuration.
log_path(c) ==
  CHOOSE path \in {<<IF o.absolute THEN o.directory ELSE c.directory, o.name>> : o \in c.output} : TRUE

-----------------------------------------------------------------------------
(* The helpers of validate                                                 *)

identifier(text) == text.len \in 1..64 /\ text.set = "ident"

\* Host 1 of a family is its loopback address; the mapped one does not count.
is_loopback(ip) == ip.family # "mapped" /\ ip.host = 1

printable(text) == text.set \in {"ident", "ascii"}

safe_text(text, max) == text.len <= max /\ text.set # "any"

-----------------------------------------------------------------------------
(* The parts of validate                                                   *)

\* Large numbers, by name: no proof has to compute with them all.
largest_preview == 65536
largest_read == 16777216
smallest_file == 1048576
largest_file == 1073741824
largest_queue == 4096
history_budget == 1000000
queue_budget == 268435456

SensorValid(c) ==
  /\ identifier(c.id) /\ identifier(c.environment)
  /\ Len(c.tags) <= 8
  /\ \A k \in DOMAIN c.tags : identifier(c.tags[k].key) /\ safe_text(c.tags[k].value, 128)

\* One entry per host: the spellings of an address are one entry.
NoDuplicates(ips) == \A j, k \in DOMAIN ips : canonical_ip(ips[j]) = canonical_ip(ips[k]) => j = k

PreviewValid(c) ==
  /\ c.max_bytes_per_session \in 0..largest_preview
  /\ c.max_bytes_per_session <= c.max_read_bytes_per_session

\* The limiter may remember so many calls in all.
HistoriesValid(c) == c.max_tracked_ips * c.rate_limit_per_ip_per_min <= history_budget

ServerValid(c) ==
  /\ c.max_concurrent_sessions \in 1..4096
  /\ c.session_timeout_seconds \in 1..300
  /\ c.max_session_duration_seconds \in 1..3600
  /\ c.shutdown_grace_seconds \in 1..60
  /\ c.rate_limit_per_ip_per_min \in 0..10000
  /\ c.max_tracked_ips \in 1..65536
  /\ c.max_read_bytes_per_session \in 1..largest_read
  /\ Len(c.ignore_source_ips) <= 256
  /\ NoDuplicates(c.ignore_source_ips)

LoggingValid(c) ==
  /\ ~c.output_has_nul
  /\ c.buffer_size \in 1..largest_queue
  /\ c.max_file_bytes \in smallest_file..largest_file
  /\ c.max_files \in 1..20
  /\ c.write_timeout_seconds \in 1..30

\* What validate takes the longest record to be, in memory.
estimated_record_bytes(c) == 65536 + 3 * c.max_bytes_per_session

\* (mutant) the size of the queue is bounded, whatever a record takes
QueueValid_by_count(c) == c.buffer_size <= largest_queue

QueueValid(c) == estimated_record_bytes(c) * c.buffer_size <= queue_budget

MetricsValid(m) ==
  /\ m.max_connections \in 1..256
  /\ m.request_timeout_seconds \in 1..30
  /\ m.enabled => is_loopback(m.bind.ip) \/ m.allow_remote

BannerValid(ep, banner) ==
  /\ banner.len <= 4096
  /\ ep.protocol # "http"
  /\ ep.protocol = "ssh" => banner.len <= 253 /\ banner.ssh_prefix /\ printable(banner)

EndpointValid(ep) ==
  /\ \A name \in ep.name : identifier(name)
  /\ \A banner \in ep.banner : BannerValid(ep, banner)
  /\ \A header \in ep.server_header :
       ep.protocol = "http" /\ header.len \in 1..256 /\ printable(header)
  /\ \A status \in ep.http_status : ep.protocol = "http" /\ status \in 200..599
  /\ \A prompt \in ep.login_prompt :
       ep.protocol = "telnet" /\ safe_text(prompt, 128) /\ prompt.len > 0

\* No two endpoints share a name or a socket, and none the metrics socket.
EndpointsApart(c) ==
  LET eps == c.endpoints IN
  /\ \A j, k \in DOMAIN eps : j # k =>
       eps[j].name \cap eps[k].name = {} /\ ~binds_conflict(eps[j].bind, eps[k].bind)
  /\ c.metrics.enabled => \A k \in DOMAIN eps : ~binds_conflict(eps[k].bind, c.metrics.bind)

validate(c) ==
  /\ Len(c.endpoints) \in 1..32
  /\ SensorValid(c)
  /\ ServerValid(c) /\ HistoriesValid(c) /\ PreviewValid(c)
  /\ LoggingValid(c) /\ QueueValid(c)
  /\ MetricsValid(c.metrics)
  /\ \A k \in DOMAIN c.endpoints : EndpointValid(c.endpoints[k])
  /\ EndpointsApart(c)

=============================================================================
