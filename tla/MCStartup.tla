----------------------------- MODULE MCStartup -----------------------------
(* Two processes, and for each pair of configurations a case: the fields   *)
(* of one at their bounds, every pair of binds in one process and in two,  *)
(* and the ways two processes can name a log.                              *)
EXTENDS Startup

CONSTANTS p1, p2

MCProcs == {p1, p2}
MCHosts == {1, 2}
MCEphemeral == {80, 81}

Text(len) == [len |-> len, set |-> "ident", ssh_prefix |-> TRUE]

Addr(family, host) == [family |-> family, host |-> host]
At(ip, port) == [ip |-> ip, port |-> port]
Binds == {At(Addr(f, h), 80) : f \in {"v4", "v6", "mapped"}, h \in 0..1}

Endpoint(protocol, bind) ==
  [name |-> {}, bind |-> bind, protocol |-> protocol, banner |-> {},
   server_header |-> {}, http_status |-> {}, login_prompt |-> {}]

Loopback == Addr("v4", 1)

Base ==
  [id |-> Text(12), environment |-> Text(11), tags |-> <<>>,
   max_concurrent_sessions |-> 256, session_timeout_seconds |-> 15,
   max_session_duration_seconds |-> 60, shutdown_grace_seconds |-> 10,
   rate_limit_per_ip_per_min |-> 30, max_tracked_ips |-> 4096,
   max_bytes_per_session |-> 1024, max_read_bytes_per_session |-> 65536,
   ignore_source_ips |-> <<>>,
   output_has_nul |-> FALSE, buffer_size |-> 256, max_file_bytes |-> 10485760,
   max_files |-> 3, write_timeout_seconds |-> 3,
   metrics |-> [enabled |-> FALSE, bind |-> At(Loopback, 90), allow_remote |-> FALSE,
                max_connections |-> 16, request_timeout_seconds |-> 3],
   endpoints |-> <<Endpoint("raw", At(Loopback, 80))>>,
   output |-> {[absolute |-> FALSE, directory |-> "a", name |-> "log"]},
   directory |-> "a"]

Raws(binds) == [Base EXCEPT !.endpoints = [k \in DOMAIN binds |-> Endpoint("raw", binds[k])]]

Metrics(c, bind, remote) ==
  [c EXCEPT !.metrics.enabled = TRUE, !.metrics.bind = bind, !.metrics.allow_remote = remote]

Log(c, absolute, directory, from) ==
  [c EXCEPT !.output = {[absolute |-> absolute, directory |-> directory, name |-> "log"]},
            !.directory = from]

Tags(n) == [k \in 1..n |-> [key |-> Text(64), value |-> [Text(128) EXCEPT !.set = "text"]]]

With(ep) == [Base EXCEPT !.endpoints = <<ep>>]

\* One field at a bound, or just past it.
Edges ==
  {[Base EXCEPT !.id = Text(n)] : n \in {0, 64, 65}}
  \cup {[Base EXCEPT !.tags = Tags(n)] : n \in {8, 9}}
  \cup {[Base EXCEPT !.max_bytes_per_session = n, !.max_read_bytes_per_session = r,
                     !.buffer_size = 1, !.max_file_bytes = 1048576, !.tags = Tags(8)] :
          n \in {0, 65536, 1000000}, r \in {65536, 1000000}}
  \cup {[Base EXCEPT !.buffer_size = n, !.max_bytes_per_session = 65536] : n \in {0, 1024, 1025, 4096, 4097}}
  \cup {[Base EXCEPT !.rate_limit_per_ip_per_min = n] : n \in {0, 244, 245, 10001}}
  \cup {[Base EXCEPT !.ignore_source_ips = <<Addr("v4", 1), Addr(f, h)>>] :
          f \in {"v6", "mapped"}, h \in 1..2}
  \cup {[Base EXCEPT !.endpoints = <<>>], [Base EXCEPT !.output_has_nul = TRUE],
        [Base EXCEPT !.output = {}]}
  \cup {With([Endpoint("ssh", At(Loopback, 80)) EXCEPT !.banner = {Text(n)}]) : n \in {253, 254}}
  \cup {With([Endpoint(p, At(Loopback, 80)) EXCEPT !.http_status = {n}]) :
          p \in {"http", "raw"}, n \in {199, 200}}
  \cup {With([Endpoint("http", At(Loopback, 80)) EXCEPT !.server_header = {Text(n)}]) : n \in {0, 256}}
  \cup {With([Endpoint("telnet", At(Loopback, 80)) EXCEPT !.login_prompt = {Text(n)}]) : n \in {0, 128}}

Both(c) == [p \in MCProcs |-> c]
Two(c, d) == [p \in MCProcs |-> IF p = p1 THEN c ELSE d]

Free == At(Loopback, 0)

MCDeployments ==
  {Both(c) : c \in Edges}
  \cup {Both(Raws(<<a, b>>)) : a, b \in Binds \cup {Free}}
  \cup {Both(Metrics(Raws(<<a>>), b, r)) : a \in Binds, b \in {At(Addr("v4", 0), 80), At(Loopback, 90)}, r \in BOOLEAN}
  \cup {Two(Log(Raws(<<a>>), TRUE, "b", "b"), Log(Raws(<<b>>), FALSE, "b", "b")) : a, b \in Binds}
  \cup {Two(Raws(<<a, b>>), Raws(<<b, a>>)) : a \in {At(Loopback, 80)}, b \in {At(Loopback, 81)}}
  \cup {Two(Log(Raws(<<At(Loopback, 80)>>), x, d, "a"), Log(Raws(<<At(Loopback, 81)>>), y, "a", f)) :
          x, y \in BOOLEAN, d, f \in {"a", "b"}}

=============================================================================
