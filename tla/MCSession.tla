----------------------------- MODULE MCSession -----------------------------
(* Small instances of Session.                                             *)
EXTENDS Session

Setting(protocol, bytes, input_limit, preview_limit, mode, capture, banner) ==
  [protocol |-> protocol, bytes |-> bytes, input_limit |-> input_limit,
   preview_limit |-> preview_limit, mode |-> mode, capture_http_path |-> capture,
   banner |-> banner]

Modes == {"metadata", "full"}

\* Telnet clients: one that negotiates, one that types, and one with an option.
TelnetConfigs ==
  {Setting("telnet", {"IAC", "SB", "SE", "LF"}, 7, 1, "full", TRUE, FALSE),
   Setting("telnet", {"IAC", "WILL", "CR", "LF"}, 5, 1, "full", TRUE, FALSE),
   Setting("telnet", {"LF"}, 1, 1, "full", TRUE, TRUE)}
  \cup {Setting("telnet", {"CR", "LF", "NUL", "a"}, 7, 2, mode, TRUE, FALSE) : mode \in Modes}

HttpConfigs ==
  {Setting("http", {"CR", "LF", "x"}, limit, 2, "full", TRUE, FALSE) : limit \in {5, 9}}
  \cup {Setting("http", {"CR", "LF"}, 5, 2, mode, capture, FALSE) :
          mode \in Modes, capture \in BOOLEAN}

SshConfigs ==
  {Setting("ssh", {"SSH", "SP", "CR", "LF", "CTL", "x"}, 5, limit, "full", TRUE, FALSE) :
     limit \in {0, 3}}

RawConfigs ==
  {Setting("raw", {"x", "y"}, 4, limit, mode, TRUE, banner) :
     limit \in 0..3, mode \in Modes, banner \in BOOLEAN}

MCConfigs == TelnetConfigs \cup HttpConfigs \cup SshConfigs \cup RawConfigs

MCRequestTo(first, path, kinds) == [line |-> first, path |-> path, headers |-> kinds]
MCRequest(first, kinds) == MCRequestTo(first, <<"path", "?", "query">>, kinds)

\* Paths with neither, one or both of a query and a fragment.
OtherPaths ==
  {<<"path">>, <<"path", "#", "fragment">>, <<"path", "?", "query", "#", "fragment">>,
   <<"path", "#", "fragment", "?", "query">>}

\* Every list of at most two headers, and some of three.
MCRequests ==
  {MCRequest(first, kinds) :
     first \in {"1.0", "1.1"}, kinds \in UNION {[1..n -> HeaderKinds] : n \in 0..2}}
  \cup {MCRequest("1.1", kinds) :
     kinds \in [1..3 -> {"host", "content_length", "transfer_encoding", "other"}]}
  \cup {MCRequest(first, <<"host">>) : first \in LineKinds}
  \cup {MCRequestTo("1.1", path, <<"host">>) : path \in OtherPaths}

=============================================================================
