----------------------------- MODULE Addresses -----------------------------
(***************************************************************************)
(* Addresses as src/config.rs compares them: the exclusion list, the       *)
(* limiter's table and the overlap of two binds all go by canonical_ip.    *)
(*                                                                         *)
(* An IP address is a record [family, host].  The family "mapped" is the   *)
(* IPv6 spelling ::ffff:a.b.c.d of an IPv4 address.  Host 0 is the all-    *)
(* zero address of its family, the wildcard of a bind.                     *)
(***************************************************************************)
EXTENDS Naturals

\* (mutant) an address is compared as it is spelled
canonical_ip_raw(ip) == ip

\* An IPv4-mapped IPv6 address is the IPv4 address it maps.
canonical_ip(ip) ==
  IF ip.family = "mapped" THEN [ip EXCEPT !.family = "v4"] ELSE ip

is_unspecified(ip) == ip.host = 0

\* (mutant) only equal addresses and wildcards of one family overlap
binds_conflict_family(a, b) ==
  LET x == canonical_ip(a.ip)
      y == canonical_ip(b.ip)
  IN
  /\ a.port # 0 /\ a.port = b.port
  /\ x.family = y.family
  /\ x = y \/ is_unspecified(x) \/ is_unspecified(y)

\* Two socket addresses [ip, port] that one process cannot listen on at once.
\* Port 0 asks for a free port, and conflicts with nothing.
binds_conflict(a, b) ==
  LET x == canonical_ip(a.ip)
      y == canonical_ip(b.ip)
  IN
  /\ a.port # 0 /\ b.port # 0 /\ a.port = b.port
  /\ \/ x = y
     \/ x.family = y.family /\ (is_unspecified(x) \/ is_unspecified(y))
     \/ x.family # y.family /\ \E z \in {x, y} : z.family = "v6" /\ is_unspecified(z)

=============================================================================
