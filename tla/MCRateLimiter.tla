--------------------------- MODULE MCRateLimiter ---------------------------
(* Small instances of RateLimiter: one IPv4 host under its two spellings   *)
(* and one IPv6 host.                                                      *)
EXTENDS RateLimiter, TLC

MCPeers == { [family |-> "v4", host |-> 1],
             [family |-> "mapped", host |-> 1],
             [family |-> "v6", host |-> 2] }

EndpointSymmetry == Permutations(Endpoints)

=============================================================================
