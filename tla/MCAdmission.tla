---------------------------- MODULE MCAdmission ----------------------------
(* A small instance of Admission: an IPv4 host, an excluded one that       *)
(* connects under both spellings, and an IPv6 host.                        *)
EXTENDS Admission

MCPeers == { [family |-> "v4", host |-> 1],
             [family |-> "v4", host |-> 2],
             [family |-> "mapped", host |-> 2],
             [family |-> "v6", host |-> 3] }
MCIgnored == { [family |-> "mapped", host |-> 2] }

=============================================================================
