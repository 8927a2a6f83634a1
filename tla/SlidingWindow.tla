--------------------------- MODULE SlidingWindow ---------------------------
(***************************************************************************)
(* What the limiter promises, without its table: every admission time of   *)
(* every host is remembered for ever, and each question is answered        *)
(* from the admissions that lie inside the window that ends at the time of *)
(* the question.  Slack is the tolerance at the far end of that window:    *)
(* with Slack = 0 the window is exact.                                     *)
(***************************************************************************)
EXTENDS Integers, Sequences, FiniteSets

CONSTANTS Callers, Peers, NoPeer, Hosts, limit, max_ips, WINDOW, Slack

VARIABLES pending,   \* callers whose question is not answered yet
          asked,     \* the time of each pending question, else 0
          peer,      \* the address of each pending question, else NoPeer
          verdict,   \* each caller's last answer
          failed,    \* the limiter has failed closed
          admitted   \* all admission times of every host

wvars == <<pending, asked, peer, verdict, failed, admitted>>

\* Admissions of h later than time t.
Since(h, t) == {k \in DOMAIN admitted[h] : admitted[h][k] > t}

Init ==
  /\ pending = {}
  /\ asked = [c \in Callers |-> 0]
  /\ peer = [c \in Callers |-> NoPeer]
  /\ verdict = [c \in Callers |-> "none"]
  /\ failed = FALSE
  /\ admitted = [h \in Hosts |-> <<>>]

Ask(c) ==
  /\ c \notin pending
  /\ pending' = pending \cup {c}
  /\ asked' = [asked EXCEPT ![c] = asked'[c]] /\ asked'[c] \in Nat
  /\ peer' = [peer EXCEPT ![c] = peer'[c]] /\ peer'[c] \in Peers
  /\ verdict' = [verdict EXCEPT ![c] = "none"]
  /\ UNCHANGED <<failed, admitted>>

Done(c) ==
  /\ c \in pending
  /\ pending' = pending \ {c}
  /\ asked' = [asked EXCEPT ![c] = 0]
  /\ peer' = [peer EXCEPT ![c] = NoPeer]

Reply(c, decision) ==
  /\ Done(c)
  /\ verdict' = [verdict EXCEPT ![c] = decision]
  /\ UNCHANGED failed

Unlimited(c) ==
  /\ Reply(c, "Allowed")
  /\ limit = 0
  /\ UNCHANGED admitted

Admit(c) ==
  LET h == peer[c].host IN
  /\ Reply(c, "Allowed")
  /\ limit > 0 /\ ~failed
  /\ Cardinality(Since(h, asked[c] - WINDOW + Slack)) < limit
  /\ admitted' = [admitted EXCEPT ![h] = Append(@, asked[c])]

Limit(c) ==
  /\ Reply(c, "RateLimit")
  /\ limit > 0 /\ ~failed
  /\ Cardinality(Since(peer[c].host, asked[c] - WINDOW - Slack)) >= limit
  /\ UNCHANGED admitted

\* Only an address with nothing inside the window is refused for want of
\* room, and only when max_ips other addresses have been admitted before.
NoRoom(c) ==
  LET h == peer[c].host IN
  /\ Reply(c, "Capacity")
  /\ limit > 0 /\ ~failed
  /\ Since(h, asked[c] - WINDOW + Slack) = {}
  /\ Cardinality({i \in Hosts \ {h} : admitted[i] # <<>>}) >= max_ips
  /\ UNCHANGED admitted

FailClosed(c) ==
  /\ Reply(c, "Unavailable")
  /\ limit > 0 /\ failed
  /\ UNCHANGED admitted

Fail(c) ==
  /\ Done(c)
  /\ failed' = TRUE
  /\ UNCHANGED <<verdict, admitted>>

Next ==
  \E c \in Callers :
    \/ Ask(c) \/ Unlimited(c) \/ Admit(c) \/ Limit(c)
    \/ NoRoom(c) \/ FailClosed(c) \/ Fail(c)

Spec == Init /\ [][Next]_wvars

=============================================================================
