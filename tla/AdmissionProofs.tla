-------------------------- MODULE AdmissionProofs --------------------------
(***************************************************************************)
(* Proofs about RateLimiter, for every set of endpoints and peers and      *)
(* every limit, table size, window and skew, and then about Admission,     *)
(* which is built on it, for every exclusion list and number of permits.   *)
(***************************************************************************)
EXTENDS Admission, FiniteSetTheorems, FunctionTheorems, SequenceTheorems,
        WellFoundedInduction, TLAPS

-----------------------------------------------------------------------------
(* RateLimiter: operators of the model                                     *)

\* The positions and the elements of a sequence of instants.
LEMMA InstantsOf ==
  ASSUME NEW a \in Seq(Nat)
  PROVE  Len(a) \in Nat /\ DOMAIN a = 1..Len(a) /\ \A k \in 1..Len(a) : a[k] \in Nat
OBVIOUS

\* Every non-empty set of positions has a first one, the one expire stops at.
LEMMA FirstExists ==
  ASSUME NEW S \in SUBSET Nat, S # {}
  PROVE  First(S) \in S /\ \A j \in S : First(S) <= j
<1> DEFINE R == {ss \in Nat \X Nat : ss[1] < ss[2]}
<1>0. IsWellFoundedOn(R, Nat)
  BY NatLessThanWellFounded DEF OpToRel
<1>r. \A a, b \in Nat : a < b => <<a, b>> \in R
  OBVIOUS
<1> HIDE DEF R
<1>1. PICK x \in S : \A y \in S : ~ (<<y, x>> \in R)
  BY <1>0, WFMin
<1>2. \A y \in S : x <= y
  <2> SUFFICES ASSUME NEW y \in S, ~(x <= y) PROVE FALSE
    OBVIOUS
  <2>1. x \in Nat /\ y \in Nat /\ y < x
    OBVIOUS
  <2>2. <<y, x>> \in R
    BY <2>1, <1>r
  <2> QED
    BY <2>2, <1>1
<1> QED
  BY <1>2 DEF First

\* What expire does: it removes a prefix, all of it at least WINDOW old.
LEMMA ExpireCutsPrefix ==
  ASSUME NEW w \in Seq(Nat), NEW t \in Nat
  PROVE  /\ expire(w, t) \in Seq(Nat)
         /\ \E c \in 0..Len(w) :
              /\ Len(expire(w, t)) = Len(w) - c
              /\ \A k \in 1..(Len(w) - c) : expire(w, t)[k] = w[c + k]
              /\ \A k \in 1..c : w[k] + WINDOW <= t
<1> USE LimiterAssumption
<1>1. CASE Live(w, t) = {}
  <2>1. expire(w, t) = <<>>
    BY <1>1 DEF expire
  <2>2. \A k \in 1..Len(w) : w[k] + WINDOW <= t
    BY <1>1 DEF Live
  <2> QED
    BY <2>1, <2>2
<1>2. CASE Live(w, t) # {}
  <2> DEFINE f == First(Live(w, t))
  <2>1. Live(w, t) \in SUBSET Nat
    BY DEF Live
  <2>2. f \in Live(w, t) /\ \A j \in Live(w, t) : f <= j
    BY <2>1, <1>2, FirstExists
  <2>3. f \in 1..Len(w)
    BY <2>2 DEF Live
  <2>4. expire(w, t) = SubSeq(w, f, Len(w))
    BY <1>2 DEF expire
  <2> DEFINE m == Len(w)
  <2> HIDE DEF f
  <2>5. /\ expire(w, t) \in Seq(Nat)
        /\ Len(expire(w, t)) = Len(w) - (f - 1)
        /\ \A k \in 1..(Len(w) - (f - 1)) : expire(w, t)[k] = w[(f - 1) + k]
    <3>1. m \in Nat /\ f \in 1..m
      BY <2>3, LenProperties
    <3> HIDE DEF m
    <3>2. SubSeq(w, f, m) \in Seq(Nat)
      BY <3>1, SubSeqProperties DEF m
    <3>3. Len(SubSeq(w, f, m)) = m - (f - 1)
      <4>1. Len(SubSeq(w, f, m)) = IF f <= m THEN m - f + 1 ELSE 0
        BY <3>1, SubSeqProperties DEF m
      <4> QED
        BY <3>1, <4>1
    <3>4. \A k \in 1..(m - f + 1) : SubSeq(w, f, m)[k] = w[f + k - 1]
      BY <3>1, SubSeqProperties DEF m
    <3>5. ASSUME NEW k \in 1..(m - (f - 1))
          PROVE  SubSeq(w, f, m)[k] = w[(f - 1) + k]
      <4>1. k \in 1..(m - f + 1) /\ f + k - 1 = (f - 1) + k
        BY <3>1
      <4> QED
        BY <4>1, <3>4
    <3> QED
      BY <3>2, <3>3, <3>5, <2>4 DEF m
  <2>6. \A k \in 1..(f - 1) : w[k] + WINDOW <= t
    <3> SUFFICES ASSUME NEW k \in 1..(f - 1) PROVE w[k] + WINDOW <= t
      OBVIOUS
    <3>1. k \in 1..Len(w) /\ k \notin Live(w, t)
      BY <2>2, <2>3
    <3> QED
      BY <3>1 DEF Live
  <2>7. f - 1 \in 0..Len(w)
    BY <2>3
  <2> QED
    BY <2>5, <2>6, <2>7
<1> QED
  BY <1>1, <1>2

\* Two canonical addresses of the same host are equal: the two spellings of
\* an IPv4 host share one bucket.
LEMMA OneBucketPerHost ==
  ASSUME NEW ip \in Ips, NEW jp \in Ips, ip.host = jp.host
  PROVE  ip = jp
<1>1. PICK p \in Peers : ip = canonical_ip(p)
  BY DEF Ips
<1>2. PICK q \in Peers : jp = canonical_ip(q)
  BY DEF Ips
<1>3. /\ p \in [family : {"v4", "mapped", "v6"}, host : Hosts]
      /\ q \in [family : {"v4", "mapped", "v6"}, host : Hosts]
  BY PeersAssumption
<1>4. ip.host = p.host /\ jp.host = q.host
  BY <1>1, <1>2, <1>3 DEF canonical_ip
<1>5. p.family = "v6" <=> q.family = "v6"
  BY <1>4, PeersAssumption
<1>6. /\ ip \in [family : {"v4", "v6"}, host : Hosts]
      /\ jp \in [family : {"v4", "v6"}, host : Hosts]
      /\ ip.family = jp.family
  BY <1>1, <1>2, <1>3, <1>5 DEF canonical_ip
<1> QED
  BY <1>6

\* Canonicalisation keeps the host, and yields one of Ips.
LEMMA CanonicalHost ==
  ASSUME NEW p \in Peers
  PROVE  /\ canonical_ip(p) \in Ips
         /\ canonical_ip(p).host = p.host
         /\ p.host \in Hosts
<1>1. p \in [family : {"v4", "mapped", "v6"}, host : Hosts]
  BY PeersAssumption
<1> QED
  BY <1>1 DEF canonical_ip, Ips

-----------------------------------------------------------------------------
(* The inductive invariant                                                 *)

\* Window w holds the most recent admissions of history a, and every older
\* admission had left the window by time t.
RemembersTail(w, a, t) ==
  /\ Len(w) <= Len(a)
  /\ \A k \in 1..Len(w) : w[k] = a[Len(a) - Len(w) + k]
  /\ \A k \in 1..(Len(a) - Len(w)) : a[k] + WINDOW <= t

\* Any limit + 1 consecutive or farther admissions of history a span d.
Span(a, d) ==
  \A i, j \in 1..Len(a) : i + limit <= j => a[j] >= a[i] + d

\* Every pending sample is at most MaxSkew old.
SamplesFresh ==
  /\ \A t \in Tasks : now[t] <= clock
  /\ \A t \in Tasks : pc[t] \in {"check", "evict"} => clock <= now[t] + MaxSkew

CallsHavePeers == \A e \in Endpoints : pc[e] = "check" => peer[e] \in Peers

\* The table forgets nothing that still counts.
TableRemembers ==
  \A ip \in Ips : RemembersTail(Bucket(ip), admitted[ip.host], clock)

TableFinite == IsFiniteSet(DOMAIN map)

IInv ==
  /\ TypeOK
  /\ SamplesFresh
  /\ CallsHavePeers
  /\ TableFinite
  /\ TableRemembers
  /\ MemoryBound
  /\ RateBound

-----------------------------------------------------------------------------
(* Lemmas on windows and histories                                         *)

\* A window that is the tail of a history, the forgotten part of which is older
\* than the window, is so again after expire.
LEMMA ExpireRemembers ==
  ASSUME NEW w \in Seq(Nat), NEW a \in Seq(Nat), NEW t \in Nat, NEW n \in Nat,
         RemembersTail(w, a, t), n <= t
  PROVE  RemembersTail(expire(w, n), a, t)
<1> USE LimiterAssumption
<1> DEFINE x == expire(w, n)
<1>1. x \in Seq(Nat)
  BY ExpireCutsPrefix
<1>2. PICK c \in 0..Len(w) :
        /\ Len(x) = Len(w) - c
        /\ \A k \in 1..(Len(w) - c) : x[k] = w[c + k]
        /\ \A k \in 1..c : w[k] + WINDOW <= n
  BY ExpireCutsPrefix
<1> HIDE DEF x
<1>3. /\ Len(w) \in Nat /\ Len(a) \in Nat /\ Len(w) <= Len(a)
      /\ c \in Nat /\ c <= Len(w)
      /\ Len(x) = Len(w) - c
  BY <1>2 DEF RemembersTail
<1>4. \A k \in 1..Len(x) : x[k] = a[Len(a) - Len(x) + k]
  <2> SUFFICES ASSUME NEW k \in 1..Len(x) PROVE x[k] = a[Len(a) - Len(x) + k]
    OBVIOUS
  <2>1. c + k \in 1..Len(w) /\ x[k] = w[c + k]
    BY <1>2, <1>3
  <2>2. w[c + k] = a[Len(a) - Len(w) + (c + k)]
    BY <2>1 DEF RemembersTail
  <2>3. Len(a) - Len(w) + (c + k) = Len(a) - Len(x) + k
    BY <1>2, <1>3
  <2> QED
    BY <2>1, <2>2, <2>3
<1>5. \A k \in 1..(Len(a) - Len(x)) : a[k] + WINDOW <= t
  <2> SUFFICES ASSUME NEW k \in 1..(Len(a) - Len(x)) PROVE a[k] + WINDOW <= t
    OBVIOUS
  <2>1. CASE k <= Len(a) - Len(w)
    BY <2>1, <1>3 DEF RemembersTail
  <2>2. CASE k > Len(a) - Len(w)
    <3> DEFINE i == k - (Len(a) - Len(w))
    <3>1. i \in 1..c /\ i \in 1..Len(w) /\ Len(a) - Len(w) + i = k
      <4>1. k \in Nat /\ k <= Len(a) - (Len(w) - c)
        BY <1>3
      <4>2. \A p, q \in Nat :
              q <= p /\ c <= q /\ k > p - q /\ k <= p - (q - c)
                => /\ k - (p - q) \in 1..c /\ k - (p - q) \in 1..q
                   /\ p - q + (k - (p - q)) = k
        BY <4>1
      <4> QED
        BY <1>3, <2>2, <4>1, <4>2
    <3> HIDE DEF i
    <3>2. w[i] + WINDOW <= n
      BY <3>1, <1>2, Zenon
    <3>3. w[i] = a[Len(a) - Len(w) + i]
      BY <3>1, Zenon DEF RemembersTail
    <3>4. a[k] = w[i]
      BY <3>1, <3>3
    <3>5. w[i] \in Nat
      BY <3>1, InstantsOf, Zenon
    <3>6. \A x0 \in Nat : x0 + WINDOW <= n => x0 + WINDOW <= t
      OBVIOUS
    <3>7. w[i] + WINDOW <= t
      BY <3>2, <3>5, <3>6, Zenon
    <3> QED
      BY <3>4, <3>7, Zenon
  <2> QED
    BY <2>1, <2>2, <1>3
<1>6. Len(x) <= Len(a)
  BY <1>2, <1>3
<1> QED
  BY <1>4, <1>5, <1>6 DEF RemembersTail, x

\* The same holds after an admission is appended to both.
LEMMA AppendRemembers ==
  ASSUME NEW w \in Seq(Nat), NEW a \in Seq(Nat), NEW t \in Nat, NEW n \in Nat,
         RemembersTail(w, a, t)
  PROVE  RemembersTail(Append(w, n), Append(a, n), t)
<1> DEFINE v == Append(w, n)
           b == Append(a, n)
<1>0. Len(w) \in Nat /\ Len(a) \in Nat /\ Len(w) <= Len(a)
  BY DEF RemembersTail
<1>1. /\ Len(v) = Len(w) + 1
      /\ Len(b) = Len(a) + 1
      /\ v[Len(w) + 1] = n /\ \A k \in 1..Len(w) : v[k] = w[k]
      /\ b[Len(a) + 1] = n /\ \A k \in 1..Len(a) : b[k] = a[k]
  OBVIOUS
<1> HIDE DEF v, b
<1>2. \A k \in 1..Len(v) : v[k] = b[Len(b) - Len(v) + k]
  <2>0. Len(b) - Len(v) = Len(a) - Len(w)
    BY <1>0, <1>1
  <2> SUFFICES ASSUME NEW k \in 1..Len(v)
               PROVE  v[k] = b[Len(a) - Len(w) + k]
    BY <2>0
  <2>1. CASE k = Len(w) + 1
    <3>1. Len(a) - Len(w) + k = Len(a) + 1
      BY <2>1, <1>0
    <3> QED
      BY <2>1, <3>1, <1>1
  <2>2. CASE k \in 1..Len(w)
    <3>1. w[k] = a[Len(a) - Len(w) + k]
      BY <2>2 DEF RemembersTail
    <3>2. Len(a) - Len(w) + k \in 1..Len(a)
      BY <2>2, <1>0
    <3> QED
      BY <3>1, <3>2, <2>2, <1>1
  <2>3. k = Len(w) + 1 \/ k \in 1..Len(w)
    BY <1>0, <1>1
  <2> QED
    BY <2>1, <2>2, <2>3
<1>3. \A k \in 1..(Len(b) - Len(v)) : b[k] + WINDOW <= t
  <2> TAKE k \in 1..(Len(b) - Len(v))
  <2>1. k \in 1..(Len(a) - Len(w)) /\ k \in 1..Len(a)
    BY <1>0, <1>1
  <2> QED
    BY <2>1, <1>1 DEF RemembersTail
<1>4. Len(v) <= Len(b)
  BY <1>0, <1>1
<1>5. RemembersTail(v, b, t)
  BY <1>2, <1>3, <1>4 DEF RemembersTail
<1> QED
  BY <1>5 DEF v, b

\* The same holds when time passes.
LEMMA LaterRemembers ==
  ASSUME NEW w \in Seq(Nat), NEW a \in Seq(Nat), NEW t \in Nat, NEW u \in Nat,
         RemembersTail(w, a, t), t <= u
  PROVE  RemembersTail(w, a, u)
<1> USE LimiterAssumption
<1>1. Len(w) \in Nat /\ Len(a) \in Nat /\ Len(w) <= Len(a)
  BY DEF RemembersTail
<1>2. \A k \in 1..(Len(a) - Len(w)) : a[k] + WINDOW <= u
  <2> TAKE k \in 1..(Len(a) - Len(w))
  <2>1. a[k] \in Nat /\ a[k] + WINDOW <= t
    BY <1>1 DEF RemembersTail
  <2> QED
    BY <2>1
<1> QED
  BY <1>2 DEF RemembersTail

\* The admission step: with fewer than limit remembered admissions, an
\* admission stamped at most MaxSkew ago keeps the rate.
LEMMA AdmissionKeepsSpan ==
  ASSUME NEW w \in Seq(Nat), NEW a \in Seq(Nat), NEW t \in Nat, NEW n \in Nat,
         RemembersTail(w, a, t), Len(w) < limit, t <= n + MaxSkew,
         Span(a, WINDOW - MaxSkew)
  PROVE  Span(Append(a, n), WINDOW - MaxSkew)
<1> USE LimiterAssumption
<1> DEFINE b == Append(a, n)
<1>1. Len(w) \in Nat /\ Len(a) \in Nat /\ Len(w) <= Len(a)
  BY DEF RemembersTail
<1>2. /\ Len(b) = Len(a) + 1
      /\ b[Len(a) + 1] = n
      /\ \A k \in 1..Len(a) : b[k] = a[k] /\ a[k] \in Nat
  BY <1>1
<1> HIDE DEF b
<1>3. SUFFICES ASSUME NEW i \in 1..Len(b), NEW j \in 1..Len(b), i + limit <= j
               PROVE  b[j] >= b[i] + (WINDOW - MaxSkew)
  BY DEF Span, b
<1>4. CASE j \in 1..Len(a)
  <2>1. i \in 1..Len(a)
    BY <1>1, <1>3, <1>4
  <2>2. a[j] >= a[i] + (WINDOW - MaxSkew)
    BY <2>1, <1>3, <1>4 DEF Span
  <2>3. b[j] = a[j] /\ b[i] = a[i]
    BY <2>1, <1>2, <1>4, Zenon
  <2> QED
    BY <2>2, <2>3
<1>5. CASE j = Len(a) + 1
  <2>1. i \in 1..Len(a) /\ i \in 1..(Len(a) - Len(w))
    BY <1>1, <1>2, <1>3, <1>5
  <2>2. a[i] \in Nat /\ a[i] + WINDOW <= t
    BY <2>1, <1>2 DEF RemembersTail
  <2>3. \A x \in Nat : x + WINDOW <= t => n >= x + (WINDOW - MaxSkew)
    OBVIOUS
  <2>4. b[j] = n /\ b[i] = a[i]
    BY <2>1, <1>2, <1>5, Zenon
  <2> QED
    BY <2>2, <2>3, <2>4, Zenon
<1>6. j \in 1..Len(a) \/ j = Len(a) + 1
  BY <1>1, <1>2
<1> QED
  BY <1>4, <1>5, <1>6

-----------------------------------------------------------------------------
(* Facts about one bucket in a state that satisfies the invariant          *)

\* The bucket of an address is a sequence of times, empty if there is none.
LEMMA BucketType ==
  ASSUME TypeOK, NEW ip \in Ips
  PROVE  Bucket(ip) \in Seq(Nat)
BY DEF Bucket, TypeOK

\* What check_at leaves in the bucket after expiry, and how it relates to the
\* history of the host.
LEMMA CheckedWindow ==
  ASSUME IInv, NEW e \in Endpoints, pc[e] = "check"
  PROVE  LET ip == canonical_ip(peer[e])
             w  == expire(Bucket(ip), now[e])
         IN  /\ peer[e] \in Peers
             /\ ip \in Ips /\ ip.host = peer[e].host /\ ip.host \in Hosts
             /\ w \in Seq(Nat)
             /\ Len(w) <= Len(Bucket(ip))
             /\ RemembersTail(w, admitted[ip.host], clock)
             /\ now[e] \in Nat /\ now[e] <= clock /\ clock <= now[e] + MaxSkew
<1> USE LimiterAssumption
<1> DEFINE ip == canonical_ip(peer[e])
           w  == expire(Bucket(ip), now[e])
<1>1. peer[e] \in Peers
  BY DEF IInv, CallsHavePeers
<1>2. ip \in Ips /\ ip.host = peer[e].host /\ ip.host \in Hosts
  BY <1>1, CanonicalHost
<1> HIDE DEF ip
<1>3. now[e] \in Nat /\ now[e] <= clock /\ clock <= now[e] + MaxSkew
  BY DEF IInv, TypeOK, SamplesFresh, Tasks
<1>4. /\ Bucket(ip) \in Seq(Nat) /\ clock \in Nat
      /\ admitted[ip.host] \in Seq(Nat)
      /\ RemembersTail(Bucket(ip), admitted[ip.host], clock)
  BY <1>2, BucketType DEF IInv, TypeOK, TableRemembers
<1>5. w \in Seq(Nat) /\ RemembersTail(w, admitted[ip.host], clock)
  BY <1>3, <1>4, ExpireCutsPrefix, ExpireRemembers
<1>6. Len(w) <= Len(Bucket(ip))
  <2>1. PICK c \in 0..Len(Bucket(ip)) : Len(w) = Len(Bucket(ip)) - c
    BY <1>3, <1>4, ExpireCutsPrefix
  <2>2. Len(Bucket(ip)) \in Nat
    BY <1>4
  <2> QED
    BY <2>1, <2>2
<1> QED
  BY <1>1, <1>2, <1>3, <1>5, <1>6 DEF ip

\* Writing one bucket: the table stays well formed and within its bound.
LEMMA WithBucketProperties ==
  ASSUME TypeOK, TableFinite, MemoryBound, NEW ip \in Ips, NEW u \in Seq(Nat),
         ~Full(ip), Len(u) \in 1..limit,
         NEW m, m = WithBucket(ip, u)
  PROVE  /\ DOMAIN m = DOMAIN map \cup {ip}
         /\ m \in [DOMAIN m -> Seq(Nat)]
         /\ DOMAIN m \subseteq Ips
         /\ IsFiniteSet(DOMAIN m)
         /\ Cardinality(DOMAIN m) <= max_ips
         /\ m[ip] = u
         /\ \A i \in DOMAIN map : i # ip => m[i] = map[i]
         /\ \A i \in DOMAIN m : Len(m[i]) \in 1..limit
<1> USE LimiterAssumption
<1>1. DOMAIN m = DOMAIN map \cup {ip}
  BY DEF WithBucket
<1>2. m[ip] = u /\ \A i \in DOMAIN map : i # ip => m[i] = map[i]
  BY DEF WithBucket
<1>3. m \in [DOMAIN m -> Seq(Nat)]
  BY DEF WithBucket, TypeOK
<1>4. IsFiniteSet(DOMAIN m) /\ Cardinality(DOMAIN m) <= max_ips
  <2>1. CASE ip \in DOMAIN map
    <3>1. DOMAIN m = DOMAIN map
      BY <1>1, <2>1
    <3> QED
      BY <3>1 DEF TableFinite, MemoryBound
  <2>2. CASE ip \notin DOMAIN map
    <3>1. Cardinality(DOMAIN map) \in Nat
      BY FS_CardinalityType DEF TableFinite
    <3>2. Cardinality(DOMAIN map) < max_ips
      BY <2>2, <3>1 DEF Full
    <3>3. /\ IsFiniteSet(DOMAIN map \cup {ip})
          /\ Cardinality(DOMAIN map \cup {ip}) = Cardinality(DOMAIN map) + 1
      BY <2>2, FS_AddElement DEF TableFinite
    <3> QED
      BY <1>1, <3>1, <3>2, <3>3
  <2> QED
    BY <2>1, <2>2
<1>5. \A i \in DOMAIN m : Len(m[i]) \in 1..limit
  BY <1>1, <1>2 DEF MemoryBound
<1>6. DOMAIN m \subseteq Ips
  BY <1>1 DEF TypeOK
<1> QED
  BY <1>1, <1>2, <1>3, <1>4, <1>5, <1>6

-----------------------------------------------------------------------------
(* The invariant is inductive: one lemma per action                        *)

\* The invariant holds initially.
LEMMA InitInv == Init => IInv
<1> SUFFICES ASSUME Init PROVE IInv
  OBVIOUS
<1> USE LimiterAssumption
<1>1. TypeOK
  <2>1. DOMAIN map = {} /\ map \in [DOMAIN map -> Seq(Nat)]
    BY DEF Init
  <2>2. admitted \in [Hosts -> Seq(Nat)]
    BY DEF Init
  <2>3. now \in [Tasks -> Nat] /\ gauge \in Nat /\ clock \in Nat
    BY DEF Init
  <2> QED
    BY <2>1, <2>2, <2>3 DEF Init, TypeOK
<1>2. SamplesFresh /\ CallsHavePeers
  BY DEF Init, SamplesFresh, CallsHavePeers, Tasks
<1>3. TableFinite /\ MemoryBound
  BY FS_EmptySet DEF Init, TableFinite, MemoryBound
<1>4. TableRemembers
  <2> SUFFICES ASSUME NEW ip \in Ips
               PROVE  RemembersTail(Bucket(ip), admitted[ip.host], clock)
    BY DEF TableRemembers
  <2>1. PICK p \in Peers : ip = canonical_ip(p)
    BY DEF Ips
  <2>2. ip.host \in Hosts
    BY <2>1, CanonicalHost
  <2>3. Bucket(ip) = <<>> /\ admitted[ip.host] = <<>>
    BY <2>2 DEF Init, Bucket
  <2> QED
    BY <2>3 DEF RemembersTail
<1>5. RateBound
  BY DEF Init, RateBound, AdmissionsSpan
<1> QED
  BY <1>1, <1>2, <1>3, <1>4, <1>5 DEF IInv

\* Time passing keeps the invariant: samples stay at most MaxSkew old.
LEMMA TickInv == IInv /\ Tick => IInv'
<1> SUFFICES ASSUME IInv, Tick PROVE IInv'
  OBVIOUS
<1> USE LimiterAssumption
<1>1. clock \in Nat /\ clock' = clock + 1 /\ clock' \in Nat
  BY DEF IInv, TypeOK, Tick
<1>2. TypeOK'
  BY <1>1 DEF IInv, TypeOK, Tick
<1>3. SamplesFresh'
  <2>1. \A t \in Tasks : now[t] \in Nat
    BY DEF IInv, TypeOK
  <2> QED
    BY <1>1, <2>1 DEF IInv, SamplesFresh, Tick
<1>4. CallsHavePeers' /\ TableFinite' /\ MemoryBound' /\ RateBound'
  BY DEF IInv, CallsHavePeers, TableFinite, MemoryBound, RateBound,
         AdmissionsSpan, Tick
<1>5. TableRemembers'
  <2> SUFFICES ASSUME NEW ip \in Ips
               PROVE  RemembersTail(Bucket(ip), admitted[ip.host], clock)'
    BY DEF TableRemembers
  <2>1. PICK p \in Peers : ip = canonical_ip(p)
    BY DEF Ips
  <2>2. ip.host \in Hosts
    BY <2>1, CanonicalHost
  <2>3. /\ Bucket(ip) \in Seq(Nat) /\ admitted[ip.host] \in Seq(Nat)
        /\ RemembersTail(Bucket(ip), admitted[ip.host], clock)
    BY <2>2, BucketType DEF IInv, TypeOK, TableRemembers
  <2>4. RemembersTail(Bucket(ip), admitted[ip.host], clock + 1)
    BY <1>1, <2>3, LaterRemembers
  <2> QED
    BY <2>4 DEF Tick, Bucket
<1> QED
  BY <1>2, <1>3, <1>4, <1>5 DEF IInv

\* Steps that touch neither the clock, the table nor the history.
LEMMA TableUntouched ==
  ASSUME IInv, UNCHANGED <<clock, map, admitted>>
  PROVE  TableFinite' /\ TableRemembers' /\ RateBound'
BY DEF IInv, TableFinite, TableRemembers, RateBound, AdmissionsSpan, Bucket,
       RemembersTail

\* A sample of the clock keeps the invariant.
LEMMA CheckInv ==
  ASSUME IInv, NEW e \in Endpoints, NEW ip \in Peers, check(e, ip)
  PROVE  IInv'
<1> USE LimiterAssumption DEF check
<1>1. TypeOK'
  BY DEF IInv, TypeOK, Tasks
<1>2. SamplesFresh'
  BY DEF IInv, TypeOK, SamplesFresh, Tasks
<1>3. CallsHavePeers'
  BY DEF IInv, TypeOK, CallsHavePeers, Tasks
<1>4. MemoryBound'
  BY DEF IInv, MemoryBound
<1> QED
  BY <1>1, <1>2, <1>3, <1>4, TableUntouched DEF IInv

\* A panic inside the critical section keeps the invariant.
LEMMA PoisonInv ==
  ASSUME IInv, NEW e \in Endpoints, Poison(e)
  PROVE  IInv'
<1> USE LimiterAssumption DEF Poison
<1>1. TypeOK'
  BY DEF IInv, TypeOK, Tasks
<1>2. SamplesFresh'
  BY DEF IInv, TypeOK, SamplesFresh, Tasks
<1>3. CallsHavePeers'
  BY DEF IInv, TypeOK, CallsHavePeers, Tasks
<1>4. MemoryBound'
  BY DEF IInv, MemoryBound
<1> QED
  BY <1>1, <1>2, <1>3, <1>4, TableUntouched DEF IInv

\* The sample of the maintenance worker keeps the invariant.
LEMMA EvictIdleInv == IInv /\ evict_idle => IInv'
<1> SUFFICES ASSUME IInv, evict_idle PROVE IInv'
  OBVIOUS
<1> USE LimiterAssumption DEF evict_idle
<1>1. TypeOK'
  BY DEF IInv, TypeOK, Tasks
<1>2. SamplesFresh'
  BY DEF IInv, TypeOK, SamplesFresh, Tasks
<1>3. CallsHavePeers'
  BY DEF IInv, TypeOK, CallsHavePeers, Tasks
<1>4. MemoryBound'
  BY DEF IInv, MemoryBound
<1> QED
  BY <1>1, <1>2, <1>3, <1>4, TableUntouched DEF IInv

\* Publishing the table size keeps the invariant.
LEMMA TrackedIpsInv == IInv /\ tracked_ips => IInv'
<1> SUFFICES ASSUME IInv, tracked_ips PROVE IInv'
  OBVIOUS
<1> USE LimiterAssumption DEF tracked_ips
<1>0. Cardinality(DOMAIN map) \in Nat /\ Cardinality(DOMAIN map) <= max_ips
  BY FS_CardinalityType DEF IInv, TableFinite, MemoryBound
<1>1. TypeOK'
  BY <1>0 DEF IInv, TypeOK, Tasks
<1>2. SamplesFresh'
  BY DEF IInv, TypeOK, SamplesFresh, Tasks
<1>3. CallsHavePeers'
  BY DEF IInv, TypeOK, CallsHavePeers, Tasks
<1>4. MemoryBound'
  BY <1>0 DEF IInv, MemoryBound
<1> QED
  BY <1>1, <1>2, <1>3, <1>4, TableUntouched DEF IInv

\* The sweep keeps the invariant: what it forgets is older than the window.
LEMMA EvictAtInv == IInv /\ evict_at => IInv'
<1> SUFFICES ASSUME IInv, evict_at PROVE IInv'
  OBVIOUS
<1> USE LimiterAssumption
<1> DEFINE n == now[Maintenance]
           swept(ip) == expire(map[ip], n)
           kept == {ip \in DOMAIN map : swept(ip) # <<>>}
<1>0. /\ pc[Maintenance] = "evict"
      /\ map' = IF poisoned THEN map ELSE [ip \in kept |-> swept(ip)]
      /\ UNCHANGED <<clock, poisoned, peer, verdict, gauge, admitted>>
      /\ pc' = [pc EXCEPT ![Maintenance] = "report"]
      /\ now' = [now EXCEPT ![Maintenance] = 0]
  BY DEF evict_at
<1>1. n \in Nat /\ n <= clock /\ clock \in Nat
  BY DEF IInv, TypeOK, SamplesFresh, Tasks
<1>2. \A ip \in DOMAIN map : swept(ip) \in Seq(Nat) /\ Len(swept(ip)) <= Len(map[ip])
  <2> TAKE ip \in DOMAIN map
  <2>1. map[ip] \in Seq(Nat)
    BY DEF IInv, TypeOK
  <2>2. PICK c \in 0..Len(map[ip]) : Len(swept(ip)) = Len(map[ip]) - c
    BY <1>1, <2>1, ExpireCutsPrefix
  <2>3. swept(ip) \in Seq(Nat)
    BY <1>1, <2>1, ExpireCutsPrefix
  <2>4. Len(map[ip]) \in Nat
    BY <2>1
  <2> QED
    BY <2>2, <2>3, <2>4
<1> HIDE DEF n, swept
<1>3. /\ DOMAIN map' \subseteq DOMAIN map
      /\ map' \in [DOMAIN map' -> Seq(Nat)]
  <2>1. CASE poisoned
    BY <1>0, <2>1 DEF IInv, TypeOK
  <2>2. CASE ~poisoned
    BY <1>0, <1>2, <2>2
  <2> QED
    BY <2>1, <2>2
<1>4. TypeOK'
  BY <1>0, <1>3 DEF IInv, TypeOK, Tasks
<1>5. SamplesFresh' /\ CallsHavePeers'
  BY <1>0 DEF IInv, TypeOK, SamplesFresh, CallsHavePeers, Tasks
<1>6. TableFinite'
  BY <1>3, FS_Subset DEF IInv, TableFinite
<1>7. MemoryBound'
  <2>1. Cardinality(DOMAIN map') <= Cardinality(DOMAIN map)
    BY <1>3, FS_Subset DEF IInv, TableFinite
  <2>2. Cardinality(DOMAIN map) \in Nat /\ Cardinality(DOMAIN map') \in Nat
    BY <1>6, FS_CardinalityType DEF IInv, TableFinite
  <2>3. \A ip \in DOMAIN map' : Len(map'[ip]) \in 1..limit
    <3>1. CASE poisoned
      BY <1>0, <3>1 DEF IInv, MemoryBound
    <3>2. CASE ~poisoned
      <4> TAKE ip \in DOMAIN map'
      <4>1. ip \in DOMAIN map /\ map'[ip] = swept(ip) /\ swept(ip) # <<>>
        BY <1>0, <3>2
      <4>2. Len(swept(ip)) \in Nat /\ Len(swept(ip)) # 0 /\ Len(map[ip]) <= limit
        BY <1>2, <4>1 DEF IInv, MemoryBound
      <4>3. Len(swept(ip)) <= Len(map[ip]) /\ Len(map[ip]) \in Nat
        BY <1>2, <4>1 DEF IInv, MemoryBound
      <4> QED
        BY <4>1, <4>2, <4>3
    <3> QED
      BY <3>1, <3>2
  <2>4. max_ips \in Nat /\ Cardinality(DOMAIN map) <= max_ips /\ gauge' <= max_ips
    BY <1>0, LimiterAssumption DEF IInv, MemoryBound
  <2>5. Cardinality(DOMAIN map') <= max_ips
    BY <2>1, <2>2, <2>4
  <2> QED
    BY <2>3, <2>4, <2>5 DEF MemoryBound
<1>8. TableRemembers'
  <2>1. CASE poisoned
    BY <1>0, <2>1, TableUntouched
  <2>2. CASE ~poisoned
    <3> SUFFICES ASSUME NEW ip \in Ips
                 PROVE  RemembersTail(Bucket(ip)', admitted[ip.host], clock)
      BY <1>0 DEF TableRemembers, RemembersTail
    <3>0. RemembersTail(Bucket(ip), admitted[ip.host], clock)
      BY DEF IInv, TableRemembers
    <3>1. PICK p \in Peers : ip = canonical_ip(p)
      BY DEF Ips
    <3>2. admitted[ip.host] \in Seq(Nat)
      BY <3>1, CanonicalHost DEF IInv, TypeOK
    <3>3. CASE ip \notin DOMAIN map
      BY <1>0, <2>2, <3>0, <3>3 DEF Bucket
    <3>4. CASE ip \in DOMAIN map
      <4>1. Bucket(ip) = map[ip] /\ map[ip] \in Seq(Nat)
        BY <3>4 DEF Bucket, IInv, TypeOK
      <4>2. RemembersTail(swept(ip), admitted[ip.host], clock)
        BY <1>1, <3>0, <3>2, <4>1, ExpireRemembers DEF swept
      <4>3. Bucket(ip)' = swept(ip)
        BY <1>0, <2>2, <3>4 DEF Bucket
      <4> QED
        BY <4>2, <4>3
    <3> QED
      BY <3>3, <3>4
  <2> QED
    BY <2>1, <2>2
<1>9. RateBound'
  BY <1>0 DEF IInv, RateBound, AdmissionsSpan
<1> QED
  BY <1>4, <1>5, <1>6, <1>7, <1>8, <1>9 DEF IInv

\* Every answer of check_at leaves the caller idle and the clock alone.
LEMMA AnswerFrame ==
  ASSUME IInv, NEW e \in Endpoints, NEW d, Answer(e, d),
         d \in {"Allowed", "RateLimit", "Capacity", "Unavailable"}
  PROVE  /\ SamplesFresh' /\ CallsHavePeers'
         /\ pc' \in [Tasks -> {"idle", "check", "evict", "report", "dead"}]
         /\ now' \in [Tasks -> Nat]
         /\ peer' \in [Endpoints -> Peers \cup {NoPeer}]
         /\ verdict' \in [Endpoints -> {"none", "Allowed", "RateLimit", "Capacity", "Unavailable"}]
         /\ UNCHANGED <<clock, poisoned, gauge>>
<1> USE LimiterAssumption DEF Answer
<1>1. SamplesFresh'
  BY DEF IInv, TypeOK, SamplesFresh, Tasks
<1>2. CallsHavePeers'
  BY DEF IInv, TypeOK, CallsHavePeers, Tasks
<1> QED
  BY <1>1, <1>2 DEF IInv, TypeOK, Tasks

\* The critical section of check_at keeps the invariant, in each outcome.
LEMMA CheckAtInv ==
  ASSUME IInv, NEW e \in Endpoints, check_at(e)
  PROVE  IInv'
<1> USE LimiterAssumption
<1> DEFINE ip == canonical_ip(peer[e])
           w  == expire(Bucket(ip), now[e])
           a  == admitted[ip.host]
<1>0. pc[e] = "check"
  BY DEF check_at
<1>1. /\ peer[e] \in Peers
      /\ ip \in Ips /\ ip.host = peer[e].host /\ ip.host \in Hosts
      /\ w \in Seq(Nat)
      /\ Len(w) <= Len(Bucket(ip))
      /\ RemembersTail(w, a, clock)
      /\ now[e] \in Nat /\ now[e] <= clock /\ clock <= now[e] + MaxSkew
  BY <1>0, CheckedWindow
<1>2. a \in Seq(Nat) /\ clock \in Nat
  BY <1>1 DEF IInv, TypeOK
<1> HIDE DEF ip, w, a
<1>3. CASE UNCHANGED <<map, admitted>> /\ \E d \in {"Allowed", "Capacity", "Unavailable"} : Answer(e, d)
  <2>1. PICK d \in {"Allowed", "Capacity", "Unavailable"} : Answer(e, d)
    BY <1>3
  <2>2. TypeOK' /\ SamplesFresh' /\ CallsHavePeers'
    BY <1>3, <2>1, AnswerFrame DEF IInv, TypeOK
  <2>3. UNCHANGED <<clock, map, admitted, gauge>>
    BY <1>3, <2>1 DEF Answer
  <2>4. MemoryBound'
    BY <2>3 DEF IInv, MemoryBound
  <2> QED
    BY <2>2, <2>3, <2>4, TableUntouched DEF IInv
\* The two outcomes that write the bucket back.
<1>4. CASE /\ limit > 0 /\ ~Full(ip) /\ Len(w) >= limit
           /\ Answer(e, "RateLimit")
           /\ map' = WithBucket(ip, w)
           /\ admitted' = admitted
  <2>1. Len(w) \in 1..limit
    <3>1. Bucket(ip) \in Seq(Nat) /\ Len(Bucket(ip)) <= limit
      BY <1>1, BucketType DEF IInv, MemoryBound, Bucket
    <3> QED
      BY <1>1, <1>4, <3>1
  <2>2. /\ DOMAIN map' = DOMAIN map \cup {ip}
        /\ map' \in [DOMAIN map' -> Seq(Nat)]
        /\ DOMAIN map' \subseteq Ips
        /\ IsFiniteSet(DOMAIN map')
        /\ Cardinality(DOMAIN map') <= max_ips
        /\ map'[ip] = w
        /\ \A i \in DOMAIN map : i # ip => map'[i] = map[i]
        /\ \A i \in DOMAIN map' : Len(map'[i]) \in 1..limit
    <3>1. TypeOK /\ TableFinite /\ MemoryBound
      BY DEF IInv
    <3>2. map' = WithBucket(ip, w)
      BY <1>4
    <3> QED
      BY <1>1, <1>4, <2>1, <3>1, <3>2, WithBucketProperties
  <2>3. TypeOK' /\ SamplesFresh' /\ CallsHavePeers' /\ UNCHANGED <<clock, gauge>>
    BY <1>4, <2>2, AnswerFrame DEF IInv, TypeOK
  <2>4. TableFinite' /\ MemoryBound'
    BY <2>2, <2>3 DEF IInv, TableFinite, MemoryBound
  <2>5. TableRemembers'
    <3> SUFFICES ASSUME NEW i \in Ips
                 PROVE  RemembersTail(Bucket(i)', admitted[i.host], clock)
      BY <1>4, <2>3 DEF TableRemembers, RemembersTail
    <3>1. CASE i = ip
      BY <1>1, <2>2, <3>1 DEF Bucket, a
    <3>2. CASE i # ip
      BY <2>2, <3>2 DEF IInv, TableRemembers, Bucket
    <3> QED
      BY <3>1, <3>2
  <2>6. RateBound'
    BY <1>4 DEF IInv, RateBound, AdmissionsSpan
  <2> QED
    BY <2>3, <2>4, <2>5, <2>6 DEF IInv
<1>5. CASE /\ limit > 0 /\ ~Full(ip) /\ Len(w) < limit
           /\ Answer(e, "Allowed")
           /\ map' = WithBucket(ip, Append(w, now[e]))
           /\ admitted' = [admitted EXCEPT ![peer[e].host] = Append(@, now[e])]
  <2> DEFINE v == Append(w, now[e])
             b == Append(a, now[e])
  <2>1. v \in Seq(Nat) /\ Len(v) \in 1..limit
    BY <1>1, <1>5
  <2>2. /\ DOMAIN map' = DOMAIN map \cup {ip}
        /\ map' \in [DOMAIN map' -> Seq(Nat)]
        /\ DOMAIN map' \subseteq Ips
        /\ IsFiniteSet(DOMAIN map')
        /\ Cardinality(DOMAIN map') <= max_ips
        /\ map'[ip] = v
        /\ \A i \in DOMAIN map : i # ip => map'[i] = map[i]
        /\ \A i \in DOMAIN map' : Len(map'[i]) \in 1..limit
    <3>1. TypeOK /\ TableFinite /\ MemoryBound
      BY DEF IInv
    <3> HIDE DEF v, b
    <3>2. map' = WithBucket(ip, v)
      BY <1>5 DEF v
    <3>3. ip \in Ips /\ ~Full(ip)
      BY <1>1, <1>5
    <3> QED
      BY <1>5, <2>1, <3>1, <3>2, <3>3, WithBucketProperties
  <2>3. /\ admitted' \in [Hosts -> Seq(Nat)]
        /\ admitted'[ip.host] = b
        /\ \A h \in Hosts : h # ip.host => admitted'[h] = admitted[h]
    <3>1. admitted \in [Hosts -> Seq(Nat)] /\ b \in Seq(Nat)
      BY <1>1, <1>2 DEF IInv, TypeOK
    <3>2. ip.host \in Hosts /\ peer[e].host = ip.host /\ a = admitted[ip.host]
      BY <1>1, <1>2 DEF a
    <3> HIDE DEF a, b, ip
    <3>3. admitted' = [admitted EXCEPT ![ip.host] = b]
      BY <1>5, <3>2 DEF b
    <3> QED
      BY <3>1, <3>2, <3>3
  <2>4. TypeOK' /\ SamplesFresh' /\ CallsHavePeers' /\ UNCHANGED <<clock, gauge>>
    BY <1>5, <2>2, <2>3, AnswerFrame DEF IInv, TypeOK
  <2>5. TableFinite' /\ MemoryBound'
    BY <2>2, <2>4 DEF IInv, TableFinite, MemoryBound
  <2>6. RemembersTail(v, b, clock)
    BY <1>1, <1>2, AppendRemembers
  <2>7. TableRemembers'
    <3> SUFFICES ASSUME NEW i \in Ips
                 PROVE  RemembersTail(Bucket(i)', admitted'[i.host], clock)
      BY <2>4 DEF TableRemembers, RemembersTail
    <3>1. CASE i = ip
      BY <2>6, <2>2, <2>3, <3>1 DEF Bucket
    <3>2. CASE i # ip
      <4>1. i.host # ip.host
        BY <1>1, <3>2, OneBucketPerHost
      <4>2. i.host \in Hosts
        BY CanonicalHost DEF Ips
      <4>3. admitted'[i.host] = admitted[i.host] /\ Bucket(i)' = Bucket(i)
        BY <2>2, <2>3, <3>2, <4>1, <4>2 DEF Bucket
      <4> QED
        BY <4>3 DEF IInv, TableRemembers
    <3> QED
      BY <3>1, <3>2
  <2>8. RateBound'
    <3>1. \A h \in Hosts : Span(admitted[h], WINDOW - MaxSkew)
      BY <1>5 DEF IInv, RateBound, AdmissionsSpan, Span
    <3>2. Span(b, WINDOW - MaxSkew)
      <4>1. Span(a, WINDOW - MaxSkew)
        BY <1>1, <3>1 DEF a
      <4> QED
        BY <1>1, <1>2, <1>5, <4>1, AdmissionKeepsSpan
    <3> HIDE DEF b
    <3>3. \A h \in Hosts : Span(admitted'[h], WINDOW - MaxSkew)
      BY <2>3, <3>1, <3>2
    <3> QED
      BY <3>3 DEF RateBound, AdmissionsSpan, Span
  <2> QED
    BY <2>4, <2>5, <2>7, <2>8 DEF IInv
<1>6. EarlyDecision \in {"Allowed", "Capacity", "Unavailable"}
  BY DEF EarlyDecision
<1> QED
  BY <1>1, <1>3, <1>4, <1>5, <1>6 DEF check_at, Early, Disabled, ip, w

-----------------------------------------------------------------------------

\* The limiter's invariant holds in every reachable state.
THEOREM LimiterInvariant == Spec => []IInv
<1>1. IInv /\ [Next]_vars => IInv'
  <2> SUFFICES ASSUME IInv, [Next]_vars PROVE IInv'
    OBVIOUS
  <2>1. CASE Tick
    BY <2>1, TickInv
  <2>2. CASE \E e \in Endpoints : \E ip \in Peers : check(e, ip)
    BY <2>2, CheckInv
  <2>3. CASE \E e \in Endpoints : check_at(e)
    BY <2>3, CheckAtInv
  <2>4. CASE \E e \in Endpoints : Poison(e)
    BY <2>4, PoisonInv
  <2>5. CASE evict_idle \/ evict_at \/ tracked_ips
    BY <2>5, EvictIdleInv, EvictAtInv, TrackedIpsInv
  <2>6. CASE UNCHANGED vars
    <3>1. UNCHANGED <<clock, map, admitted>>
      BY <2>6 DEF vars
    <3>2. TypeOK' /\ SamplesFresh' /\ CallsHavePeers' /\ MemoryBound'
      BY <2>6 DEF vars, IInv, TypeOK, SamplesFresh, CallsHavePeers, MemoryBound
    <3> QED
      BY <3>1, <3>2, TableUntouched DEF IInv
  <2> QED
    BY <2>1, <2>2, <2>3, <2>4, <2>5, <2>6 DEF Next
<1> QED
  BY InitInv, <1>1, PTL DEF Spec

\* Type correctness of the limiter, for every value of its constants.
THEOREM LimiterTypeCorrect == Spec => []TypeOK
BY LimiterInvariant, PTL DEF IInv

\* ratelimit.rs keeps at most max_ips buckets of at most limit times each.
THEOREM LimiterMemoryBounded == Spec => []MemoryBound
BY LimiterInvariant, PTL DEF IInv

\* Any limit + 1 admissions of one host span at least WINDOW - MaxSkew,
\* whatever the interleaving of endpoints, maintenance and clock.
THEOREM LimiterRateBounded == Spec => []RateBound
BY LimiterInvariant, PTL DEF IInv

\* The window is exact when nothing can come between the sample and the lock.
THEOREM LimiterExactWithoutSkew == MaxSkew = 0 => (Spec => []ExactRate)
<1> SUFFICES ASSUME MaxSkew = 0 PROVE Spec => []ExactRate
  OBVIOUS
<1>1. RateBound => ExactRate
  BY LimiterAssumption DEF RateBound, ExactRate
<1> QED
  BY <1>1, LimiterRateBounded, PTL

-----------------------------------------------------------------------------
(* RateLimiter implements SlidingWindow for every value of its constants:  *)
(* the bounded, evicted table answers as the unbounded history would.      *)

\* Admissions of one host are in order up to MaxSkew, and none is stamped
\* with a time to come.
NearlyOrdered(a, t) ==
  /\ \A i \in 1..Len(a) : a[i] <= t
  /\ \A i, j \in 1..Len(a) : i <= j => a[i] <= a[j] + MaxSkew

Known == {h \in Hosts : admitted[h] # <<>>}

\* What the refinement needs of the history beyond the limiter's invariant.
HistoryInv ==
  /\ \A h \in Hosts : NearlyOrdered(admitted[h], clock)
  /\ IsFiniteSet(Known)

-----------------------------------------------------------------------------
(* The history's invariant                                                 *)

\* A sample that is at most MaxSkew old extends a nearly ordered history.
LEMMA AppendNearlyOrdered ==
  ASSUME NEW a \in Seq(Nat), NEW t \in Nat, NEW n \in Nat,
         NearlyOrdered(a, t), n <= t, t <= n + MaxSkew
  PROVE  NearlyOrdered(Append(a, n), t)
<1> USE LimiterAssumption
<1> DEFINE b == Append(a, n)
<1>1. /\ Len(a) \in Nat /\ Len(b) = Len(a) + 1
      /\ b[Len(a) + 1] = n
      /\ \A i \in 1..Len(a) : b[i] = a[i] /\ a[i] \in Nat
  OBVIOUS
<1> HIDE DEF b
<1>2. \A i \in 1..Len(b) : b[i] \in Nat /\ b[i] <= t
  <2> TAKE i \in 1..Len(b)
  <2>1. i \in 1..Len(a) \/ i = Len(a) + 1
    BY <1>1
  <2> QED
    BY <2>1, <1>1 DEF NearlyOrdered
<1>3. \A i, j \in 1..Len(b) : i <= j => b[i] <= b[j] + MaxSkew
  <2> SUFFICES ASSUME NEW i \in 1..Len(b), NEW j \in 1..Len(b), i <= j
               PROVE  b[i] <= b[j] + MaxSkew
    OBVIOUS
  <2>1. CASE j = Len(a) + 1
    BY <2>1, <1>1, <1>2
  <2>2. CASE j \in 1..Len(a)
    <3>1. i \in 1..Len(a)
      BY <2>2, <1>1
    <3> QED
      BY <2>2, <3>1, <1>1 DEF NearlyOrdered
  <2> QED
    BY <2>1, <2>2, <1>1
<1> QED
  BY <1>2, <1>3 DEF NearlyOrdered, b

\* The admission in check_at, the one step that writes the history.
LEMMA AdmissionKeepsHistory ==
  ASSUME IInv, HistoryInv, NEW e \in Endpoints, pc[e] = "check",
         admitted' = [admitted EXCEPT ![peer[e].host] = Append(@, now[e])],
         clock' = clock
  PROVE  HistoryInv'
<1> DEFINE h == peer[e].host
<1>1. /\ h \in Hosts
      /\ now[e] \in Nat /\ now[e] <= clock /\ clock <= now[e] + MaxSkew
  BY CheckedWindow
<1>2. admitted \in [Hosts -> Seq(Nat)] /\ clock \in Nat
  BY DEF IInv, TypeOK
<1> HIDE DEF h
<1>3. /\ admitted'[h] = Append(admitted[h], now[e])
      /\ \A g \in Hosts : g # h => admitted'[g] = admitted[g]
  BY <1>1, <1>2 DEF h
<1>4. NearlyOrdered(Append(admitted[h], now[e]), clock)
  BY <1>1, <1>2, AppendNearlyOrdered DEF HistoryInv
<1>5. \A g \in Hosts : NearlyOrdered(admitted'[g], clock)
  BY <1>3, <1>4 DEF HistoryInv
<1>6. IsFiniteSet(Known')
  <2>1. IsFiniteSet(Known \cup {h})
    BY FS_AddElement DEF HistoryInv
  <2>2. Known' \subseteq Known \cup {h}
    BY <1>3 DEF Known
  <2> QED
    BY <2>1, <2>2, FS_Subset
<1> QED
  BY <1>5, <1>6 DEF HistoryInv, NearlyOrdered

\* Every step keeps the history's invariant: all but the admission leave the
\* history alone, and the clock does not run backwards.
LEMMA HistoryKept ==
  ASSUME IInv, HistoryInv, [Next]_vars
  PROVE  HistoryInv'
<1> USE LimiterAssumption
<1>1. CASE admitted' = admitted /\ clock' \in {clock, clock + 1}
  <2>1. \A h \in Hosts : NearlyOrdered(admitted[h], clock')
    <3> SUFFICES ASSUME NEW h \in Hosts PROVE NearlyOrdered(admitted[h], clock')
      OBVIOUS
    <3>0. /\ clock \in Nat /\ clock <= clock' /\ clock' \in Nat
          /\ admitted[h] \in Seq(Nat)
      BY <1>1 DEF IInv, TypeOK
    <3>1. /\ clock \in Nat /\ clock <= clock' /\ clock' \in Nat
          /\ \A i \in 1..Len(admitted[h]) : admitted[h][i] \in Nat
          /\ NearlyOrdered(admitted[h], clock)
      BY <3>0, InstantsOf DEF HistoryInv
    <3> QED
      BY <3>1 DEF NearlyOrdered
  <2> QED
    BY <1>1, <2>1 DEF HistoryInv, NearlyOrdered, Known
<1>2. CASE \E e \in Endpoints :
             /\ pc[e] = "check" /\ clock' = clock
             /\ admitted' = [admitted EXCEPT ![peer[e].host] = Append(@, now[e])]
  BY <1>2, AdmissionKeepsHistory
<1>3. CASE \E e \in Endpoints : check_at(e)
  BY <1>1, <1>2, <1>3 DEF check_at, Answer
<1>4. CASE Tick \/ evict_idle \/ evict_at \/ tracked_ips \/ UNCHANGED vars
           \/ \E e \in Endpoints : Poison(e) \/ \E ip \in Peers : check(e, ip)
  BY <1>1, <1>4 DEF Tick, evict_idle, evict_at, tracked_ips, Poison, check, vars
<1> QED
  BY <1>3, <1>4 DEF Next

-----------------------------------------------------------------------------
(* Counting admissions in the window                                       *)

\* expire stops at a time inside the window.
LEMMA ExpireStartsLive ==
  ASSUME NEW w \in Seq(Nat), NEW t \in Nat, Len(expire(w, t)) > 0
  PROVE  t - expire(w, t)[1] < WINDOW
<1>1. Live(w, t) # {} /\ Live(w, t) \in SUBSET Nat
  BY DEF Live, expire
<1> DEFINE f == First(Live(w, t))
<1>2. f \in Live(w, t) /\ f \in 1..Len(w)
  BY <1>1, FirstExists DEF Live
<1>3. expire(w, t) = SubSeq(w, f, Len(w))
  BY <1>1 DEF expire
<1> HIDE DEF f
<1>4. expire(w, t)[1] = w[f]
  BY <1>2, <1>3
<1> QED
  BY <1>2, <1>4 DEF Live

\* The number of positions after the n-th.
LEMMA TailSize ==
  ASSUME NEW n \in Nat, NEW m \in Nat, n <= m
  PROVE  IsFiniteSet((n + 1)..m) /\ Cardinality((n + 1)..m) = m - n
<1>1. n + 1 \in Int /\ m \in Int
  OBVIOUS
<1>2. /\ IsFiniteSet((n + 1)..m)
      /\ Cardinality((n + 1)..m) = IF n + 1 > m THEN 0 ELSE m - (n + 1) + 1
  BY <1>1, FS_Interval
<1>3. CASE n = m
  BY <1>2, <1>3
<1>4. CASE n < m
  <2>1. ~(n + 1 > m) /\ m - (n + 1) + 1 = m - n
    BY <1>4
  <2> QED
    BY <1>2, <2>1
<1> QED
  BY <1>3, <1>4

\* At most the remembered admissions are later than a time that the forgotten
\* ones precede.
LEMMA LateOnesRemembered ==
  ASSUME NEW w \in Seq(Nat), NEW a \in Seq(Nat), NEW t \in Nat, NEW s \in Int,
         RemembersTail(w, a, t), t <= s + WINDOW
  PROVE  LET late == {k \in DOMAIN a : a[k] > s}
         IN  /\ IsFiniteSet(late)
             /\ Cardinality(late) <= Len(w)
             /\ Len(w) = 0 => late = {}
<1> USE LimiterAssumption
<1> DEFINE late == {k \in DOMAIN a : a[k] > s}
           p == Len(a) - Len(w)
<1>1. /\ Len(w) \in Nat /\ Len(a) \in Nat /\ Len(w) <= Len(a)
      /\ \A k \in 1..p : a[k] + WINDOW <= t
      /\ DOMAIN a = 1..Len(a)
      /\ \A k \in 1..Len(a) : a[k] \in Nat
  BY DEF RemembersTail
<1>2. p \in Nat /\ p + Len(w) = Len(a) /\ p <= Len(a) /\ Len(a) - p = Len(w)
  BY <1>1
<1> HIDE DEF p
<1>3. late \subseteq (p + 1)..Len(a)
  <2> SUFFICES ASSUME NEW k \in 1..Len(a), a[k] > s PROVE k \in (p + 1)..Len(a)
    BY <1>1
  <2>1. k \notin 1..p
    BY <1>1
  <2> QED
    BY <1>1, <1>2, <2>1
<1>4. /\ IsFiniteSet((p + 1)..Len(a))
      /\ Cardinality((p + 1)..Len(a)) = Len(w)
  BY <1>1, <1>2, TailSize
<1>5. IsFiniteSet(late) /\ Cardinality(late) <= Len(w)
  BY <1>3, <1>4, FS_Subset
<1>6. Len(w) = 0 => late = {}
  BY <1>1, <1>2, <1>3
<1> QED
  BY <1>5, <1>6

\* All the remembered admissions are later than a time MaxSkew before the
\* first of them.
LEMMA RememberedOnesLate ==
  ASSUME NEW w \in Seq(Nat), NEW a \in Seq(Nat), NEW t \in Nat, NEW s \in Int,
         RemembersTail(w, a, t), NearlyOrdered(a, t), Len(w) > 0,
         w[1] - MaxSkew > s
  PROVE  Cardinality({k \in DOMAIN a : a[k] > s}) >= Len(w)
<1> USE LimiterAssumption
<1> DEFINE late == {k \in DOMAIN a : a[k] > s}
           p == Len(a) - Len(w)
<1>1. /\ Len(w) \in Nat /\ Len(a) \in Nat /\ Len(w) <= Len(a)
      /\ \A k \in 1..Len(w) : w[k] = a[p + k]
      /\ DOMAIN a = 1..Len(a)
      /\ \A k \in 1..Len(a) : a[k] \in Nat
  <2>1. Len(w) <= Len(a) /\ \A k \in 1..Len(w) : w[k] = a[p + k]
    BY DEF RemembersTail
  <2>2. /\ Len(w) \in Nat /\ Len(a) \in Nat
        /\ DOMAIN a = 1..Len(a) /\ \A k \in 1..Len(a) : a[k] \in Nat
    BY InstantsOf, Zenon
  <2> QED
    BY <2>1, <2>2
<1>2. p \in Nat /\ p + Len(w) = Len(a) /\ p <= Len(a) /\ Len(a) - p = Len(w)
  BY <1>1
<1> HIDE DEF p
<1>3. a[p + 1] = w[1] /\ p + 1 \in 1..Len(a)
  <2>1. 1 \in 1..Len(w)
    BY <1>1
  <2>2. w[1] = a[p + 1]
    BY <1>1, <2>1
  <2>3. p + 1 \in 1..Len(a)
    <3> DEFINE m == Len(w)
               n == Len(a)
    <3>1. m \in Nat /\ n \in Nat /\ m > 0 /\ p \in Nat /\ p + m = n
      BY <1>1, <1>2
    <3> HIDE DEF m, n
    <3>2. p + 1 \in 1..n
      BY <3>1
    <3> QED
      BY <3>2 DEF n
  <2> QED
    BY <2>2, <2>3
<1>4. (p + 1)..Len(a) \subseteq late
  <2> SUFFICES ASSUME NEW k \in (p + 1)..Len(a) PROVE k \in 1..Len(a) /\ a[k] > s
    BY <1>1
  <2>1. k \in 1..Len(a) /\ p + 1 <= k
    BY <1>2
  <2>2. a[p + 1] <= a[k] + MaxSkew
    BY <1>3, <2>1 DEF NearlyOrdered
  <2>3. w[1] <= a[k] + MaxSkew /\ w[1] \in Nat /\ a[k] \in Nat
    BY <1>1, <1>3, <2>1, <2>2
  <2>4. \A x, y \in Nat : x <= y + MaxSkew /\ x - MaxSkew > s => y > s
    OBVIOUS
  <2> QED
    BY <2>1, <2>3, <2>4
<1>5. IsFiniteSet(late) /\ Cardinality(late) \in Nat
  <2>1. late \subseteq 1..Len(a) /\ IsFiniteSet(1..Len(a))
    BY <1>1, FS_Interval
  <2> QED
    BY <2>1, FS_Subset, FS_CardinalityType
<1>6. Cardinality((p + 1)..Len(a)) = Len(w)
  BY <1>1, <1>2, TailSize
<1>7. Cardinality((p + 1)..Len(a)) <= Cardinality(late)
  <2> HIDE DEF late
  <2> QED
    BY <1>4, <1>5, FS_Subset, Zenon
<1>8. Len(w) <= Cardinality(late)
  BY <1>6, <1>7
<1> QED
  BY <1>1, <1>5, <1>8

\* A full table stands for as many other hosts that have been admitted.
LEMMA FullTableHosts ==
  ASSUME IInv, HistoryInv, NEW ip \in Ips, Full(ip)
  PROVE  Cardinality({i \in Hosts \ {ip.host} : admitted[i] # <<>>}) >= max_ips
<1> USE LimiterAssumption
<1> DEFINE others == {i \in Hosts \ {ip.host} : admitted[i] # <<>>}
           f == [jp \in DOMAIN map |-> jp.host]
<1>1. IsFiniteSet(others)
  <2>1. others \subseteq Known
    BY DEF Known
  <2> QED
    BY <2>1, FS_Subset DEF HistoryInv
<1>2. DOMAIN map \subseteq Ips /\ IsFiniteSet(DOMAIN map)
  BY DEF IInv, TypeOK, TableFinite
<1>3. ASSUME NEW jp \in DOMAIN map PROVE jp.host \in others
  <2>1. jp \in Ips /\ jp.host \in Hosts
    BY <1>2, CanonicalHost DEF Ips
  <2>2. jp.host # ip.host
    BY <2>1, OneBucketPerHost DEF Full
  <2>3. /\ Len(map[jp]) \in 1..limit
        /\ RemembersTail(map[jp], admitted[jp.host], clock)
    BY <2>1 DEF IInv, MemoryBound, TableRemembers, Bucket
  <2>4. Len(admitted[jp.host]) # 0
    BY <2>1, <2>3 DEF RemembersTail, IInv, TypeOK
  <2> QED
    BY <2>1, <2>2, <2>4, EmptySeq
<1>4. f \in Injection(DOMAIN map, others)
  <2>1. f \in [DOMAIN map -> others]
    BY <1>3
  <2>2. \A jp, kp \in DOMAIN map : f[jp] = f[kp] => jp = kp
    BY <1>2, OneBucketPerHost
  <2> QED
    BY <2>1, <2>2, Fun_IsInj
<1>5. Cardinality(DOMAIN map) <= Cardinality(others)
  BY <1>1, <1>2, <1>4, FS_Injection DEF ExistsInjection
<1> QED
  BY <1>1, <1>2, <1>5, FS_CardinalityType DEF Full
-----------------------------------------------------------------------------
(* Every step is a step of SlidingWindow, or leaves what it sees alone     *)

Pending == {e \in Endpoints : pc[e] = "check"}

Asked == [e \in Endpoints |-> now[e]]

\* What SlidingWindow sees of the limiter.
seen == <<Pending, Asked, peer, verdict, poisoned, admitted>>

\* The tick and the maintenance worker are not seen.
LEMMA UnseenSteps ==
  ASSUME IInv, Tick \/ evict_idle \/ evict_at \/ tracked_ips \/ UNCHANGED vars
  PROVE  UNCHANGED seen
<1> USE LimiterAssumption
<1>1. /\ \A e \in Endpoints : pc'[e] = pc[e] /\ now'[e] = now[e]
      /\ UNCHANGED <<peer, verdict, poisoned, admitted>>
  BY DEF Tick, evict_idle, evict_at, tracked_ips, vars, IInv, TypeOK, Tasks
<1>2. Pending' = Pending /\ Asked' = Asked
  BY <1>1 DEF Pending, Asked
<1> QED
  BY <1>1, <1>2 DEF seen

\* An answer takes the caller off the pending ones and clears its question.
LEMMA AnswerIsReply ==
  ASSUME IInv, NEW e \in Endpoints, NEW d, pc[e] = "check", Answer(e, d)
  PROVE  Window!Reply(e, d)
<1> USE LimiterAssumption
<1>1. /\ pc' = [pc EXCEPT ![e] = "idle"]
      /\ now' = [now EXCEPT ![e] = 0]
      /\ peer' = [peer EXCEPT ![e] = NoPeer]
      /\ verdict' = [verdict EXCEPT ![e] = d]
      /\ poisoned' = poisoned
  BY DEF Answer
<1>2. e \in Pending /\ Pending' = Pending \ {e}
  BY <1>1 DEF Pending, IInv, TypeOK, Tasks
<1>3. Asked' = [Asked EXCEPT ![e] = 0]
  BY <1>1 DEF Asked, IInv, TypeOK, Tasks
<1> QED
  BY <1>1, <1>2, <1>3 DEF Window!Reply, Window!Done, Pending, Asked

\* A sample of the clock is a question.
LEMMA CheckIsAsk ==
  ASSUME IInv, NEW e \in Endpoints, NEW ip \in Peers, check(e, ip)
  PROVE  Window!Ask(e)
<1> USE LimiterAssumption
<1>1. /\ pc[e] = "idle"
      /\ pc' = [pc EXCEPT ![e] = "check"]
      /\ now' = [now EXCEPT ![e] = clock]
      /\ peer' = [peer EXCEPT ![e] = ip]
      /\ verdict' = [verdict EXCEPT ![e] = "none"]
      /\ UNCHANGED <<poisoned, admitted>>
  BY DEF check
<1>2. e \notin Pending /\ Pending' = Pending \cup {e}
  BY <1>1 DEF Pending, IInv, TypeOK, Tasks
<1>3. Asked' = [Asked EXCEPT ![e] = clock] /\ Asked'[e] = clock /\ clock \in Nat
  BY <1>1 DEF Asked, IInv, TypeOK, Tasks
<1>4. peer'[e] = ip
  BY <1>1 DEF IInv, TypeOK
<1> QED
  BY <1>1, <1>2, <1>3, <1>4 DEF Window!Ask, Pending, Asked

\* A panic under the mutex is the one failure.
LEMMA PoisonIsFail ==
  ASSUME IInv, NEW e \in Endpoints, Poison(e)
  PROVE  Window!Fail(e)
<1> USE LimiterAssumption
<1>1. /\ pc[e] = "check"
      /\ pc' = [pc EXCEPT ![e] = "dead"]
      /\ now' = [now EXCEPT ![e] = 0]
      /\ peer' = [peer EXCEPT ![e] = NoPeer]
      /\ poisoned' = TRUE
      /\ UNCHANGED <<verdict, admitted>>
  BY DEF Poison
<1>2. e \in Pending /\ Pending' = Pending \ {e}
  BY <1>1 DEF Pending, IInv, TypeOK, Tasks
<1>3. Asked' = [Asked EXCEPT ![e] = 0]
  BY <1>1 DEF Asked, IInv, TypeOK, Tasks
<1> QED
  BY <1>1, <1>2, <1>3 DEF Window!Fail, Window!Done, Pending, Asked
\* SlidingWindow counts with the same operator.
LEMMA SameCount == \A S : Window!Cardinality(S) = Cardinality(S)
  BY DEF Window!Cardinality, Cardinality

\* The critical section gives one of the answers of SlidingWindow.
LEMMA CheckAtIsAnswer ==
  ASSUME IInv, HistoryInv, NEW e \in Endpoints, check_at(e)
  PROVE  \/ Window!Unlimited(e) \/ Window!Admit(e) \/ Window!Limit(e)
         \/ Window!NoRoom(e) \/ Window!FailClosed(e)
<1> USE LimiterAssumption
<1> DEFINE ip == canonical_ip(peer[e])
           h  == peer[e].host
           w  == expire(Bucket(ip), now[e])
           a  == admitted[h]
<1>1. pc[e] = "check"
  BY DEF check_at
<1>2. /\ ip \in Ips /\ ip.host = h /\ h \in Hosts
      /\ w \in Seq(Nat)
      /\ RemembersTail(w, a, clock)
      /\ now[e] \in Nat /\ now[e] <= clock /\ clock <= now[e] + MaxSkew
  BY <1>1, CheckedWindow
<1>3. /\ a \in Seq(Nat) /\ clock \in Nat
      /\ NearlyOrdered(a, clock)
      /\ Asked[e] = now[e]
  BY <1>2 DEF IInv, TypeOK, HistoryInv, Asked
<1> DEFINE late(s) == {k \in DOMAIN a : a[k] > s}
<1>4. \A s : Window!Since(h, s) = late(s)
  BY DEF Window!Since
<1>5. /\ now[e] - WINDOW + MaxSkew \in Int
      /\ now[e] - WINDOW - MaxSkew \in Int
      /\ clock <= (now[e] - WINDOW + MaxSkew) + WINDOW
  BY <1>2, <1>3
<1>6. \A d : Answer(e, d) => Window!Reply(e, d)
  BY <1>1, AnswerIsReply
<1>7. \/ /\ Early(ip)
         /\ Answer(e, EarlyDecision)
         /\ UNCHANGED <<map, admitted>>
      \/ /\ ~Early(ip)
         /\ Len(w) >= limit
         /\ Answer(e, "RateLimit")
         /\ UNCHANGED admitted
      \/ /\ ~Early(ip)
         /\ Len(w) < limit
         /\ Answer(e, "Allowed")
         /\ admitted' = [admitted EXCEPT ![h] = Append(@, now[e])]
  BY DEF check_at
<1> HIDE DEF ip, h, w, a
<1>8. CASE Early(ip) /\ Answer(e, EarlyDecision) /\ UNCHANGED <<map, admitted>>
  <2>1. CASE limit = 0
    <3>1. EarlyDecision = "Allowed"
      BY <2>1 DEF EarlyDecision, Disabled
    <3> QED
      BY <1>6, <1>8, <2>1, <3>1 DEF Window!Unlimited
  <2>2. CASE limit > 0 /\ poisoned
    <3>1. EarlyDecision = "Unavailable"
      BY <2>2 DEF EarlyDecision, Disabled
    <3> QED
      BY <1>6, <1>8, <2>2, <3>1 DEF Window!FailClosed
  <2>3. CASE limit > 0 /\ ~poisoned
    <3>1. EarlyDecision = "Capacity" /\ Full(ip)
      BY <1>8, <2>3 DEF EarlyDecision, Early, Disabled
    <3>2. RemembersTail(<<>>, a, clock) /\ <<>> \in Seq(Nat) /\ Len(<<>>) = 0
      <4>1. Bucket(ip) = <<>>
        BY <3>1 DEF Full, Bucket
      <4>2. RemembersTail(Bucket(ip), admitted[ip.host], clock)
        BY <1>2 DEF IInv, TableRemembers
      <4> QED
        BY <1>2, <4>1, <4>2, EmptySeq DEF a
    <3>3. late(now[e] - WINDOW + MaxSkew) = {}
      BY <1>3, <1>5, <3>2, LateOnesRemembered
    <3>4. Cardinality({i \in Hosts \ {h} : admitted[i] # <<>>}) >= max_ips
      BY <1>2, <3>1, FullTableHosts
    <3>5. Window!Since(h, Asked[e] - WINDOW + MaxSkew) = {}
      BY <1>3, <1>4, <3>3
    <3> QED
      BY <1>6, <1>8, <2>3, <3>1, <3>4, <3>5, SameCount DEF Window!NoRoom, Asked, h
  <2> QED
    BY <2>1, <2>2, <2>3
<1>9. CASE ~Early(ip) /\ Len(w) >= limit /\ Answer(e, "RateLimit") /\ admitted' = admitted
  <2>1. limit > 0 /\ ~poisoned /\ Len(w) > 0
    BY <1>2, <1>9 DEF Early, Disabled
  <2>2. w[1] - MaxSkew > now[e] - WINDOW - MaxSkew
    <3>1. Bucket(ip) \in Seq(Nat)
      BY <1>2, BucketType DEF IInv
    <3>2. now[e] - w[1] < WINDOW
      BY <1>2, <2>1, <3>1, ExpireStartsLive DEF w
    <3>3. w[1] \in Nat
      BY <1>2, <2>1
    <3> QED
      BY <1>2, <3>2, <3>3
  <2>3. Cardinality(late(now[e] - WINDOW - MaxSkew)) >= Len(w)
    BY <1>2, <1>3, <1>5, <2>1, <2>2, RememberedOnesLate
  <2>4. Cardinality(late(now[e] - WINDOW - MaxSkew)) >= limit
    <3>1. /\ IsFiniteSet(late(now[e] - WINDOW - MaxSkew))
          /\ Cardinality(late(now[e] - WINDOW - MaxSkew)) \in Nat
      <4>1. IsFiniteSet(DOMAIN a)
        BY <1>3, FS_Interval
      <4> QED
        BY <4>1, FS_Subset, FS_CardinalityType
    <3> QED
      BY <1>2, <1>9, <2>3, <3>1
  <2>5. Cardinality(Window!Since(h, Asked[e] - WINDOW - MaxSkew)) >= limit
    BY <1>3, <1>4, <2>4
  <2> QED
    BY <1>6, <1>9, <2>1, <2>5, SameCount DEF Window!Limit, Asked, h
<1>10. CASE /\ ~Early(ip) /\ Len(w) < limit /\ Answer(e, "Allowed")
            /\ admitted' = [admitted EXCEPT ![h] = Append(@, now[e])]
  <2>1. limit > 0 /\ ~poisoned
    BY <1>10 DEF Early, Disabled
  <2>2. /\ IsFiniteSet(late(now[e] - WINDOW + MaxSkew))
        /\ Cardinality(late(now[e] - WINDOW + MaxSkew)) <= Len(w)
    BY <1>2, <1>3, <1>5, LateOnesRemembered
  <2>3. Cardinality(late(now[e] - WINDOW + MaxSkew)) < limit
    BY <1>2, <1>10, <2>2, FS_CardinalityType
  <2>4. Cardinality(Window!Since(h, Asked[e] - WINDOW + MaxSkew)) < limit
    BY <1>3, <1>4, <2>3
  <2>5. admitted' = [admitted EXCEPT ![h] = Append(@, Asked[e])]
    BY <1>3, <1>10
  <2> QED
    BY <1>6, <1>10, <2>1, <2>4, <2>5, SameCount DEF Window!Admit, Asked, h
<1> QED
  BY <1>7, <1>8, <1>9, <1>10

-----------------------------------------------------------------------------
(* The theorems                                                            *)

\* No host has a history at first.
LEMMA InitHistory == Init => HistoryInv
<1> SUFFICES ASSUME Init PROVE HistoryInv
  OBVIOUS
<1>1. \A h \in Hosts : admitted[h] = <<>> /\ Len(admitted[h]) = 0
  BY EmptySeq DEF Init
<1>2. Known = {}
  BY <1>1 DEF Known
<1> QED
  BY <1>1, <1>2, FS_EmptySet DEF HistoryInv, NearlyOrdered

\* The limiter starts as SlidingWindow does.
LEMMA InitIsWindowInit == Init => Window!Init
<1> SUFFICES ASSUME Init PROVE Window!Init
  OBVIOUS
<1>1. Pending = {} /\ Asked = [e \in Endpoints |-> 0]
  BY LimiterAssumption DEF Init, Pending, Asked, Tasks
<1> QED
  BY <1>1 DEF Init, Window!Init, Pending, Asked

\* Admission times of a host are in the order of the mutex up to MaxSkew.
THEOREM HistoryOrdered == Spec => []HistoryInv
<1>1. IInv /\ HistoryInv /\ [Next]_vars => HistoryInv'
  BY HistoryKept
<1> QED
  BY <1>1, InitHistory, LimiterInvariant, PTL DEF Spec

\* check_at, evict_at and a table bounded by max_ips and limit answer every
\* question as a limiter that forgets nothing would, for every number of
\* endpoints, peers and addresses and every interleaving of their samples with
\* the mutex, up to the time MaxSkew between the two: no early admission, no late
\* refusal, no refusal for want of room while the address is in its window.
THEOREM LimiterImplementsWindow == Spec => ImplementsSlidingWindow
<1>1. IInv /\ HistoryInv /\ [Next]_vars => [Window!Next]_(Window!wvars)
  <2> SUFFICES ASSUME IInv, HistoryInv, [Next]_vars
               PROVE  Window!Next \/ UNCHANGED Window!wvars
    OBVIOUS
  <2>1. CASE Tick \/ evict_idle \/ evict_at \/ tracked_ips \/ UNCHANGED vars
    <3>1. UNCHANGED seen
      BY <2>1, UnseenSteps
    <3> QED
      BY <3>1 DEF seen, Window!wvars, Pending, Asked
  <2>2. CASE \E e \in Endpoints : \E ip \in Peers : check(e, ip)
    BY <2>2, CheckIsAsk DEF Window!Next
  <2>3. CASE \E e \in Endpoints : check_at(e)
    BY <2>3, CheckAtIsAnswer DEF Window!Next
  <2>4. CASE \E e \in Endpoints : Poison(e)
    BY <2>4, PoisonIsFail DEF Window!Next
  <2> QED
    BY <2>1, <2>2, <2>3, <2>4 DEF Next
<1> QED
  BY <1>1, InitIsWindowInit, HistoryOrdered, LimiterInvariant, PTL
  DEF Spec, ImplementsSlidingWindow, Window!Spec

-----------------------------------------------------------------------------
(* Admission: sums of counters                                             *)

\* A set that holds 0, and n + 1 with every n, holds every natural number.
LEMMA Inductive ==
  ASSUME NEW S \in SUBSET Nat, 0 \in S, \A n \in S : n + 1 \in S
  PROVE  S = Nat
<1> DEFINE R == {ss \in Nat \X Nat : ss[1] < ss[2]}
<1>0. IsWellFoundedOn(R, Nat)
  BY NatLessThanWellFounded DEF OpToRel
<1>r. \A a, b \in Nat : a < b => <<a, b>> \in R
  OBVIOUS
<1> HIDE DEF R
<1> SUFFICES ASSUME Nat \ S # {} PROVE FALSE
  OBVIOUS
<1>1. PICK x \in Nat \ S : \A y \in Nat \ S : ~ (<<y, x>> \in R)
  BY <1>0, WFMin
<1>2. x - 1 \in Nat /\ x - 1 < x /\ (x - 1) + 1 = x
  OBVIOUS
<1>3. x - 1 \in S
  BY <1>1, <1>2, <1>r
<1> QED
  BY <1>1, <1>2, <1>3

Pick(T) == CHOOSE x \in T : TRUE

\* F is the recursion that Total makes, on the sets in D.
Sums(F, count, D) ==
  F = [T \in D |-> IF T = {} THEN 0 ELSE count[Pick(T)] + F[T \ {Pick(T)}]]

Small(S, n) == {T \in SUBSET S : Cardinality(T) <= n}

\* Taking the picked element away leaves a smaller set.
LEMMA PickSmaller ==
  ASSUME NEW S, IsFiniteSet(S), NEW T \in SUBSET S, T # {}
  PROVE  /\ Pick(T) \in T /\ Pick(T) \in S
         /\ T \ {Pick(T)} \in SUBSET S
         /\ Cardinality(T) \in Nat /\ Cardinality(T \ {Pick(T)}) \in Nat
         /\ Cardinality(T \ {Pick(T)}) = Cardinality(T) - 1
<1>1. Pick(T) \in T
  BY DEF Pick
<1>2. IsFiniteSet(T)
  BY FS_Subset
<1>3. /\ IsFiniteSet(T \ {Pick(T)})
      /\ Cardinality(T \ {Pick(T)}) = Cardinality(T) - 1
  BY <1>1, <1>2, FS_RemoveElement
<1> QED
  BY <1>1, <1>2, <1>3, FS_CardinalityType

\* A set that counts no element is empty.
LEMMA NoneCounted ==
  ASSUME NEW S, IsFiniteSet(S), NEW T \in SUBSET S, Cardinality(T) <= 0
  PROVE  T = {}
<1> SUFFICES ASSUME T # {} PROVE FALSE
  OBVIOUS
<1>1. /\ Cardinality(T) \in Nat /\ Cardinality(T \ {Pick(T)}) \in Nat
      /\ Cardinality(T \ {Pick(T)}) = Cardinality(T) - 1
  BY PickSmaller
<1> QED
  BY <1>1

\* Total makes the recursion Sums on the subsets of the counters' names.
LEMMA TotalRecurses ==
  ASSUME NEW count, NEW G, Sums(G, count, SUBSET DOMAIN count)
  PROVE  \E F : Sums(F, count, SUBSET DOMAIN count) /\ Total(count) = F[DOMAIN count]
BY DEF Total, MapThenSumSet, MapThenFoldSet, Sums, Pick

\* The recursion behind Total has a solution.
LEMMA SumsExist ==
  ASSUME NEW S, IsFiniteSet(S), NEW count \in [S -> Nat]
  PROVE  \E F \in [SUBSET S -> Nat] : Sums(F, count, SUBSET S)
<1> DEFINE Q(n) == \E F \in [Small(S, n) -> Nat] : Sums(F, count, Small(S, n))
           N == {n \in Nat : Q(n)}
<1>1. 0 \in N
  <2> DEFINE F == [T \in Small(S, 0) |-> 0]
  <2>1. \A T \in Small(S, 0) : T = {}
    BY NoneCounted DEF Small
  <2>2. F = [T \in Small(S, 0) |->
               IF T = {} THEN 0 ELSE count[Pick(T)] + F[T \ {Pick(T)}]]
    BY <2>1
  <2>3. F \in [Small(S, 0) -> Nat]
    OBVIOUS
  <2> QED
    BY <2>2, <2>3 DEF Sums
<1>2. ASSUME NEW n \in N PROVE n + 1 \in N
  <2>0. n \in Nat
    OBVIOUS
  <2>1. PICK F \in [Small(S, n) -> Nat] : Sums(F, count, Small(S, n))
    BY <1>2
  <2> DEFINE G == [T \in Small(S, n + 1) |->
                     IF T \in Small(S, n) THEN F[T]
                     ELSE count[Pick(T)] + F[T \ {Pick(T)}]]
  <2>2. ASSUME NEW T \in Small(S, n + 1), T # {}
        PROVE  /\ T \ {Pick(T)} \in Small(S, n) /\ T \ {Pick(T)} \in Small(S, n + 1)
               /\ Pick(T) \in S
    <3>1. T \in SUBSET S /\ Cardinality(T) <= n + 1
      BY DEF Small
    <3>2. /\ Pick(T) \in S /\ T \ {Pick(T)} \in SUBSET S
          /\ Cardinality(T) \in Nat /\ Cardinality(T \ {Pick(T)}) \in Nat
          /\ Cardinality(T \ {Pick(T)}) = Cardinality(T) - 1
      BY <2>2, <3>1, PickSmaller
    <3>3. Cardinality(T \ {Pick(T)}) <= n /\ Cardinality(T \ {Pick(T)}) <= n + 1
      BY <2>0, <3>1, <3>2
    <3> QED
      BY <3>2, <3>3 DEF Small
  <2>3. {} \in Small(S, n)
    <3>1. Cardinality({}) = 0
      BY FS_EmptySet
    <3> QED
      BY <2>0, <3>1 DEF Small
  <2>4. ASSUME NEW T \in Small(S, n + 1)
        PROVE  /\ G[T] = IF T = {} THEN 0 ELSE count[Pick(T)] + G[T \ {Pick(T)}]
               /\ G[T] \in Nat
    <3>1. CASE T = {}
      <4>1. G[T] = F[T] /\ F[T] = 0
        BY <2>1, <2>3, <3>1 DEF Sums
      <4> QED
        BY <3>1, <4>1
    <3>2. CASE T # {}
      <4>1. /\ T \ {Pick(T)} \in Small(S, n) /\ T \ {Pick(T)} \in Small(S, n + 1)
            /\ Pick(T) \in S
        BY <2>2, <3>2
      <4>2. G[T \ {Pick(T)}] = F[T \ {Pick(T)}] /\ F[T \ {Pick(T)}] \in Nat
        BY <2>1, <4>1
      <4>3. G[T] = count[Pick(T)] + F[T \ {Pick(T)}]
        <5>1. CASE T \in Small(S, n)
          BY <2>1, <3>2, <5>1 DEF Sums
        <5>2. CASE T \notin Small(S, n)
          BY <5>2
        <5> QED
          BY <5>1, <5>2
      <4>4. count[Pick(T)] \in Nat
        BY <4>1
      <4> QED
        BY <3>2, <4>2, <4>3, <4>4
    <3> QED
      BY <3>1, <3>2
  <2>5. G = [T \in Small(S, n + 1) |->
               IF T = {} THEN 0 ELSE count[Pick(T)] + G[T \ {Pick(T)}]]
    BY <2>4
  <2>6. G \in [Small(S, n + 1) -> Nat]
    BY <2>4
  <2> HIDE DEF G
  <2>7. Sums(G, count, Small(S, n + 1))
    BY <2>5 DEF Sums
  <2> QED
    BY <2>0, <2>6, <2>7
<1> HIDE DEF N
<1>3. N = Nat
  <2>1. N \in SUBSET Nat
    BY DEF N
  <2> QED
    BY <2>1, <1>1, <1>2, Inductive
<1>4. Cardinality(S) \in Nat
  BY FS_CardinalityType
<1>5. Small(S, Cardinality(S)) = SUBSET S
  BY FS_Subset DEF Small
<1>6. Q(Cardinality(S))
  BY <1>3, <1>4 DEF N
<1>7. PICK F \in [Small(S, Cardinality(S)) -> Nat] : Sums(F, count, Small(S, Cardinality(S)))
  BY <1>6
<1> QED
  BY <1>5, <1>7

\* Any solution says what Total is.
LEMMA TotalIs ==
  ASSUME NEW S, IsFiniteSet(S), NEW count \in [S -> Nat], NEW G, Sums(G, count, SUBSET S)
  PROVE  Total(count) = G[S]
<1>0. DOMAIN count = S
  OBVIOUS
<1>1. PICK F : Sums(F, count, SUBSET S) /\ Total(count) = F[S]
  <2>1. Sums(G, count, SUBSET DOMAIN count)
    BY <1>0
  <2>2. \E F : Sums(F, count, SUBSET DOMAIN count) /\ Total(count) = F[DOMAIN count]
    BY <2>1, TotalRecurses
  <2> QED
    BY <1>0, <2>2
<1> DEFINE N == {n \in Nat : \A T \in Small(S, n) : F[T] = G[T]}
<1>2. ASSUME NEW T \in SUBSET S, T # {} => F[T \ {Pick(T)}] = G[T \ {Pick(T)}]
      PROVE  F[T] = G[T]
  BY <1>1, <1>2 DEF Sums
<1>3. 0 \in N
  <2> SUFFICES ASSUME NEW T \in SUBSET S, Cardinality(T) <= 0 PROVE F[T] = G[T]
    BY DEF Small
  <2>1. T = {}
    BY NoneCounted
  <2> QED
    BY <1>2, <2>1
<1>4. ASSUME NEW n \in N PROVE n + 1 \in N
  <2>0. n \in Nat /\ \A T \in Small(S, n) : F[T] = G[T]
    OBVIOUS
  <2> SUFFICES ASSUME NEW T \in SUBSET S, Cardinality(T) <= n + 1 PROVE F[T] = G[T]
    BY <2>0 DEF Small
  <2>1. ASSUME T # {} PROVE F[T \ {Pick(T)}] = G[T \ {Pick(T)}]
    <3>1. /\ T \ {Pick(T)} \in SUBSET S
          /\ Cardinality(T) \in Nat /\ Cardinality(T \ {Pick(T)}) \in Nat
          /\ Cardinality(T \ {Pick(T)}) = Cardinality(T) - 1
      BY <2>1, PickSmaller
    <3>2. Cardinality(T \ {Pick(T)}) <= n
      BY <2>0, <3>1
    <3> QED
      BY <2>0, <3>1, <3>2 DEF Small
  <2> QED
    BY <1>2, <2>1
<1> HIDE DEF N
<1>5. N = Nat
  <2>1. N \in SUBSET Nat
    BY DEF N
  <2> QED
    BY <2>1, <1>3, <1>4, Inductive
<1>6. S \in Small(S, Cardinality(S)) /\ Cardinality(S) \in N
  BY <1>5, FS_CardinalityType DEF Small
<1> QED
  BY <1>1, <1>6 DEF N

\* A sum of natural numbers is one.
LEMMA TotalIsNat ==
  ASSUME NEW S, IsFiniteSet(S), NEW c \in [S -> Nat]
  PROVE  Total(c) \in Nat
<1>1. PICK F \in [SUBSET S -> Nat] : Sums(F, c, SUBSET S)
  BY SumsExist
<1>2. Total(c) = F[S] /\ S \in SUBSET S
  BY <1>1, TotalIs
<1> QED
  BY <1>2

\* One more in a counter is one more in the total.
LEMMA TotalOfOne ==
  ASSUME NEW S, IsFiniteSet(S), NEW count \in [S -> Nat], NEW x \in S
  PROVE  /\ Total(count) \in Nat
         /\ One(count, x) \in [S -> Nat]
         /\ Total(One(count, x)) = Total(count) + 1
<1> DEFINE c == One(count, x)
<1>1. PICK F \in [SUBSET S -> Nat] : Sums(F, count, SUBSET S)
  BY SumsExist
<1>2. S \in SUBSET S /\ Total(count) = F[S] /\ F[S] \in Nat
  BY <1>1, TotalIs
<1>3. /\ c \in [S -> Nat] /\ c[x] = count[x] + 1
      /\ \A y \in S : y # x => c[y] = count[y]
  BY DEF One
<1> HIDE DEF c
<1> DEFINE G == [T \in SUBSET S |-> IF x \in T THEN F[T] + 1 ELSE F[T]]
<1>4. ASSUME NEW T \in SUBSET S
      PROVE  G[T] = IF T = {} THEN 0 ELSE c[Pick(T)] + G[T \ {Pick(T)}]
  <2>1. CASE T = {}
    <3>1. F[T] = 0
      BY <1>1, <2>1 DEF Sums
    <3> QED
      BY <2>1, <3>1
  <2>2. CASE T # {}
    <3> DEFINE p == Pick(T)
               U == T \ {Pick(T)}
    <3>1. p \in T /\ p \in S /\ U \in SUBSET S /\ p \notin U
      BY <2>2, PickSmaller
    <3>2. F[T] = count[p] + F[U] /\ F[U] \in Nat /\ count[p] \in Nat
      BY <1>1, <2>2, <3>1 DEF Sums
    <3>3. x \in T <=> x = p \/ x \in U
      BY <3>1
    <3>4. G[T] = (IF x \in T THEN F[T] + 1 ELSE F[T])
          /\ G[U] = IF x \in U THEN F[U] + 1 ELSE F[U]
      BY <3>1
    <3> HIDE DEF p, U, G
    <3>5. G[T] = c[p] + G[U]
      <4>1. CASE x = p
        BY <1>3, <3>1, <3>2, <3>3, <3>4, <4>1
      <4>2. CASE x # p
        BY <1>3, <3>1, <3>2, <3>3, <3>4, <4>2
      <4> QED
        BY <4>1, <4>2
    <3> QED
      BY <2>2, <3>5 DEF p, U
  <2> QED
    BY <2>1, <2>2
<1>5. G = [T \in SUBSET S |-> IF T = {} THEN 0 ELSE c[Pick(T)] + G[T \ {Pick(T)}]]
  BY <1>4
<1>6. G[S] = F[S] + 1
  BY <1>2
<1> HIDE DEF G
<1>7. Sums(G, c, SUBSET S)
  BY <1>5 DEF Sums
<1>8. Total(c) = G[S]
  BY <1>3, <1>7, TotalIs
<1> QED
  BY <1>2, <1>3, <1>6, <1>8 DEF c

\* Counters that start at zero add up to zero.
LEMMA TotalOfNone ==
  ASSUME NEW S, IsFiniteSet(S)
  PROVE  Total([x \in S |-> 0]) = 0
<1> DEFINE c == [x \in S |-> 0]
           G == [T \in SUBSET S |-> 0]
<1>1. ASSUME NEW T \in SUBSET S
      PROVE  G[T] = IF T = {} THEN 0 ELSE c[Pick(T)] + G[T \ {Pick(T)}]
  <2>1. CASE T = {}
    BY <2>1
  <2>2. CASE T # {}
    <3>1. Pick(T) \in S /\ T \ {Pick(T)} \in SUBSET S
      BY <2>2, PickSmaller
    <3>2. c[Pick(T)] = 0 /\ G[T \ {Pick(T)}] = 0 /\ G[T] = 0
      BY <3>1
    <3> QED
      BY <2>2, <3>2
  <2> QED
    BY <2>1, <2>2
<1>2. G = [T \in SUBSET S |-> IF T = {} THEN 0 ELSE c[Pick(T)] + G[T \ {Pick(T)}]]
  BY <1>1
<1>3. c \in [S -> Nat] /\ G[S] = 0
  OBVIOUS
<1> HIDE DEF G, c
<1>4. Sums(G, c, SUBSET S)
  BY <1>2 DEF Sums
<1>5. Total(c) = 0
  BY <1>3, <1>4, TotalIs
<1> QED
  BY <1>5 DEF c

-----------------------------------------------------------------------------
(* Counting endpoints                                                      *)

\* How the size of a set of endpoints changes when one of them changes.
LEMMA CountChanges ==
  ASSUME NEW S \in SUBSET Endpoints, NEW T \in SUBSET Endpoints, NEW e,
         S \ {e} = T \ {e}
  PROVE  /\ Cardinality(S) \in Nat /\ Cardinality(T) \in Nat
         /\ e \in S /\ e \in T => Cardinality(T) = Cardinality(S)
         /\ e \notin S /\ e \notin T => Cardinality(T) = Cardinality(S)
         /\ e \notin S /\ e \in T => Cardinality(T) = Cardinality(S) + 1
         /\ e \in S /\ e \notin T => Cardinality(S) = Cardinality(T) + 1
<1>1. IsFiniteSet(S) /\ IsFiniteSet(T)
  BY FS_Subset, AdmissionAssumption
<1>2. Cardinality(S) \in Nat /\ Cardinality(T) \in Nat
  BY <1>1, FS_CardinalityType
<1>3. ASSUME e \in S, e \in T PROVE Cardinality(T) = Cardinality(S)
  <2>1. S = T
    BY <1>3
  <2> QED
    BY <2>1
<1>4. ASSUME e \notin S, e \notin T PROVE Cardinality(T) = Cardinality(S)
  <2>1. S = T
    BY <1>4
  <2> QED
    BY <2>1
<1>5. ASSUME e \notin S, e \in T PROVE Cardinality(T) = Cardinality(S) + 1
  <2>1. T = S \cup {e}
    BY <1>5
  <2> QED
    BY <1>1, <1>5, <2>1, FS_AddElement
<1>6. ASSUME e \in S, e \notin T PROVE Cardinality(S) = Cardinality(T) + 1
  <2>1. S = T \cup {e}
    BY <1>6
  <2> QED
    BY <1>1, <1>6, <2>1, FS_AddElement
<1> QED
  BY <1>2, <1>3, <1>4, <1>5, <1>6

\* The hosts of a finite set of peers are finitely many, and so is the list.
LEMMA HostsFinite ==
  /\ IsFiniteSet(Hosts) /\ IsFiniteSet(Reasons)
  /\ {i.host : i \in ignore_source_ips} \in SUBSET Hosts
  /\ IsFiniteSet({i.host : i \in ignore_source_ips})
<1>1. IsFiniteSet(Hosts)
  <2> DEFINE f == [p \in Peers |-> p.host]
  <2>1. f \in Surjection(Peers, Hosts)
    BY DEF Surjection, Hosts
  <2> QED
    BY <2>1, FS_Surjection, AdmissionAssumption
<1>2. IsFiniteSet(Reasons)
  <2>1. IsFiniteSet({"ignored_ip"} \cup {"RateLimit"})
    BY FS_Singleton, FS_Union
  <2>2. IsFiniteSet(({"ignored_ip"} \cup {"RateLimit"}) \cup {"Capacity"})
    BY <2>1, FS_AddElement
  <2>3. IsFiniteSet((({"ignored_ip"} \cup {"RateLimit"}) \cup {"Capacity"}) \cup {"Unavailable"})
    BY <2>2, FS_AddElement
  <2>4. IsFiniteSet(((({"ignored_ip"} \cup {"RateLimit"}) \cup {"Capacity"}) \cup {"Unavailable"})
                      \cup {"max_sessions"})
    BY <2>3, FS_AddElement
  <2>5. Reasons = (((({"ignored_ip"} \cup {"RateLimit"}) \cup {"Capacity"}) \cup {"Unavailable"})
                      \cup {"max_sessions"})
    BY DEF Reasons
  <2> QED
    BY <2>4, <2>5
<1>3. {i.host : i \in ignore_source_ips} \in SUBSET Hosts
  BY AdmissionAssumption DEF Hosts
<1> QED
  BY <1>1, <1>2, <1>3, FS_Subset

-----------------------------------------------------------------------------
(* The inductive invariant                                                 *)

IgnoredHosts == {i.host : i \in ignore_source_ips}

\* The endpoints with a connection in hand, and those that place one of host h.
Busy == {e \in Endpoints : InHand(e)}
Placing(h) == {e \in Endpoints : allowed[e] # NoPeer /\ allowed[e].host = h}

PlaceCounts ==
  /\ allowed \in [Endpoints -> Peers \cup {NoPeer}]
  /\ rejected \in [Reasons -> Nat]
  /\ accepts \in [Hosts -> Nat]
  /\ placed \in [Hosts -> Nat]
  /\ crowded \in [Hosts -> Nat]

SessionCounts ==
  /\ permits \in Nat
  /\ spawned \in [Endpoints -> Nat] /\ active \in [Endpoints -> Nat]
  /\ closing \in [Endpoints -> Nat] /\ leaving \in [Endpoints -> Nat]
  /\ started \in [Endpoints -> Nat] /\ closed \in [Endpoints -> Nat]
  /\ panics \in [Endpoints -> Nat] /\ unpolled \in [Endpoints -> Nat]
  /\ aborted \in [Endpoints -> Nat]
  /\ \A e \in Endpoints : closing[e] <= active[e]

CountersOK == PlaceCounts /\ SessionCounts

\* An endpoint handles one connection at a time, and no connection of a host
\* on the list gets as far as the limiter.
PlacesOK ==
  \A e \in Endpoints :
    /\ allowed[e] # NoPeer =>
         pc[e] \notin {"check", "dead"} /\ allowed[e].host \notin IgnoredHosts
    /\ pc[e] = "check" => peer[e].host \notin IgnoredHosts

\* What EveryConnectionCounted says of the sessions: the sums over all
\* endpoints, and the account of each.
SessionSums ==
  /\ Total(placed) = Total(spawned) + Total(started) + Total(unpolled)
  /\ permits + Total(spawned) + Total(active) + Total(leaving) = max_sessions

SessionsOf(e) ==
  /\ started[e] = (active[e] - closing[e]) + closed[e] + panics[e] + aborted[e]
  /\ e \notin dropped => unpolled[e] + aborted[e] = 0

AdmissionInv ==
  CountersOK /\ PlacesOK /\ IgnoredNeverAdmitted /\ EveryConnectionCounted /\ SlotPerAttempt

\* The list is searched for the host, whatever its spelling.
LEMMA IgnoredByHost ==
  ASSUME NEW ip \in Peers
  PROVE  is_ignored(ip) <=> ip.host \in IgnoredHosts
<1>1. ASSUME NEW i \in ignore_source_ips
      PROVE  canonical_ip(ip) = canonical_ip(i) <=> ip.host = i.host
  <2>1. i \in Peers
    BY AdmissionAssumption
  <2>2. /\ canonical_ip(ip) \in Ips /\ canonical_ip(ip).host = ip.host
        /\ canonical_ip(i) \in Ips /\ canonical_ip(i).host = i.host
    BY <2>1, CanonicalHost
  <2> QED
    BY <2>2, OneBucketPerHost
<1> QED
  BY <1>1 DEF is_ignored, IgnoredHosts

\* The parts of the three properties, each with its own name.
LEMMA PartsOfProperties ==
  /\ IgnoredNeverAdmitted <=>
       /\ \A h \in IgnoredHosts : admitted[h] = <<>> /\ placed[h] = 0
       /\ \A ip \in DOMAIN map : ip.host \notin IgnoredHosts
       /\ rejected["ignored_ip"] = Total([h \in IgnoredHosts |-> accepts[h]])
  /\ EveryConnectionCounted <=>
       /\ Total(accepts) = Total(rejected) + Total(placed) + Cardinality(Busy)
       /\ SessionSums
       /\ \A e \in Endpoints : SessionsOf(e)
  /\ SlotPerAttempt <=>
       (limit > 0 => \A h \in Hosts :
          Len(admitted[h]) = placed[h] + crowded[h] + Cardinality(Placing(h)))
BY DEF IgnoredNeverAdmitted, EveryConnectionCounted, SlotPerAttempt, IgnoredHosts, Busy, Placing,
       SessionSums, SessionsOf

\* Nothing is placed or refused yet.
LEMMA AdmissionStarts == AdmissionInit => AdmissionInv
<1> SUFFICES ASSUME AdmissionInit PROVE AdmissionInv
  OBVIOUS
<1>1. CountersOK
  BY AdmissionAssumption
  DEF AdmissionInit, CountersOK, PlaceCounts, SessionCounts, None, NoSession
<1>2. PlacesOK
  BY LimiterAssumption DEF AdmissionInit, Init, PlacesOK, Tasks
<1>3. Total(accepts) = 0 /\ Total(placed) = 0 /\ Total(rejected) = 0
  BY HostsFinite, TotalOfNone DEF AdmissionInit, None
<1>4. Busy = {} /\ \A h : Placing(h) = {}
  BY DEF AdmissionInit, Init, Busy, Placing, InHand, Tasks
<1>5. Cardinality({}) = 0
  BY FS_EmptySet
<1>6. IgnoredNeverAdmitted
  <2>1. IgnoredHosts \in SUBSET Hosts /\ IsFiniteSet(IgnoredHosts)
    BY HostsFinite DEF IgnoredHosts
  <2>2. [h \in IgnoredHosts |-> accepts[h]] = [h \in IgnoredHosts |-> 0]
    BY <2>1 DEF AdmissionInit, None
  <2>3. Total([h \in IgnoredHosts |-> accepts[h]]) = 0
    BY <2>1, <2>2, TotalOfNone
  <2>4. rejected["ignored_ip"] = 0
    BY DEF AdmissionInit, Reasons
  <2>5. \A h \in IgnoredHosts : admitted[h] = <<>> /\ placed[h] = 0
    BY <2>1 DEF AdmissionInit, Init, None
  <2>6. DOMAIN map = {}
    BY DEF AdmissionInit, Init
  <2> QED
    BY <2>3, <2>4, <2>5, <2>6, PartsOfProperties
<1>7. EveryConnectionCounted
  <2>1. Total(NoSession) = 0
    BY AdmissionAssumption, TotalOfNone DEF NoSession
  <2>2. SessionSums
    BY <1>3, <2>1, AdmissionAssumption DEF AdmissionInit, SessionSums
  <2>3. \A e \in Endpoints : SessionsOf(e)
    BY DEF AdmissionInit, NoSession, SessionsOf
  <2>4. Cardinality(Busy) = 0
    BY <1>4, <1>5
  <2> QED
    BY <1>3, <2>2, <2>3, <2>4, PartsOfProperties
<1>8. SlotPerAttempt
  <2>1. ASSUME NEW h \in Hosts
        PROVE  Len(admitted[h]) = placed[h] + crowded[h] + Cardinality(Placing(h))
    <3>1. admitted[h] = <<>> /\ placed[h] = 0 /\ crowded[h] = 0
      BY DEF AdmissionInit, Init, None
    <3>2. Cardinality(Placing(h)) = 0
      BY <1>4, <1>5
    <3> QED
      BY <3>1, <3>2
  <2> QED
    BY <2>1, PartsOfProperties
<1> QED
  BY <1>1, <1>2, <1>6, <1>7, <1>8 DEF AdmissionInv

-----------------------------------------------------------------------------
(* The invariant is inductive: one lemma per action                        *)

\* What the invariant says of an endpoint that is inside the limiter.
LEMMA InLimiter ==
  ASSUME IInv, AdmissionInv, NEW e \in Endpoints, pc[e] = "check"
  PROVE  /\ peer[e] \in Peers /\ peer[e].host \in Hosts
         /\ peer[e].host \notin IgnoredHosts
         /\ allowed[e] = NoPeer
         /\ canonical_ip(peer[e]).host = peer[e].host
BY CanonicalHost DEF IInv, CallsHavePeers, AdmissionInv, PlacesOK

\* A counter of sessions, one more and one less.
LEMMA SessionCounted ==
  ASSUME NEW c \in [Endpoints -> Nat], NEW e \in Endpoints
  PROVE  /\ Total(c) \in Nat
         /\ One(c, e) \in [Endpoints -> Nat] /\ Total(One(c, e)) = Total(c) + 1
         /\ One(c, e)[e] = c[e] + 1
         /\ \A f \in Endpoints : f # e => One(c, e)[f] = c[f] /\ Less(c, e)[f] = c[f]
         /\ c[e] > 0 => /\ Less(c, e) \in [Endpoints -> Nat] /\ Less(c, e)[e] = c[e] - 1
                        /\ Total(Less(c, e)) = Total(c) - 1
<1>1. /\ Total(c) \in Nat
      /\ One(c, e) \in [Endpoints -> Nat] /\ Total(One(c, e)) = Total(c) + 1
  BY AdmissionAssumption, TotalOfOne
<1>2. /\ One(c, e)[e] = c[e] + 1
      /\ \A f \in Endpoints : f # e => One(c, e)[f] = c[f] /\ Less(c, e)[f] = c[f]
  BY DEF One, Less
<1>3. ASSUME c[e] > 0
      PROVE  /\ Less(c, e) \in [Endpoints -> Nat] /\ Less(c, e)[e] = c[e] - 1
             /\ Total(Less(c, e)) = Total(c) - 1
  <2>1. c[e] \in Nat /\ c[e] - 1 \in Nat /\ (c[e] - 1) + 1 = c[e]
    BY <1>3
  <2>2. /\ Less(c, e) \in [Endpoints -> Nat] /\ Less(c, e)[e] = c[e] - 1
        /\ One(Less(c, e), e) = c
    BY <2>1 DEF One, Less
  <2> DEFINE d == Less(c, e)
  <2> HIDE DEF d
  <2>3. d \in [Endpoints -> Nat] /\ One(d, e) = c
    BY <2>2 DEF d
  <2>4. Total(d) \in Nat /\ Total(One(d, e)) = Total(d) + 1
    BY <2>3, AdmissionAssumption, TotalOfOne
  <2>5. Total(d) = Total(c) - 1
    BY <2>3, <2>4
  <2> QED
    BY <2>2, <2>5 DEF d
<1> QED
  BY <1>1, <1>2, <1>3

\* The sums of the sessions' counters are numbers.
LEMMA SessionTotals ==
  ASSUME SessionCounts
  PROVE  /\ Total(spawned) \in Nat /\ Total(active) \in Nat /\ Total(leaving) \in Nat
         /\ Total(started) \in Nat /\ Total(unpolled) \in Nat /\ permits \in Nat
BY AdmissionAssumption, TotalIsNat DEF SessionCounts

\* How a change of one counter shows in the totals.
LEMMA CountedOnce ==
  ASSUME CountersOK
  PROVE  /\ Total(accepts) \in Nat /\ Total(rejected) \in Nat /\ Total(placed) \in Nat
         /\ \A h \in Hosts :
              /\ One(accepts, h) \in [Hosts -> Nat]
              /\ One(placed, h) \in [Hosts -> Nat] /\ One(crowded, h) \in [Hosts -> Nat]
              /\ Total(One(accepts, h)) = Total(accepts) + 1
              /\ Total(One(placed, h)) = Total(placed) + 1
         /\ \A r \in Reasons :
              /\ One(rejected, r) \in [Reasons -> Nat]
              /\ Total(One(rejected, r)) = Total(rejected) + 1
<1>0. /\ rejected \in [Reasons -> Nat] /\ accepts \in [Hosts -> Nat]
      /\ placed \in [Hosts -> Nat] /\ crowded \in [Hosts -> Nat]
  BY DEF CountersOK, PlaceCounts
<1>1. Total(accepts) \in Nat /\ Total(rejected) \in Nat /\ Total(placed) \in Nat
  BY <1>0, HostsFinite, TotalIsNat
<1>2. ASSUME NEW h \in Hosts
      PROVE  /\ One(accepts, h) \in [Hosts -> Nat]
             /\ One(placed, h) \in [Hosts -> Nat] /\ One(crowded, h) \in [Hosts -> Nat]
             /\ Total(One(accepts, h)) = Total(accepts) + 1
             /\ Total(One(placed, h)) = Total(placed) + 1
  BY <1>0, HostsFinite, TotalOfOne
<1>3. ASSUME NEW r \in Reasons
      PROVE  /\ One(rejected, r) \in [Reasons -> Nat]
             /\ Total(One(rejected, r)) = Total(rejected) + 1
  BY <1>0, HostsFinite, TotalOfOne
<1> QED
  BY <1>1, <1>2, <1>3

\* The accepted connections of the hosts on the list, after one more.
LEMMA IgnoredAccepts ==
  ASSUME CountersOK, NEW h \in Hosts
  PROVE  LET before == Total([i \in IgnoredHosts |-> accepts[i]])
             after  == Total([i \in IgnoredHosts |-> One(accepts, h)[i]])
         IN  after = IF h \in IgnoredHosts THEN before + 1 ELSE before
<1> DEFINE c == [i \in IgnoredHosts |-> accepts[i]]
           d == [i \in IgnoredHosts |-> One(accepts, h)[i]]
<1>1. IsFiniteSet(IgnoredHosts) /\ IgnoredHosts \in SUBSET Hosts
  BY HostsFinite DEF IgnoredHosts
<1>2. accepts \in [Hosts -> Nat]
  BY DEF CountersOK, PlaceCounts
<1>3. c \in [IgnoredHosts -> Nat]
  BY <1>1, <1>2
<1>4. CASE h \in IgnoredHosts
  <2>1. d = One(c, h)
    BY <1>1, <1>2, <1>4 DEF One
  <2>2. Total(One(c, h)) = Total(c) + 1
    BY <1>1, <1>3, <1>4, TotalOfOne
  <2> QED
    BY <1>4, <2>1, <2>2
<1>5. CASE h \notin IgnoredHosts
  <2>1. d = c
    BY <1>1, <1>2, <1>5 DEF One
  <2> QED
    BY <1>5, <2>1
<1> QED
  BY <1>4, <1>5

\* accept: a host on the list is counted and dropped, any other goes on to
\* the limiter.
LEMMA AcceptKeeps ==
  ASSUME IInv, AdmissionInv, NEW e \in Endpoints, NEW ip \in Peers, accept(e, ip)
  PROVE  AdmissionInv'
<1> DEFINE h == ip.host
<1>0. /\ CountersOK /\ PlacesOK /\ IgnoredNeverAdmitted /\ EveryConnectionCounted
      /\ SlotPerAttempt /\ h \in Hosts
  BY CanonicalHost DEF AdmissionInv
<1>1. /\ pc[e] = "idle" /\ allowed[e] = NoPeer /\ accepts' = One(accepts, h)
      /\ UNCHANGED <<dropped, sessionVars, allowed, placed, crowded, map, admitted>>
      /\ \/ h \in IgnoredHosts /\ rejected' = One(rejected, "ignored_ip") /\ UNCHANGED <<pc, peer>>
         \/ /\ h \notin IgnoredHosts /\ UNCHANGED rejected
            /\ pc' = [pc EXCEPT ![e] = "check"] /\ peer' = [peer EXCEPT ![e] = ip]
  BY IgnoredByHost DEF accept, reject, check, vars
<1>2. /\ pc \in [Tasks -> {"idle", "check", "evict", "report", "dead"}] /\ e \in Tasks
      /\ peer \in [Endpoints -> Peers \cup {NoPeer}] /\ "ignored_ip" \in Reasons
  BY DEF IInv, TypeOK, Tasks, Reasons
<1> HIDE DEF h
<1>3. CountersOK'
  BY <1>0, <1>1, <1>2, CountedOnce DEF CountersOK, PlaceCounts, SessionCounts, sessionVars
<1>4. PlacesOK'
  <2> SUFFICES ASSUME NEW f \in Endpoints
               PROVE  /\ allowed'[f] # NoPeer =>
                           pc'[f] \notin {"check", "dead"} /\ allowed'[f].host \notin IgnoredHosts
                      /\ pc'[f] = "check" => peer'[f].host \notin IgnoredHosts
    BY DEF PlacesOK, IgnoredHosts
  <2>1. CASE f = e
    BY <1>0, <1>1, <1>2, <2>1 DEF PlacesOK, h
  <2>2. CASE f # e
    BY <1>0, <1>1, <1>2, <2>2 DEF PlacesOK, Tasks
  <2> QED
    BY <2>1, <2>2
<1>5. IgnoredNeverAdmitted'
  <2>1. \A i \in IgnoredHosts : admitted'[i] = <<>> /\ placed'[i] = 0
    BY <1>0, <1>1, PartsOfProperties
  <2>2. \A i \in DOMAIN map' : i.host \notin IgnoredHosts
    BY <1>0, <1>1, PartsOfProperties
  <2>3. rejected'["ignored_ip"] = Total([i \in IgnoredHosts |-> accepts'[i]])
    <3>1. rejected["ignored_ip"] = Total([i \in IgnoredHosts |-> accepts[i]])
      BY <1>0, PartsOfProperties
    <3>2. Total([i \in IgnoredHosts |-> accepts'[i]]) =
            IF h \in IgnoredHosts THEN Total([i \in IgnoredHosts |-> accepts[i]]) + 1
            ELSE Total([i \in IgnoredHosts |-> accepts[i]])
      BY <1>0, <1>1, IgnoredAccepts
    <3>3. rejected'["ignored_ip"] =
            IF h \in IgnoredHosts THEN rejected["ignored_ip"] + 1 ELSE rejected["ignored_ip"]
      BY <1>0, <1>1, <1>2 DEF One, CountersOK, PlaceCounts
    <3> QED
      BY <3>1, <3>2, <3>3
  <2> QED
    BY <2>1, <2>2, <2>3 DEF IgnoredNeverAdmitted, IgnoredHosts
<1>6. EveryConnectionCounted'
  <2>1. Busy \ {e} = Busy' \ {e} /\ Busy \in SUBSET Endpoints /\ Busy' \in SUBSET Endpoints
    BY <1>1, <1>2 DEF Busy, InHand, Tasks
  <2>2. e \notin Busy
    BY <1>1 DEF Busy, InHand
  <2>3. e \in Busy' <=> h \notin IgnoredHosts
    BY <1>1, <1>2 DEF Busy, InHand
  <2>4. Cardinality(Busy) \in Nat /\ Cardinality(Busy') =
          IF h \in IgnoredHosts THEN Cardinality(Busy) ELSE Cardinality(Busy) + 1
    BY <2>1, <2>2, <2>3, CountChanges
  <2>5. Total(rejected') = IF h \in IgnoredHosts THEN Total(rejected) + 1 ELSE Total(rejected)
    BY <1>0, <1>1, <1>2, CountedOnce
  <2>6. Total(accepts') = Total(accepts) + 1
    BY <1>0, <1>1, CountedOnce
  <2>7. /\ Total(accepts) \in Nat /\ Total(rejected) \in Nat /\ Total(placed) \in Nat
        /\ Total(accepts) = Total(rejected) + Total(placed) + Cardinality(Busy)
    BY <1>0, CountedOnce, PartsOfProperties
  <2>8. Total(accepts') = Total(rejected') + Total(placed) + Cardinality(Busy')
    BY <2>4, <2>5, <2>6, <2>7
  <2>9. SessionSums /\ \A f \in Endpoints : SessionsOf(f)
    BY <1>0, PartsOfProperties
  <2>10. SessionSums' /\ \A f \in Endpoints : SessionsOf(f)'
    BY <1>1, <2>9 DEF SessionSums, SessionsOf, sessionVars
  <2> QED
    BY <1>1, <2>8, <2>10 DEF EveryConnectionCounted, Busy, InHand, SessionSums, SessionsOf
<1>7. SlotPerAttempt'
  <2>1. UNCHANGED <<placed, crowded, admitted, allowed>>
    BY <1>1
  <2> QED
    BY <1>0, <2>1 DEF SlotPerAttempt
<1> QED
  BY <1>3, <1>4, <1>5, <1>6, <1>7 DEF AdmissionInv

\* What a decision does: the limiter's answer, and what the endpoint makes of it.
LEMMA DecideEffect ==
  ASSUME IInv, NEW e \in Endpoints, decide(e)
  PROVE  /\ pc[e] = "check"
         /\ pc' = [pc EXCEPT ![e] = "idle"] /\ peer' = [peer EXCEPT ![e] = NoPeer]
         /\ DOMAIN map' \subseteq DOMAIN map \cup {canonical_ip(peer[e])}
         /\ UNCHANGED <<dropped, sessionVars, accepts, placed, crowded>>
         /\ \/ /\ allowed' = [allowed EXCEPT ![e] = peer[e]] /\ UNCHANGED rejected
               /\ \/ limit = 0 /\ UNCHANGED admitted
                  \/ admitted' = [admitted EXCEPT ![peer[e].host] = Append(@, now[e])]
            \/ /\ \E r \in {"RateLimit", "Capacity", "Unavailable"} :
                    rejected' = One(rejected, r)
               /\ UNCHANGED <<allowed, admitted>>
<1>0. verdict \in [Endpoints -> {"none", "Allowed", "RateLimit", "Capacity", "Unavailable"}]
  BY DEF IInv, TypeOK
<1>1. /\ UNCHANGED <<dropped, sessionVars, accepts, placed, crowded>> /\ check_at(e)
      /\ \/ verdict'[e] = "Allowed" /\ allowed' = [allowed EXCEPT ![e] = peer[e]] /\ UNCHANGED rejected
         \/ verdict'[e] # "Allowed" /\ rejected' = One(rejected, verdict'[e]) /\ UNCHANGED allowed
  BY DEF decide, reject
<1> DEFINE ip == canonical_ip(peer[e])
           window == expire(Bucket(ip), now[e])
<1>2. /\ pc[e] = "check"
      /\ \/ Early(ip) /\ Answer(e, EarlyDecision) /\ UNCHANGED <<map, admitted>>
         \/ Answer(e, "RateLimit") /\ map' = WithBucket(ip, window) /\ UNCHANGED admitted
         \/ /\ Answer(e, "Allowed") /\ map' = WithBucket(ip, Append(window, now[e]))
            /\ admitted' = [admitted EXCEPT ![peer[e].host] = Append(@, now[e])]
  BY <1>1 DEF check_at
<1> HIDE DEF ip, window
<1>3. \A u : DOMAIN WithBucket(ip, u) = DOMAIN map \cup {ip}
  BY DEF WithBucket
<1>4. CASE Early(ip) /\ Answer(e, EarlyDecision) /\ UNCHANGED <<map, admitted>>
  <2>1. /\ pc' = [pc EXCEPT ![e] = "idle"] /\ peer' = [peer EXCEPT ![e] = NoPeer]
        /\ verdict'[e] = EarlyDecision
    BY <1>0, <1>4 DEF Answer
  <2>2. /\ EarlyDecision \in {"Allowed", "Unavailable", "Capacity"}
        /\ EarlyDecision = "Allowed" => limit = 0
    BY DEF EarlyDecision, Disabled
  <2> QED
    BY <1>1, <1>2, <1>4, <2>1, <2>2 DEF ip
<1>5. CASE Answer(e, "RateLimit") /\ map' = WithBucket(ip, window) /\ UNCHANGED admitted
  <2>1. /\ pc' = [pc EXCEPT ![e] = "idle"] /\ peer' = [peer EXCEPT ![e] = NoPeer]
        /\ verdict'[e] = "RateLimit"
    BY <1>0, <1>5 DEF Answer
  <2> QED
    BY <1>1, <1>2, <1>3, <1>5, <2>1 DEF ip
<1>6. CASE /\ Answer(e, "Allowed") /\ map' = WithBucket(ip, Append(window, now[e]))
           /\ admitted' = [admitted EXCEPT ![peer[e].host] = Append(@, now[e])]
  <2>1. /\ pc' = [pc EXCEPT ![e] = "idle"] /\ peer' = [peer EXCEPT ![e] = NoPeer]
        /\ verdict'[e] = "Allowed"
    BY <1>0, <1>6 DEF Answer
  <2> QED
    BY <1>1, <1>2, <1>3, <1>6, <2>1 DEF ip
<1> QED
  BY <1>2, <1>4, <1>5, <1>6

\* decide: the connection stays in hand with its slot spent, or is counted
\* as refused.
LEMMA DecideKeeps ==
  ASSUME IInv, AdmissionInv, NEW e \in Endpoints, decide(e)
  PROVE  AdmissionInv'
<1> DEFINE h == peer[e].host
           Admit == /\ allowed' = [allowed EXCEPT ![e] = peer[e]] /\ UNCHANGED rejected
                    /\ \/ limit = 0 /\ UNCHANGED admitted
                       \/ admitted' = [admitted EXCEPT ![h] = Append(@, now[e])]
           Refuse == /\ \E r \in {"RateLimit", "Capacity", "Unavailable"} :
                          rejected' = One(rejected, r)
                     /\ UNCHANGED <<allowed, admitted>>
<1>0. /\ CountersOK /\ PlacesOK /\ IgnoredNeverAdmitted /\ EveryConnectionCounted
      /\ SlotPerAttempt
  BY DEF AdmissionInv
<1>1. /\ pc[e] = "check"
      /\ pc' = [pc EXCEPT ![e] = "idle"] /\ peer' = [peer EXCEPT ![e] = NoPeer]
      /\ DOMAIN map' \subseteq DOMAIN map \cup {canonical_ip(peer[e])}
      /\ UNCHANGED <<dropped, sessionVars, accepts, placed, crowded>>
      /\ Admit \/ Refuse
  BY DecideEffect
<1>2. /\ peer[e] \in Peers /\ h \in Hosts /\ h \notin IgnoredHosts /\ allowed[e] = NoPeer
      /\ canonical_ip(peer[e]).host = h /\ peer[e] # NoPeer
  BY <1>1, InLimiter, LimiterAssumption
<1>3. /\ pc \in [Tasks -> {"idle", "check", "evict", "report", "dead"}] /\ e \in Tasks
      /\ peer \in [Endpoints -> Peers \cup {NoPeer}] /\ now[e] \in Nat
      /\ admitted \in [Hosts -> Seq(Nat)]
      /\ allowed \in [Endpoints -> Peers \cup {NoPeer}]
  BY <1>0 DEF IInv, TypeOK, Tasks, CountersOK, PlaceCounts
<1>4. CountersOK'
  <2>1. allowed' \in [Endpoints -> Peers \cup {NoPeer}]
    BY <1>1, <1>2, <1>3
  <2>2. rejected' \in [Reasons -> Nat]
    <3>1. rejected \in [Reasons -> Nat]
      BY <1>0 DEF CountersOK, PlaceCounts
    <3>2. \A r \in {"RateLimit", "Capacity", "Unavailable"} :
            One(rejected, r) \in [Reasons -> Nat]
      BY <1>0, CountedOnce DEF Reasons
    <3> QED
      BY <1>1, <3>1, <3>2
  <2> QED
    BY <1>0, <1>1, <2>1, <2>2 DEF CountersOK, PlaceCounts, SessionCounts, sessionVars
<1>5. PlacesOK'
  <2> SUFFICES ASSUME NEW f \in Endpoints
               PROVE  /\ allowed'[f] # NoPeer =>
                           pc'[f] \notin {"check", "dead"} /\ allowed'[f].host \notin IgnoredHosts
                      /\ pc'[f] = "check" => peer'[f].host \notin IgnoredHosts
    BY DEF PlacesOK, IgnoredHosts
  <2>1. CASE f = e
    BY <1>0, <1>1, <1>2, <1>3, <2>1 DEF PlacesOK
  <2>2. CASE f # e
    BY <1>0, <1>1, <1>3, <2>2 DEF PlacesOK, Tasks
  <2> QED
    BY <2>1, <2>2
<1>6. IgnoredNeverAdmitted'
  <2>1. ASSUME NEW i \in IgnoredHosts PROVE admitted'[i] = <<>> /\ placed'[i] = 0
    <3>1. admitted[i] = <<>> /\ placed[i] = 0
      BY <1>0, PartsOfProperties
    <3>2. i # h /\ i \in Hosts
      BY <1>2, HostsFinite DEF IgnoredHosts
    <3>3. admitted'[i] = admitted[i]
      BY <1>1, <1>3, <3>2
    <3> QED
      BY <1>1, <3>1, <3>3
  <2>2. \A i \in DOMAIN map' : i.host \notin IgnoredHosts
    BY <1>0, <1>1, <1>2, PartsOfProperties
  <2>3. rejected'["ignored_ip"] = rejected["ignored_ip"]
    <3>1. CASE Admit
      BY <3>1
    <3>2. CASE Refuse
      <4>1. PICK r \in {"RateLimit", "Capacity", "Unavailable"} : rejected' = One(rejected, r)
        BY <3>2
      <4>2. rejected \in [Reasons -> Nat] /\ "ignored_ip" \in Reasons /\ r # "ignored_ip"
        BY <1>0 DEF CountersOK, PlaceCounts, Reasons
      <4> QED
        BY <4>1, <4>2 DEF One
    <3> QED
      BY <1>1, <3>1, <3>2
  <2>4. rejected'["ignored_ip"] = Total([i \in IgnoredHosts |-> accepts'[i]])
    BY <1>0, <1>1, <2>3, PartsOfProperties
  <2> QED
    BY <2>1, <2>2, <2>4 DEF IgnoredNeverAdmitted, IgnoredHosts
<1>7. EveryConnectionCounted'
  <2>1. Busy \ {e} = Busy' \ {e} /\ Busy \in SUBSET Endpoints /\ Busy' \in SUBSET Endpoints
    BY <1>1, <1>3 DEF Busy, InHand, Tasks
  <2>2. e \in Busy
    BY <1>1 DEF Busy, InHand
  <2>3. /\ Total(rejected) \in Nat /\ Total(placed) \in Nat
        /\ Total(accepts) = Total(rejected) + Total(placed) + Cardinality(Busy)
    BY <1>0, CountedOnce, PartsOfProperties
  <2>4. Total(accepts) = Total(rejected') + Total(placed) + Cardinality(Busy')
    <3>1. CASE Admit
      <4>1. e \in Busy'
        BY <1>1, <1>2, <1>3, <3>1 DEF Busy, InHand
      <4>2. Cardinality(Busy') = Cardinality(Busy)
        BY <2>1, <2>2, <4>1, CountChanges
      <4> QED
        BY <2>3, <3>1, <4>2
    <3>2. CASE Refuse
      <4>1. e \notin Busy'
        BY <1>1, <1>2, <1>3, <3>2 DEF Busy, InHand
      <4>2. Cardinality(Busy) = Cardinality(Busy') + 1 /\ Cardinality(Busy') \in Nat
        BY <2>1, <2>2, <4>1, CountChanges
      <4>3. Total(rejected') = Total(rejected) + 1
        BY <1>0, <3>2, CountedOnce DEF Reasons
      <4> QED
        BY <2>3, <4>2, <4>3
    <3> QED
      BY <1>1, <3>1, <3>2
  <2>5. SessionSums /\ \A f \in Endpoints : SessionsOf(f)
    BY <1>0, PartsOfProperties
  <2>6. SessionSums' /\ \A f \in Endpoints : SessionsOf(f)'
    BY <1>1, <2>5 DEF SessionSums, SessionsOf, sessionVars
  <2> QED
    BY <1>1, <2>4, <2>6 DEF EveryConnectionCounted, Busy, InHand, SessionSums, SessionsOf
<1>8. SlotPerAttempt'
  <2> SUFFICES ASSUME limit > 0, NEW i \in Hosts
               PROVE  Len(admitted'[i]) = placed'[i] + crowded'[i] + Cardinality(Placing(i)')
    BY DEF SlotPerAttempt, Placing
  <2>0. /\ Len(admitted[i]) = placed[i] + crowded[i] + Cardinality(Placing(i))
        /\ placed[i] \in Nat /\ crowded[i] \in Nat /\ placed'[i] = placed[i]
        /\ crowded'[i] = crowded[i] /\ admitted[i] \in Seq(Nat)
    BY <1>0, <1>1, <1>3, PartsOfProperties DEF CountersOK, PlaceCounts
  <2>1. /\ Placing(i) \ {e} = Placing(i)' \ {e} /\ e \notin Placing(i)
        /\ Placing(i) \in SUBSET Endpoints /\ Placing(i)' \in SUBSET Endpoints
    BY <1>1, <1>2, <1>3 DEF Placing
  <2>2. CASE Admit /\ i = h
    <3>1. e \in Placing(i)'
      BY <1>2, <1>3, <2>2 DEF Placing
    <3>2. Cardinality(Placing(i)') = Cardinality(Placing(i)) + 1 /\ Cardinality(Placing(i)) \in Nat
      BY <2>1, <3>1, CountChanges
    <3>3. admitted'[i] = Append(admitted[i], now[e])
      BY <1>3, <2>2, LimiterAssumption
    <3>4. Len(admitted'[i]) = Len(admitted[i]) + 1
      BY <1>3, <2>0, <3>3
    <3> QED
      BY <2>0, <3>2, <3>4
  <2>3. CASE Refuse \/ i # h
    <3>1. e \notin Placing(i)'
      BY <1>1, <1>2, <1>3, <2>3 DEF Placing
    <3>2. Cardinality(Placing(i)') = Cardinality(Placing(i))
      BY <2>1, <3>1, CountChanges
    <3>3. admitted'[i] = admitted[i]
      BY <1>1, <1>3, <2>3
    <3> QED
      BY <2>0, <3>2, <3>3
  <2> QED
    BY <1>1, <2>2, <2>3
<1> QED
  BY <1>4, <1>5, <1>6, <1>7, <1>8 DEF AdmissionInv

\* try_acquire_owned: the connection becomes a session, or is counted as
\* refused for want of a permit.
LEMMA TryAcquireKeeps ==
  ASSUME IInv, AdmissionInv, NEW e \in Endpoints, try_acquire(e)
  PROVE  AdmissionInv'
<1> DEFINE h == allowed[e].host
           Spawn == /\ permits > 0 /\ permits' = permits - 1 /\ spawned' = One(spawned, e)
                    /\ placed' = One(placed, h) /\ UNCHANGED <<rejected, crowded>>
           Refuse == /\ permits = 0 /\ rejected' = One(rejected, "max_sessions")
                     /\ crowded' = One(crowded, h)
                     /\ UNCHANGED <<permits, spawned, placed>>
<1>0. /\ CountersOK /\ PlacesOK /\ IgnoredNeverAdmitted /\ EveryConnectionCounted
      /\ SlotPerAttempt
  BY DEF AdmissionInv
<1>1. /\ allowed[e] # NoPeer /\ allowed' = [allowed EXCEPT ![e] = NoPeer]
      /\ Spawn \/ Refuse
      /\ UNCHANGED <<pc, peer, map, admitted, dropped, accepts>>
      /\ UNCHANGED <<active, closing, leaving, started, closed, panics, unpolled, aborted>>
  BY DEF try_acquire, reject, vars
<1>2. /\ allowed \in [Endpoints -> Peers \cup {NoPeer}]
      /\ rejected \in [Reasons -> Nat] /\ "max_sessions" \in Reasons /\ "ignored_ip" \in Reasons
      /\ placed \in [Hosts -> Nat] /\ crowded \in [Hosts -> Nat] /\ permits \in Nat
  BY <1>0 DEF CountersOK, PlaceCounts, SessionCounts, Reasons
<1>3. /\ allowed[e] \in Peers /\ h \in Hosts /\ h \notin IgnoredHosts
      /\ pc[e] \notin {"check", "dead"}
  BY <1>0, <1>1, <1>2, CanonicalHost DEF PlacesOK
<1> HIDE DEF h
<1>4. CountersOK'
  <2>1. allowed' \in [Endpoints -> Peers \cup {NoPeer}]
    BY <1>1, <1>2
  <2>2. CASE Spawn
    <3>1. placed' \in [Hosts -> Nat] /\ permits' \in Nat
      BY <1>0, <1>2, <1>3, <2>2, CountedOnce
    <3>2. spawned' \in [Endpoints -> Nat]
      BY <1>0, <2>2, SessionCounted DEF CountersOK, SessionCounts
    <3> QED
      BY <1>0, <1>1, <2>1, <2>2, <3>1, <3>2 DEF CountersOK, PlaceCounts, SessionCounts
  <2>3. CASE Refuse
    <3>1. rejected' \in [Reasons -> Nat] /\ crowded' \in [Hosts -> Nat]
      BY <1>0, <1>2, <1>3, <2>3, CountedOnce
    <3> QED
      BY <1>0, <1>1, <2>1, <2>3, <3>1 DEF CountersOK, PlaceCounts, SessionCounts
  <2> QED
    BY <1>1, <2>2, <2>3
<1>5. PlacesOK'
  <2> SUFFICES ASSUME NEW f \in Endpoints
               PROVE  /\ allowed'[f] # NoPeer =>
                           pc'[f] \notin {"check", "dead"} /\ allowed'[f].host \notin IgnoredHosts
                      /\ pc'[f] = "check" => peer'[f].host \notin IgnoredHosts
    BY DEF PlacesOK, IgnoredHosts
  <2>1. allowed'[f] = IF f = e THEN NoPeer ELSE allowed[f]
    BY <1>1, <1>2
  <2> QED
    BY <1>0, <1>1, <2>1 DEF PlacesOK
<1>6. IgnoredNeverAdmitted'
  <2>1. ASSUME NEW i \in IgnoredHosts PROVE admitted'[i] = <<>> /\ placed'[i] = 0
    <3>1. admitted[i] = <<>> /\ placed[i] = 0
      BY <1>0, PartsOfProperties
    <3>2. i # h /\ i \in Hosts
      BY <1>3, HostsFinite DEF IgnoredHosts
    <3>3. placed'[i] = placed[i]
      BY <1>1, <1>2, <3>2 DEF One
    <3> QED
      BY <1>1, <3>1, <3>3
  <2>2. \A i \in DOMAIN map' : i.host \notin IgnoredHosts
    BY <1>0, <1>1, PartsOfProperties
  <2>3. rejected'["ignored_ip"] = rejected["ignored_ip"]
    BY <1>1, <1>2 DEF One
  <2>4. rejected'["ignored_ip"] = Total([i \in IgnoredHosts |-> accepts'[i]])
    BY <1>0, <1>1, <2>3, PartsOfProperties
  <2> QED
    BY <2>1, <2>2, <2>4 DEF IgnoredNeverAdmitted, IgnoredHosts
<1>7. EveryConnectionCounted'
  <2>1. /\ Busy \ {e} = Busy' \ {e} /\ e \in Busy /\ e \notin Busy'
        /\ Busy \in SUBSET Endpoints /\ Busy' \in SUBSET Endpoints
    BY <1>1, <1>2, <1>3 DEF Busy, InHand
  <2>2. Cardinality(Busy) = Cardinality(Busy') + 1 /\ Cardinality(Busy') \in Nat
    BY <2>1, CountChanges
  <2>3. /\ Total(rejected) \in Nat /\ Total(placed) \in Nat
        /\ Total(accepts) = Total(rejected) + Total(placed) + Cardinality(Busy)
        /\ SessionSums /\ \A f \in Endpoints : SessionsOf(f)
    BY <1>0, CountedOnce, PartsOfProperties
  <2>4. /\ spawned \in [Endpoints -> Nat] /\ Total(spawned) \in Nat /\ Total(started) \in Nat
        /\ Total(unpolled) \in Nat /\ Total(active) \in Nat /\ Total(leaving) \in Nat
    BY <1>0, SessionTotals DEF CountersOK, SessionCounts
  <2>5. \A f \in Endpoints : SessionsOf(f)'
    BY <1>1, <2>3 DEF SessionsOf
  <2>6. CASE Spawn
    <3>1. Total(placed') = Total(placed) + 1 /\ rejected' = rejected
      BY <1>0, <1>3, <2>6, CountedOnce
    <3>2. Total(spawned') = Total(spawned) + 1
      BY <2>4, <2>6, SessionCounted
    <3>3. Total(accepts') = Total(rejected') + Total(placed') + Cardinality(Busy')
      BY <1>1, <2>2, <2>3, <3>1
    <3>4. SessionSums'
      BY <1>1, <1>2, <2>3, <2>4, <2>6, <3>1, <3>2 DEF SessionSums
    <3> QED
      BY <2>5, <3>3, <3>4 DEF EveryConnectionCounted, Busy, InHand, SessionSums, SessionsOf
  <2>7. CASE Refuse
    <3>1. Total(rejected') = Total(rejected) + 1
      BY <1>0, <1>2, <2>7, CountedOnce
    <3>2. Total(accepts') = Total(rejected') + Total(placed') + Cardinality(Busy')
      BY <1>1, <2>2, <2>3, <2>7, <3>1
    <3>3. SessionSums'
      BY <1>1, <2>3, <2>7 DEF SessionSums
    <3> QED
      BY <2>5, <3>2, <3>3 DEF EveryConnectionCounted, Busy, InHand, SessionSums, SessionsOf
  <2> QED
    BY <1>1, <2>6, <2>7
<1>8. SlotPerAttempt'
  <2> SUFFICES ASSUME limit > 0, NEW i \in Hosts
               PROVE  Len(admitted'[i]) = placed'[i] + crowded'[i] + Cardinality(Placing(i)')
    BY DEF SlotPerAttempt, Placing
  <2>0. /\ Len(admitted[i]) = placed[i] + crowded[i] + Cardinality(Placing(i))
        /\ placed[i] \in Nat /\ crowded[i] \in Nat
        /\ placed'[i] + crowded'[i] = placed[i] + crowded[i] + (IF i = h THEN 1 ELSE 0)
    <3>1. placed[i] \in Nat /\ crowded[i] \in Nat
      BY <1>2
    <3>2. /\ One(placed, h)[i] = placed[i] + (IF i = h THEN 1 ELSE 0)
          /\ One(crowded, h)[i] = crowded[i] + (IF i = h THEN 1 ELSE 0)
      BY <1>2, <3>1 DEF One
    <3>3. ASSUME Spawn
          PROVE  placed'[i] + crowded'[i] = placed[i] + crowded[i] + (IF i = h THEN 1 ELSE 0)
      <4>1. placed'[i] = placed[i] + (IF i = h THEN 1 ELSE 0) /\ crowded'[i] = crowded[i]
        BY <3>2, <3>3
      <4> QED
        BY <3>1, <4>1
    <3>4. ASSUME Refuse
          PROVE  placed'[i] + crowded'[i] = placed[i] + crowded[i] + (IF i = h THEN 1 ELSE 0)
      <4>1. crowded'[i] = crowded[i] + (IF i = h THEN 1 ELSE 0) /\ placed'[i] = placed[i]
        BY <3>2, <3>4
      <4> QED
        BY <3>1, <4>1
    <3>5. placed'[i] + crowded'[i] = placed[i] + crowded[i] + (IF i = h THEN 1 ELSE 0)
      BY <1>1, <3>3, <3>4
    <3> QED
      BY <1>0, <3>1, <3>5, PartsOfProperties
  <2>1. /\ Placing(i) \ {e} = Placing(i)' \ {e} /\ e \notin Placing(i)'
        /\ e \in Placing(i) <=> i = h
        /\ Placing(i) \in SUBSET Endpoints /\ Placing(i)' \in SUBSET Endpoints
    BY <1>1, <1>2, <1>3 DEF Placing, h
  <2>2. /\ Cardinality(Placing(i)') \in Nat
        /\ Cardinality(Placing(i)) = Cardinality(Placing(i)') + (IF i = h THEN 1 ELSE 0)
    BY <2>1, CountChanges
  <2>3. placed'[i] \in Nat /\ crowded'[i] \in Nat
    BY <1>4 DEF CountersOK, PlaceCounts
  <2>4. Len(admitted'[i]) = Len(admitted[i])
    BY <1>1
  <2> DEFINE A == Len(admitted[i])
             B == Len(admitted'[i])
             C == Cardinality(Placing(i))
             D == Cardinality(Placing(i)')
             one == IF i = h THEN 1 ELSE 0
             P == placed[i] + crowded[i]
             Q == placed'[i] + crowded'[i]
  <2>5. /\ A = P + C /\ B = A /\ C = D + one /\ Q = P + one
        /\ D \in Nat /\ one \in Nat /\ P \in Nat /\ Q \in Nat
    <3>1. P \in Nat /\ Q \in Nat /\ one \in Nat
      BY <2>0, <2>3
    <3>2. D \in Nat /\ C = D + one
      BY <2>2, Zenon
    <3>3. A = P + C /\ Q = P + one
      BY <2>0, Zenon
    <3>4. B = A
      BY <2>4, Zenon
    <3> QED
      BY <3>1, <3>2, <3>3, <3>4, Zenon
  <2> HIDE DEF A, B, C, D, one, P, Q
  <2>6. B = Q + D
    BY <2>5
  <2> QED
    BY <2>6 DEF B, D, Q
<1> QED
  BY <1>4, <1>5, <1>6, <1>7, <1>8 DEF AdmissionInv

\* Steps that touch no place an endpoint holds: what is left to show of them
\* is that the counters of the sessions still add up.
LEMMA PlacesUntouched ==
  ASSUME AdmissionInv, CountersOK', PlacesOK',
         UNCHANGED <<allowed, admitted, rejected, accepts, placed, crowded>>,
         DOMAIN map' \subseteq DOMAIN map,
         Busy' = Busy,
         SessionSums', \A e \in Endpoints : SessionsOf(e)'
  PROVE  AdmissionInv'
<1>0. IgnoredNeverAdmitted /\ EveryConnectionCounted /\ SlotPerAttempt
  BY DEF AdmissionInv
<1>1. IgnoredNeverAdmitted'
  <2>1. /\ \A i \in IgnoredHosts : admitted'[i] = <<>> /\ placed'[i] = 0
        /\ \A i \in DOMAIN map' : i.host \notin IgnoredHosts
        /\ rejected'["ignored_ip"] = Total([i \in IgnoredHosts |-> accepts'[i]])
    BY <1>0, PartsOfProperties
  <2> QED
    BY <2>1 DEF IgnoredNeverAdmitted, IgnoredHosts
<1>2. EveryConnectionCounted'
  <2>1. Total(accepts') = Total(rejected') + Total(placed') + Cardinality(Busy')
    BY <1>0, PartsOfProperties
  <2> QED
    BY <2>1 DEF EveryConnectionCounted, Busy, InHand, SessionSums, SessionsOf
<1>3. SlotPerAttempt'
  BY <1>0 DEF SlotPerAttempt
<1> QED
  BY <1>1, <1>2, <1>3 DEF AdmissionInv

\* The death of an endpoint, and the limiter's own steps: the connection of
\* an endpoint that dies inside the limiter stays in hand.
LEMMA LimiterStepsKeep ==
  ASSUME IInv, AdmissionInv, UNCHANGED <<placeVars, sessionVars>>, dropped \subseteq dropped',
         LimiterAlone \/ (\E e \in Endpoints : Poison(e)) \/ UNCHANGED vars
  PROVE  AdmissionInv'
<1>0. /\ CountersOK /\ PlacesOK /\ EveryConnectionCounted
      /\ pc \in [Tasks -> {"idle", "check", "evict", "report", "dead"}]
      /\ peer \in [Endpoints -> Peers \cup {NoPeer}]
      /\ Maintenance \notin Endpoints /\ Endpoints \subseteq Tasks /\ Maintenance \in Tasks
  BY LimiterAssumption DEF AdmissionInv, IInv, TypeOK, Tasks
<1>1. /\ UNCHANGED <<allowed, rejected, accepts, placed, crowded>>
      /\ UNCHANGED <<permits, spawned, active, closing, leaving, started, closed, panics,
                     unpolled, aborted>>
  BY DEF sessionVars, placeVars
<1>2. CountersOK'
  BY <1>0, <1>1 DEF CountersOK, PlaceCounts, SessionCounts
<1>3. SessionSums' /\ \A e \in Endpoints : SessionsOf(e)'
  <2>1. SessionSums /\ \A e \in Endpoints : SessionsOf(e)
    BY <1>0, PartsOfProperties
  <2> QED
    BY <1>1, <2>1 DEF SessionSums, SessionsOf
<1>4. CASE LimiterAlone \/ UNCHANGED vars
  <2>1. UNCHANGED <<peer, admitted>> /\ \A e \in Endpoints : pc'[e] = pc[e]
    BY <1>0, <1>4 DEF LimiterAlone, Tick, evict_idle, evict_at, tracked_ips, vars
  <2>2. DOMAIN map' \subseteq DOMAIN map
    BY <1>4 DEF LimiterAlone, Tick, evict_idle, evict_at, tracked_ips, vars
  <2>3. Busy' = Busy
    BY <1>1, <2>1 DEF Busy, InHand
  <2>4. PlacesOK'
    BY <1>0, <1>1, <2>1 DEF PlacesOK, IgnoredHosts
  <2> QED
    BY <1>1, <1>2, <1>3, <2>1, <2>2, <2>3, <2>4, PlacesUntouched
<1>5. CASE \E e \in Endpoints : Poison(e)
  <2>1. PICK e \in Endpoints : Poison(e)
    BY <1>5
  <2>2. /\ pc[e] = "check" /\ pc' = [pc EXCEPT ![e] = "dead"]
        /\ peer' = [peer EXCEPT ![e] = NoPeer] /\ UNCHANGED <<map, admitted>>
    BY <2>1 DEF Poison
  <2>3. Busy' = Busy
    BY <1>0, <1>1, <2>2 DEF Busy, InHand
  <2>4. PlacesOK'
    <3> SUFFICES ASSUME NEW f \in Endpoints
                 PROVE  /\ allowed'[f] # NoPeer =>
                             pc'[f] \notin {"check", "dead"} /\ allowed'[f].host \notin IgnoredHosts
                        /\ pc'[f] = "check" => peer'[f].host \notin IgnoredHosts
      BY DEF PlacesOK, IgnoredHosts
    <3>1. CASE f = e
      BY <1>0, <1>1, <2>2, <3>1 DEF PlacesOK
    <3>2. CASE f # e
      BY <1>0, <1>1, <2>2, <3>2 DEF PlacesOK
    <3> QED
      BY <3>1, <3>2
  <2> QED
    BY <1>1, <1>2, <1>3, <2>2, <2>3, <2>4, PlacesUntouched
<1> QED
  BY <1>4, <1>5

\* A session is polled for the first time.
LEMMA SessionStartsKeeps ==
  ASSUME SessionCounts, SessionSums, \A f \in Endpoints : SessionsOf(f),
         NEW e \in Endpoints, SessionStarts(e)
  PROVE  SessionCounts' /\ SessionSums' /\ \A f \in Endpoints : SessionsOf(f)'
<1>1. /\ spawned[e] > 0 /\ spawned' = Less(spawned, e)
      /\ started' = One(started, e) /\ active' = One(active, e)
      /\ UNCHANGED <<dropped, placed>>
      /\ UNCHANGED <<permits, closing, leaving, closed, panics, unpolled, aborted>>
  BY DEF SessionStarts, placeVars
<1>2. /\ spawned \in [Endpoints -> Nat] /\ started \in [Endpoints -> Nat]
      /\ active \in [Endpoints -> Nat]
  BY DEF SessionCounts
<1>3. /\ spawned' \in [Endpoints -> Nat] /\ Total(spawned') = Total(spawned) - 1
      /\ started' \in [Endpoints -> Nat] /\ Total(started') = Total(started) + 1
      /\ active' \in [Endpoints -> Nat] /\ Total(active') = Total(active) + 1
      /\ started'[e] = started[e] + 1 /\ active'[e] = active[e] + 1
      /\ \A f \in Endpoints : f # e => started'[f] = started[f] /\ active'[f] = active[f]
  BY <1>1, <1>2, SessionCounted
<1>4. SessionCounts'
  BY <1>1, <1>3 DEF SessionCounts
<1>5. SessionSums'
  BY <1>1, <1>3, SessionTotals DEF SessionSums
<1>6. \A f \in Endpoints : SessionsOf(f)'
  BY <1>1, <1>3 DEF SessionsOf, SessionCounts
<1> QED
  BY <1>4, <1>5, <1>6

\* A session counts its end.
LEMMA SessionClosesKeeps ==
  ASSUME SessionCounts, SessionSums, \A f \in Endpoints : SessionsOf(f),
         NEW e \in Endpoints, SessionCloses(e)
  PROVE  SessionCounts' /\ SessionSums' /\ \A f \in Endpoints : SessionsOf(f)'
<1>1. /\ active[e] > closing[e] /\ closed' = One(closed, e) /\ closing' = One(closing, e)
      /\ UNCHANGED <<dropped, placed>>
      /\ UNCHANGED <<permits, spawned, active, leaving, started, panics, unpolled, aborted>>
  BY DEF SessionCloses, placeVars
<1>2. closed \in [Endpoints -> Nat] /\ closing \in [Endpoints -> Nat]
  BY DEF SessionCounts
<1>3. /\ closed' \in [Endpoints -> Nat] /\ closing' \in [Endpoints -> Nat]
      /\ closed'[e] = closed[e] + 1 /\ closing'[e] = closing[e] + 1
      /\ \A f \in Endpoints : f # e => closed'[f] = closed[f] /\ closing'[f] = closing[f]
  BY <1>1, <1>2, SessionCounted
<1>4. SessionCounts'
  BY <1>1, <1>3 DEF SessionCounts
<1>5. SessionSums'
  BY <1>1 DEF SessionSums
<1>6. \A f \in Endpoints : SessionsOf(f)'
  <2> SUFFICES ASSUME NEW f \in Endpoints PROVE SessionsOf(f)'
    OBVIOUS
  <2>1. /\ started[f] \in Nat /\ active[f] \in Nat /\ closing[f] \in Nat /\ closed[f] \in Nat
        /\ panics[f] \in Nat /\ aborted[f] \in Nat
        /\ SessionsOf(f)
    BY DEF SessionCounts
  <2>2. CASE f = e
    BY <1>1, <1>3, <2>1, <2>2 DEF SessionsOf
  <2>3. CASE f # e
    BY <1>1, <1>3, <2>1, <2>3 DEF SessionsOf
  <2> QED
    BY <2>2, <2>3
<1> QED
  BY <1>4, <1>5, <1>6

\* A session is left without its guard: closed, panicked or aborted.
LEMMA SessionLeavesKeeps ==
  ASSUME SessionCounts, SessionSums, \A f \in Endpoints : SessionsOf(f),
         NEW e \in Endpoints, active[e] > 0,
         active' = Less(active, e), leaving' = One(leaving, e),
         \/ closing[e] > 0 /\ closing' = Less(closing, e) /\ UNCHANGED <<panics, aborted>>
         \/ active[e] > closing[e] /\ panics' = One(panics, e) /\ UNCHANGED <<closing, aborted>>
         \/ /\ e \in dropped /\ active[e] > closing[e] /\ aborted' = One(aborted, e)
            /\ UNCHANGED <<closing, panics>>,
         UNCHANGED <<dropped, placed, permits, spawned, started, closed, unpolled>>
  PROVE  SessionCounts' /\ SessionSums' /\ \A f \in Endpoints : SessionsOf(f)'
<1>1. /\ active \in [Endpoints -> Nat] /\ leaving \in [Endpoints -> Nat]
      /\ closing \in [Endpoints -> Nat] /\ panics \in [Endpoints -> Nat]
      /\ aborted \in [Endpoints -> Nat]
  BY DEF SessionCounts
<1>2. /\ active' \in [Endpoints -> Nat] /\ Total(active') = Total(active) - 1
      /\ leaving' \in [Endpoints -> Nat] /\ Total(leaving') = Total(leaving) + 1
      /\ active'[e] = active[e] - 1
      /\ \A f \in Endpoints : f # e => active'[f] = active[f]
  BY <1>1, SessionCounted
<1>3. /\ closing' \in [Endpoints -> Nat] /\ panics' \in [Endpoints -> Nat]
      /\ aborted' \in [Endpoints -> Nat]
      /\ \/ /\ closing[e] > 0 /\ closing'[e] = closing[e] - 1
            /\ panics'[e] = panics[e] /\ aborted'[e] = aborted[e]
         \/ /\ active[e] > closing[e] /\ closing'[e] = closing[e]
            /\ panics'[e] = panics[e] + 1 /\ aborted'[e] = aborted[e]
         \/ /\ active[e] > closing[e] /\ closing'[e] = closing[e]
            /\ panics'[e] = panics[e] /\ aborted'[e] = aborted[e] + 1 /\ e \in dropped
      /\ \A f \in Endpoints : f # e => /\ closing'[f] = closing[f]
                                       /\ panics'[f] = panics[f] /\ aborted'[f] = aborted[f]
  <2>1. CASE closing[e] > 0 /\ closing' = Less(closing, e) /\ UNCHANGED <<panics, aborted>>
    BY <1>1, <2>1, SessionCounted
  <2>2. CASE active[e] > closing[e] /\ panics' = One(panics, e) /\ UNCHANGED <<closing, aborted>>
    BY <1>1, <2>2, SessionCounted
  <2>3. CASE /\ e \in dropped /\ active[e] > closing[e] /\ aborted' = One(aborted, e)
             /\ UNCHANGED <<closing, panics>>
    BY <1>1, <2>3, SessionCounted
  <2> QED
    BY <2>1, <2>2, <2>3
<1>4. SessionCounts'
  <2> SUFFICES ASSUME NEW f \in Endpoints PROVE closing'[f] <= active'[f]
    BY <1>2, <1>3 DEF SessionCounts
  <2>1. /\ closing[f] \in Nat /\ active[f] \in Nat /\ closing[f] <= active[f]
    BY DEF SessionCounts
  <2>2. CASE f = e
    BY <1>2, <1>3, <2>1, <2>2
  <2>3. CASE f # e
    BY <1>2, <1>3, <2>1, <2>3
  <2> QED
    BY <2>2, <2>3
<1>5. SessionSums'
  BY <1>2, SessionTotals DEF SessionSums
<1>6. \A f \in Endpoints : SessionsOf(f)'
  <2> SUFFICES ASSUME NEW f \in Endpoints PROVE SessionsOf(f)'
    OBVIOUS
  <2>1. /\ started[f] \in Nat /\ active[f] \in Nat /\ closing[f] \in Nat /\ closed[f] \in Nat
        /\ panics[f] \in Nat /\ aborted[f] \in Nat /\ unpolled[f] \in Nat
        /\ SessionsOf(f)
    BY DEF SessionCounts
  <2>2. CASE f = e
    <3>1. /\ started[e] = (active[e] - closing[e]) + closed[e] + panics[e] + aborted[e]
          /\ e \notin dropped => unpolled[e] + aborted[e] = 0
      BY <2>1, <2>2 DEF SessionsOf
    <3>2. started[e] = (active'[e] - closing'[e]) + closed[e] + panics'[e] + aborted'[e]
      BY <1>2, <1>3, <2>1, <2>2, <3>1
    <3>3. e \notin dropped => unpolled[e] + aborted'[e] = 0
      BY <1>3, <3>1
    <3> QED
      BY <2>2, <3>2, <3>3 DEF SessionsOf
  <2>3. CASE f # e
    BY <1>2, <1>3, <2>1, <2>3 DEF SessionsOf
  <2> QED
    BY <2>2, <2>3
<1> QED
  BY <1>4, <1>5, <1>6

\* A session that was never polled is dropped with its endpoint.
LEMMA UnpolledKeeps ==
  ASSUME SessionCounts, SessionSums, \A f \in Endpoints : SessionsOf(f),
         NEW e \in Endpoints, e \in dropped, spawned[e] > 0,
         spawned' = Less(spawned, e), unpolled' = One(unpolled, e), leaving' = One(leaving, e),
         UNCHANGED <<dropped, placed, permits, active, closing, started, closed, panics, aborted>>
  PROVE  SessionCounts' /\ SessionSums' /\ \A f \in Endpoints : SessionsOf(f)'
<1>1. /\ spawned \in [Endpoints -> Nat] /\ unpolled \in [Endpoints -> Nat]
      /\ leaving \in [Endpoints -> Nat]
  BY DEF SessionCounts
<1>2. /\ spawned' \in [Endpoints -> Nat] /\ Total(spawned') = Total(spawned) - 1
      /\ unpolled' \in [Endpoints -> Nat] /\ Total(unpolled') = Total(unpolled) + 1
      /\ leaving' \in [Endpoints -> Nat] /\ Total(leaving') = Total(leaving) + 1
      /\ \A f \in Endpoints : f # e => unpolled'[f] = unpolled[f]
  BY <1>1, SessionCounted
<1>3. SessionCounts'
  BY <1>2 DEF SessionCounts
<1>4. SessionSums'
  BY <1>2, SessionTotals DEF SessionSums
<1>5. \A f \in Endpoints : SessionsOf(f)'
  BY <1>2 DEF SessionsOf
<1> QED
  BY <1>3, <1>4, <1>5

\* The permit comes back.
LEMMA PermitDroppedKeeps ==
  ASSUME SessionCounts, SessionSums, \A f \in Endpoints : SessionsOf(f),
         NEW e \in Endpoints, PermitDropped(e)
  PROVE  SessionCounts' /\ SessionSums' /\ \A f \in Endpoints : SessionsOf(f)'
<1>1. /\ leaving[e] > 0 /\ leaving' = Less(leaving, e) /\ permits' = permits + 1
      /\ UNCHANGED <<dropped, placed>>
      /\ UNCHANGED <<spawned, active, closing, started, closed, panics, unpolled, aborted>>
  BY DEF PermitDropped, placeVars
<1>2. leaving \in [Endpoints -> Nat] /\ permits \in Nat
  BY DEF SessionCounts
<1>3. leaving' \in [Endpoints -> Nat] /\ Total(leaving') = Total(leaving) - 1
  BY <1>1, <1>2, SessionCounted
<1>4. SessionCounts'
  BY <1>1, <1>2, <1>3 DEF SessionCounts
<1>5. SessionSums'
  BY <1>1, <1>3, SessionTotals DEF SessionSums
<1>6. \A f \in Endpoints : SessionsOf(f)'
  BY <1>1 DEF SessionsOf
<1> QED
  BY <1>4, <1>5, <1>6

\* The steps of the sessions.
LEMMA SessionStepsKeep ==
  ASSUME AdmissionInv, NEW e \in Endpoints, SessionStep(e)
  PROVE  AdmissionInv'
<1>0. /\ CountersOK /\ PlacesOK /\ SessionCounts /\ PlaceCounts
      /\ SessionSums /\ \A f \in Endpoints : SessionsOf(f)
  BY PartsOfProperties DEF AdmissionInv, CountersOK
<1>1. /\ UNCHANGED <<allowed, rejected, accepts, placed, crowded, pc, peer, map, admitted>>
  BY DEF SessionStep, SessionStarts, SessionCloses, SessionEnds, SessionDropped, PermitDropped,
         placeVars, vars
<1>2. /\ active[e] \in Nat /\ closing[e] \in Nat /\ closing[e] <= active[e]
  BY <1>0 DEF SessionCounts
<1>3. SessionCounts' /\ SessionSums' /\ \A f \in Endpoints : SessionsOf(f)'
  <2>1. CASE SessionStarts(e)
    BY <1>0, <2>1, SessionStartsKeeps
  <2>2. CASE SessionCloses(e)
    BY <1>0, <2>2, SessionClosesKeeps
  <2>3. CASE SessionEnds(e)
    <3>1. /\ active' = Less(active, e) /\ leaving' = One(leaving, e)
          /\ UNCHANGED <<dropped, permits, spawned, started, closed, unpolled, aborted>>
          /\ \/ closing[e] > 0 /\ closing' = Less(closing, e) /\ UNCHANGED panics
             \/ active[e] > closing[e] /\ panics' = One(panics, e) /\ UNCHANGED closing
      BY <2>3 DEF SessionEnds
    <3>2. active[e] > 0
      BY <1>2, <3>1
    <3> QED
      BY <1>0, <1>1, <3>1, <3>2, SessionLeavesKeeps
  <2>4. CASE SessionDropped(e)
    <3>1. /\ e \in dropped /\ leaving' = One(leaving, e)
          /\ UNCHANGED <<dropped, permits, closing, started, closed, panics>>
          /\ \/ /\ spawned[e] > 0 /\ spawned' = Less(spawned, e)
                /\ unpolled' = One(unpolled, e) /\ UNCHANGED <<active, aborted>>
             \/ /\ active[e] > closing[e] /\ active' = Less(active, e)
                /\ aborted' = One(aborted, e) /\ UNCHANGED <<spawned, unpolled>>
      BY <2>4 DEF SessionDropped
    <3>2. CASE /\ spawned[e] > 0 /\ spawned' = Less(spawned, e)
               /\ unpolled' = One(unpolled, e) /\ UNCHANGED <<active, aborted>>
      BY <1>0, <1>1, <3>1, <3>2, UnpolledKeeps
    <3>3. CASE /\ active[e] > closing[e] /\ active' = Less(active, e)
               /\ aborted' = One(aborted, e) /\ UNCHANGED <<spawned, unpolled>>
      <4>1. active[e] > 0
        BY <1>2, <3>3
      <4> QED
        BY <1>0, <1>1, <3>1, <3>3, <4>1, SessionLeavesKeeps
    <3> QED
      BY <3>1, <3>2, <3>3
  <2>5. CASE PermitDropped(e)
    BY <1>0, <2>5, PermitDroppedKeeps
  <2> QED
    BY <2>1, <2>2, <2>3, <2>4, <2>5 DEF SessionStep
<1>4. CountersOK'
  BY <1>0, <1>1, <1>3 DEF CountersOK, PlaceCounts
<1>5. PlacesOK' /\ Busy' = Busy
  BY <1>0, <1>1 DEF PlacesOK, IgnoredHosts, Busy, InHand
<1> QED
  BY <1>1, <1>3, <1>4, <1>5, PlacesUntouched

-----------------------------------------------------------------------------
(* The theorems                                                            *)

\* run_endpoint uses the limiter as its module says: every step of the
\* admission is one of the limiter's or leaves it alone, so that all that is
\* proved of the limiter holds of it here.
THEOREM AdmissionUsesLimiter == AdmissionSpec => Spec
<1>1. AdmissionInit => Init
  BY DEF AdmissionInit
<1>2. [AdmissionNext]_admissionVars => [Next]_vars
  <2> SUFFICES ASSUME [AdmissionNext]_admissionVars PROVE Next \/ UNCHANGED vars
    OBVIOUS
  <2>1. CASE \E e \in Endpoints : EndpointStep(e)
    BY <2>1 DEF EndpointStep, accept, decide, try_acquire, EndpointPanics, EndpointAborted, Next
  <2>2. CASE LimiterAlone
    BY <2>2 DEF LimiterAlone, Next
  <2>3. CASE \E e \in Endpoints : SessionStep(e)
    BY <2>3 DEF SessionStep, SessionStarts, SessionCloses, SessionEnds, SessionDropped,
                PermitDropped
  <2>4. CASE UNCHANGED admissionVars
    BY <2>4 DEF admissionVars
  <2> QED
    BY <2>1, <2>2, <2>3, <2>4 DEF AdmissionNext
<1> QED
  BY <1>1, <1>2, PTL DEF AdmissionSpec, Spec

\* The invariant of admission, on top of the limiter's.
THEOREM AdmissionInvariant == AdmissionSpec => [](IInv /\ AdmissionInv)
<1>1. IInv /\ AdmissionInv /\ [AdmissionNext]_admissionVars => AdmissionInv'
  <2> SUFFICES ASSUME IInv, AdmissionInv, [AdmissionNext]_admissionVars PROVE AdmissionInv'
    OBVIOUS
  <2>1. CASE \E e \in Endpoints : \E ip \in Peers : accept(e, ip)
    BY <2>1, AcceptKeeps
  <2>2. CASE \E e \in Endpoints : decide(e)
    BY <2>2, DecideKeeps
  <2>3. CASE \E e \in Endpoints : try_acquire(e)
    BY <2>3, TryAcquireKeeps
  <2>4. CASE \E e \in Endpoints : EndpointPanics(e) \/ EndpointAborted(e)
    BY <2>4, LimiterStepsKeep DEF EndpointPanics, EndpointAborted
  <2>5. CASE LimiterAlone /\ UNCHANGED <<dropped, placeVars, sessionVars>>
    BY <2>5, LimiterStepsKeep
  <2>6. CASE \E e \in Endpoints : SessionStep(e)
    BY <2>6, SessionStepsKeep
  <2>7. CASE UNCHANGED admissionVars
    BY <2>7, LimiterStepsKeep DEF admissionVars
  <2> QED
    BY <2>1, <2>2, <2>3, <2>4, <2>5, <2>6, <2>7 DEF AdmissionNext, EndpointStep
<1>2. AdmissionSpec => []IInv
  BY AdmissionUsesLimiter, LimiterInvariant, PTL
<1> QED
  BY <1>1, <1>2, AdmissionStarts, PTL DEF AdmissionSpec

\* A host on the exclusion list gets no bucket, no slot and no session, in
\* neither of its spellings, whatever the list, the peers and the endpoints.
THEOREM IgnoredStayOut == AdmissionSpec => []IgnoredNeverAdmitted
BY AdmissionInvariant, PTL DEF AdmissionInv

\* Every accepted connection is counted exactly once, as a refusal or as a
\* session, unless the endpoint that had it died before the session began;
\* every session that began has closed, panicked, is active or was aborted
\* with its endpoint; and every permit is free or held by one session.
THEOREM ConnectionsAddUp == AdmissionSpec => []EveryConnectionCounted
BY AdmissionInvariant, PTL DEF AdmissionInv

\* The slots a host has used are its sessions and its refusals for want of a
\* permit.
THEOREM SlotsAreAttempts == AdmissionSpec => []SlotPerAttempt
BY AdmissionInvariant, PTL DEF AdmissionInv

=============================================================================
