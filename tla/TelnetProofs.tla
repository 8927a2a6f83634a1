---------------------------- MODULE TelnetProofs ----------------------------
(***************************************************************************)
(* The proof of TelnetFaithful, for every stream, every way its bytes are  *)
(* cut into reads, every MAX_LINE and MAX_ATTEMPTS, and every end.         *)
(*                                                                         *)
(* The reference of TelnetFaithful decodes the whole stream at once, takes *)
(* its lines and pairs them into logins; the handler does each byte by     *)
(* byte.  At each of the three levels the proof says what the reference    *)
(* makes of every longer input, given what the handler keeps: DecodedAt,   *)
(* LinesAt and LoginsAt.                                                   *)
(***************************************************************************)
EXTENDS SessionProofs

-----------------------------------------------------------------------------
(* Recursive functions: the reference's are functions over positions, and  *)
(* each recursion goes towards the end of the input                        *)

\* step defines a function from D to V by a recursion that goes down in rank.
Recursion(D, V, most, rank, step) ==
  /\ most \in Nat /\ rank \in [D -> 0..most]
  /\ V # {} /\ step \in [D \X [D -> V] -> V]
  /\ \A x \in D, f, g \in [D -> V] :
       (\A y \in D : rank[y] < rank[x] => f[y] = g[y]) => step[<<x, f>>] = step[<<x, g>>]

\* Such a function exists.
LEMMA RecursionExists ==
  ASSUME NEW D, NEW V, NEW most, NEW rank, NEW step, Recursion(D, V, most, rank, step)
  PROVE  \E f \in [D -> V] : \A x \in D : f[x] = step[<<x, f>>]
<1>0. /\ most \in Nat /\ rank \in [D -> 0..most]
      /\ V # {} /\ step \in [D \X [D -> V] -> V]
      /\ \A x \in D, f, g \in [D -> V] :
           (\A y \in D : rank[y] < rank[x] => f[y] = g[y]) => step[<<x, f>>] = step[<<x, g>>]
  BY DEF Recursion
<1>s. PICK some : some \in V
  BY <1>0
<1> DEFINE Q(n) == \E f \in [D -> V] : \A x \in D : rank[x] < n => f[x] = step[<<x, f>>]
           N == {n \in Nat : Q(n)}
<1>1. 0 \in N
  <2>1. [x \in D |-> some] \in [D -> V]
    BY <1>s
  <2>2. \A x \in D : ~(rank[x] < 0)
    BY <1>0
  <2> QED
    BY <2>1, <2>2
<1>2. ASSUME NEW n \in N PROVE n + 1 \in N
  <2>1. n \in Nat /\ Q(n)
    OBVIOUS
  <2>2. PICK f \in [D -> V] : \A x \in D : rank[x] < n => f[x] = step[<<x, f>>]
    BY <2>1
  <2> DEFINE g == [x \in D |-> IF rank[x] = n THEN step[<<x, f>>] ELSE f[x]]
  <2>3. g \in [D -> V]
    <3>1. \A x \in D : step[<<x, f>>] \in V
      BY <1>0
    <3> QED
      BY <3>1
  <2>4. ASSUME NEW x \in D, rank[x] < n + 1 PROVE g[x] = step[<<x, g>>]
    <3>1. rank[x] \in Nat /\ rank[x] <= n
      BY <1>0, <2>1, <2>4
    <3>2. \A y \in D : rank[y] < rank[x] => g[y] = f[y]
      BY <2>1, <3>1
    <3> HIDE DEF g
    <3>3. step[<<x, g>>] = step[<<x, f>>]
      BY <1>0, <2>2, <2>3, <3>2
    <3>4. g[x] = step[<<x, f>>]
      BY <2>1, <2>2, <3>1 DEF g
    <3> QED
      BY <3>3, <3>4
  <2> HIDE DEF g
  <2>5. Q(n + 1)
    BY <2>3, <2>4
  <2> QED
    BY <2>1, <2>5
<1> HIDE DEF N
<1>3. N = Nat
  <2>1. N \in SUBSET Nat
    BY DEF N
  <2> QED
    BY <2>1, <1>1, <1>2, Inductive
<1>4. most + 1 \in N
  BY <1>0, <1>3
<1>q. Q(most + 1)
  <2> HIDE DEF Q
  <2> QED
    BY <1>4 DEF N
<1>5. \A x \in D : rank[x] < most + 1
  BY <1>0
<1> QED
  BY <1>q, <1>5

-----------------------------------------------------------------------------
(* Sequences that are put together                                         *)

\* It does not matter which two of three are put together first.
Together(s, t, u) == (s \o t) \o u = s \o (t \o u)

LEMMA AnyOrder ==
  ASSUME NEW S, NEW s \in Seq(S), NEW t \in Seq(S), NEW u \in Seq(S)
  PROVE  Together(s, t, u)
<1> DEFINE a == (s \o t) \o u
           b == s \o (t \o u)
           l == Len(s)
           m == Len(t)
           n == Len(u)
<1>1. l \in Nat /\ m \in Nat /\ n \in Nat
  BY LenProperties
<1>2. /\ s \o t \in Seq(S) /\ Len(s \o t) = l + m
      /\ \A i \in 1..(l + m) : (s \o t)[i] = IF i <= l THEN s[i] ELSE t[i - l]
  BY ConcatProperties
<1>3. /\ t \o u \in Seq(S) /\ Len(t \o u) = m + n
      /\ \A i \in 1..(m + n) : (t \o u)[i] = IF i <= m THEN t[i] ELSE u[i - m]
  BY ConcatProperties
<1> DEFINE st == s \o t
           tu == t \o u
<1> HIDE DEF st, tu
<1>4. /\ a \in Seq(S) /\ Len(a) = (l + m) + n
      /\ \A i \in 1..((l + m) + n) : a[i] = IF i <= l + m THEN st[i] ELSE u[i - (l + m)]
  <2>1. st \in Seq(S) /\ Len(st) = l + m /\ a = st \o u
    BY <1>2 DEF st
  <2>2. /\ st \o u \in Seq(S) /\ Len(st \o u) = Len(st) + Len(u)
        /\ \A i \in 1..(Len(st) + Len(u)) :
             (st \o u)[i] = IF i <= Len(st) THEN st[i] ELSE u[i - Len(st)]
    BY <2>1, ConcatProperties
  <2>3. Len(u) = n
    OBVIOUS
  <2> HIDE DEF a, l, m, n
  <2> QED
    BY <2>1, <2>2, <2>3
<1>5. /\ b \in Seq(S) /\ Len(b) = l + (m + n)
      /\ \A i \in 1..(l + (m + n)) : b[i] = IF i <= l THEN s[i] ELSE tu[i - l]
  <2>1. tu \in Seq(S) /\ Len(tu) = m + n /\ b = s \o tu
    BY <1>3 DEF tu
  <2>2. /\ s \o tu \in Seq(S) /\ Len(s \o tu) = Len(s) + Len(tu)
        /\ \A i \in 1..(Len(s) + Len(tu)) :
             (s \o tu)[i] = IF i <= Len(s) THEN s[i] ELSE tu[i - Len(s)]
    BY <2>1, ConcatProperties
  <2>3. Len(s) = l
    OBVIOUS
  <2> HIDE DEF b, l, m, n
  <2> QED
    BY <2>1, <2>2, <2>3
<1>6. \A i \in 1..(l + m) : st[i] = IF i <= l THEN s[i] ELSE t[i - l]
  BY <1>2 DEF st
<1>7. \A i \in 1..(m + n) : tu[i] = IF i <= m THEN t[i] ELSE u[i - m]
  BY <1>3 DEF tu
<1> HIDE DEF a, b, l, m, n
<1>8. \A i \in 1..Len(a) : a[i] = b[i]
  <2> SUFFICES ASSUME NEW i \in 1..((l + m) + n) PROVE a[i] = b[i]
    BY <1>4
  <2>1. CASE i <= l
    BY <1>1, <1>4, <1>5, <1>6, <2>1
  <2>2. CASE i > l /\ i <= l + m
    <3>1. a[i] = t[i - l] /\ b[i] = tu[i - l]
      <4>1. i \in 1..(l + m) /\ i \in 1..((l + m) + n) /\ i \in 1..(l + (m + n)) /\ ~(i <= l)
        BY <1>1, <2>2
      <4>2. a[i] = st[i] /\ st[i] = t[i - l]
        BY <1>4, <1>6, <2>2, <4>1
      <4>3. b[i] = tu[i - l]
        BY <1>5, <4>1
      <4> QED
        BY <4>2, <4>3
    <3>2. i - l \in 1..(m + n) /\ i - l <= m
      BY <1>1, <2>2
    <3> QED
      BY <1>7, <3>1, <3>2
  <2>3. CASE i > l + m
    <3>1. a[i] = u[i - (l + m)] /\ b[i] = tu[i - l]
      BY <1>1, <1>4, <1>5, <2>3
    <3>2. i - l \in 1..(m + n) /\ ~(i - l <= m) /\ (i - l) - m = i - (l + m)
      BY <1>1, <2>3
    <3> QED
      BY <1>7, <3>1, <3>2
  <2> QED
    BY <1>1, <2>1, <2>2, <2>3
<1>9. a = b
  BY <1>1, <1>4, <1>5, <1>8, SeqEqual
<1> QED
  BY <1>9 DEF Together, a, b

\* An element between two sequences ends the first or begins the second.
Placed(s, x, t) == s \o (<<x>> \o t) = Append(s, x) \o t

LEMMA EitherPlace ==
  ASSUME NEW S, NEW s \in Seq(S), NEW x \in S, NEW t \in Seq(S)
  PROVE  Placed(s, x, t)
<1> DEFINE one == <<x>>
<1>1. one \in Seq(S) /\ Append(s, x) = s \o one
  BY AppendIsConcat
<1> HIDE DEF one
<1>2. Together(s, one, t)
  BY <1>1, AnyOrder
<1>3. s \o (one \o t) = Append(s, x) \o t
  BY <1>1, <1>2, Zenon DEF Together
<1> QED
  BY <1>3, Zenon DEF Placed, one

\* An element behind two sequences is behind the second.
Behind(s, t, x) == Append(s \o t, x) = s \o Append(t, x)

LEMMA BehindSecond ==
  ASSUME NEW S, NEW s \in Seq(S), NEW t \in Seq(S), NEW x \in S
  PROVE  Behind(s, t, x)
<1> DEFINE one == <<x>>
           st == s \o t
<1>1. one \in Seq(S) /\ st \in Seq(S)
  BY ConcatProperties
<1>2. Append(t, x) = t \o one
  BY AppendIsConcat
<1>3. Append(st, x) = st \o one
  <2> HIDE DEF st
  <2> QED
    BY <1>1, AppendIsConcat
<1> HIDE DEF one
<1>4. Together(s, t, one)
  BY <1>1, AnyOrder
<1> QED
  BY <1>2, <1>3, <1>4, Zenon DEF Together, Behind, st

-----------------------------------------------------------------------------
(* What begins with a sequence                                             *)

\* t begins with s.
Extends(s, t) == Len(s) <= Len(t) /\ \A i \in 1..Len(s) : t[i] = s[i]

\* What begins with a longer sequence begins with the shorter one.
LEMMA ExtendsMore ==
  ASSUME NEW S, NEW s \in Seq(S), NEW x \in S, NEW t \in Seq(S), Extends(Append(s, x), t)
  PROVE  Extends(s, t) /\ Len(t) \in Nat /\ Len(s) + 1 <= Len(t) /\ t[Len(s) + 1] = x
<1>1. /\ Len(s) \in Nat /\ Len(t) \in Nat
      /\ Len(Append(s, x)) = Len(s) + 1
      /\ \A i \in 1..Len(s) : Append(s, x)[i] = s[i]
      /\ Append(s, x)[Len(s) + 1] = x
  OBVIOUS
<1> QED
  BY <1>1 DEF Extends

\* A sequence begins with itself.
LEMMA ExtendsItself ==
  ASSUME NEW S, NEW s \in Seq(S)
  PROVE  Extends(s, s)
BY DEF Extends


-----------------------------------------------------------------------------
(* The decoder: subnegotiations                                            *)

\* The recursive function of SubnegotiationEnd.
AfterOf(f, s) ==
  f = [k \in 1..(Len(s) + 2) |->
         IF k >= Len(s) THEN Len(s) + 1
         ELSE IF s[k] # "IAC" THEN f[k + 1]
         ELSE IF s[k + 1] = "SE" THEN k + 2
         ELSE f[k + 2]]

After(s) == CHOOSE f : AfterOf(f, s)

\* It has a solution.
LEMMA AfterExists ==
  ASSUME NEW S, NEW s \in Seq(S)
  PROVE  AfterOf(After(s), s)
<1> DEFINE n == Len(s)
           most == n + 2
           D == 1..most
           V == 1..(n + 1)
           next(f, k) == IF k >= n THEN n + 1
                         ELSE IF s[k] # "IAC" THEN f[k + 1]
                         ELSE IF s[k + 1] = "SE" THEN k + 2
                         ELSE f[k + 2]
           step == [p \in D \X [D -> V] |-> next(p[2], p[1])]
           rank == [k \in D |-> most - k]
<1>0. n \in Nat /\ most \in Nat /\ 1 \in V
  OBVIOUS
<1>1. rank \in [D -> 0..most] /\ \A k \in D : rank[k] = most - k
  BY <1>0
<1>2. \A f \in [D -> V], k \in D : next(f, k) \in V
  BY <1>0
<1>3. ASSUME NEW k \in D, NEW f \in [D -> V], NEW g \in [D -> V],
             \A y \in D : rank[y] < rank[k] => f[y] = g[y]
      PROVE  next(f, k) = next(g, k)
  <2> HIDE DEF rank
  <2>1. ASSUME k < n
        PROVE  f[k + 1] = g[k + 1] /\ f[k + 2] = g[k + 2]
    <3>1. k + 1 \in D /\ k + 2 \in D
      BY <1>0, <2>1
    <3>2. /\ rank[k] = most - k
          /\ rank[k + 1] = most - (k + 1)
          /\ rank[k + 2] = most - (k + 2)
      BY <1>1, <3>1
    <3>3. rank[k + 1] < rank[k] /\ rank[k + 2] < rank[k]
      BY <1>0, <3>2
    <3> QED
      BY <1>3, <3>1, <3>3
  <2> QED
    BY <1>0, <2>1
<1> HIDE DEF D, V, rank, next, most
<1>4. step \in [D \X [D -> V] -> V]
  BY <1>2
<1>5. \A k \in D, f \in [D -> V] : step[<<k, f>>] = next(f, k)
  OBVIOUS
<1> HIDE DEF step
<1>6. \A k \in D, f, g \in [D -> V] :
        (\A y \in D : rank[y] < rank[k] => f[y] = g[y]) => step[<<k, f>>] = step[<<k, g>>]
  BY <1>3, <1>5
<1>7. PICK f \in [D -> V] : \A k \in D : f[k] = step[<<k, f>>]
  <2>1. Recursion(D, V, most, rank, step)
    BY <1>0, <1>1, <1>4, <1>6 DEF Recursion
  <2> QED
    BY <2>1, RecursionExists
<1>8. f = [k \in D |-> next(f, k)]
  BY <1>5, <1>7
<1>9. AfterOf(f, s)
  BY <1>8 DEF AfterOf, D, next, most
<1> QED
  BY <1>9, Zenon DEF After

\* What SubnegotiationEnd is, position by position.
EndAt(s, i, end) ==
  /\ end \in i..(Len(s) + 1)
  /\ i >= Len(s) => end = Len(s) + 1
  /\ i < Len(s) =>
       /\ s[i] # "IAC" => end = SubnegotiationEnd(s, i + 1)
       /\ s[i] = "IAC" /\ s[i + 1] = "SE" => end = i + 2
       /\ s[i] = "IAC" /\ s[i + 1] # "SE" => end = SubnegotiationEnd(s, i + 2)

\* It answers that at every position.
LEMMA SubnegotiationEndIs ==
  ASSUME NEW S, NEW s \in Seq(S), NEW i \in 1..(Len(s) + 1)
  PROVE  EndAt(s, i, SubnegotiationEnd(s, i))
<1> DEFINE n == Len(s)
           f == After(s)
           N == {m \in Nat : \A k \in 1..(n + 1) : n + 1 - k <= m => f[k] \in k..(n + 1)}
<1>0. n \in Nat
  OBVIOUS
<1>1. \A k : SubnegotiationEnd(s, k) = f[k]
  BY SMT DEF SubnegotiationEnd, After, AfterOf
<1>2. \A k \in 1..(n + 2) :
        f[k] = IF k >= n THEN n + 1
               ELSE IF s[k] # "IAC" THEN f[k + 1]
               ELSE IF s[k + 1] = "SE" THEN k + 2
               ELSE f[k + 2]
  <2>1. AfterOf(f, s)
    BY AfterExists
  <2> HIDE DEF f
  <2> QED
    BY <2>1 DEF AfterOf
<1> HIDE DEF n, f
<1>3. 0 \in N
  <2>1. \A k \in 1..(n + 1) : n + 1 - k <= 0 => k = n + 1
    BY <1>0
  <2>2. f[n + 1] = n + 1
    BY <1>0, <1>2
  <2> QED
    BY <1>0, <2>1, <2>2
<1>4. ASSUME NEW m \in N PROVE m + 1 \in N
  <2> SUFFICES ASSUME NEW k \in 1..(n + 1), n + 1 - k <= m + 1 PROVE f[k] \in k..(n + 1)
    BY <1>4
  <2>1. \A j \in 1..(n + 1) : n + 1 - j <= m => f[j] \in j..(n + 1)
    BY <1>4
  <2>2. k \in 1..(n + 2) /\ m \in Nat
    BY <1>0, <1>4
  <2> HIDE DEF N
  <2>3. CASE k >= n
    BY <1>0, <1>2, <2>2, <2>3
  <2>4. CASE k < n
    <3>1. f[k + 1] \in k..(n + 1) /\ f[k + 2] \in k..(n + 1)
      <4>1. /\ k + 1 \in 1..(n + 1) /\ k + 2 \in 1..(n + 1)
            /\ n + 1 - (k + 1) <= m /\ n + 1 - (k + 2) <= m
        BY <1>0, <2>2, <2>4
      <4>2. f[k + 1] \in (k + 1)..(n + 1) /\ f[k + 2] \in (k + 2)..(n + 1)
        BY <2>1, <4>1
      <4> QED
        BY <1>0, <4>2
    <3>2. f[k] \in {f[k + 1], k + 2, f[k + 2]}
      BY <1>0, <1>2, <2>2, <2>4
    <3> QED
      BY <1>0, <2>4, <3>1, <3>2
  <2> QED
    BY <1>0, <2>3, <2>4
<1>5. N = Nat
  <2> HIDE DEF N
  <2>1. N \in SUBSET Nat
    BY DEF N
  <2> QED
    BY <2>1, <1>3, <1>4, Inductive
<1>6. f[i] \in i..(n + 1)
  <2>1. i \in 1..(n + 1) /\ n + 1 - i \in Nat
    BY <1>0 DEF n
  <2>2. n + 1 - i \in N
    BY <1>5, <2>1
  <2> QED
    BY <2>1, <2>2
<1>7. f[i] = IF i >= n THEN n + 1
             ELSE IF s[i] # "IAC" THEN f[i + 1]
             ELSE IF s[i + 1] = "SE" THEN i + 2
             ELSE f[i + 2]
  <2>1. i \in 1..(n + 2)
    BY <1>0 DEF n
  <2> QED
    BY <1>2, <2>1
<1>8. i \in Nat
  BY <1>0 DEF n
<1> QED
  BY <1>0, <1>1, <1>6, <1>7, <1>8 DEF EndAt, n

-----------------------------------------------------------------------------
(* The decoder: the data of a stream                                       *)

\* The recursive function of Decoded.
FromOf(f, s) ==
  f = [k \in 1..(Len(s) + 3) |->
         IF k > Len(s) THEN <<>>
         ELSE IF s[k] # "IAC" THEN <<s[k]>> \o f[k + 1]
         ELSE IF k = Len(s) THEN <<>>
         ELSE CASE s[k + 1] = "IAC"  -> <<"IAC">> \o f[k + 2]
                [] s[k + 1] = "WILL" -> f[k + 3]
                [] s[k + 1] = "SB"   -> f[SubnegotiationEnd(s, k + 2)]
                [] OTHER             -> f[k + 2]]

From(s) == CHOOSE f : FromOf(f, s)

\* It has a solution.
LEMMA FromExists ==
  ASSUME NEW S, NEW s \in Seq(S)
  PROVE  FromOf(From(s), s)
<1> DEFINE n == Len(s)
           most == n + 3
           D == 1..most
           V == Seq(S)
           next(f, k) ==
             IF k > n THEN <<>>
             ELSE IF s[k] # "IAC" THEN <<s[k]>> \o f[k + 1]
             ELSE IF k = n THEN <<>>
             ELSE CASE s[k + 1] = "IAC"  -> <<"IAC">> \o f[k + 2]
                    [] s[k + 1] = "WILL" -> f[k + 3]
                    [] s[k + 1] = "SB"   -> f[SubnegotiationEnd(s, k + 2)]
                    [] OTHER             -> f[k + 2]
           step == [p \in D \X [D -> V] |-> next(p[2], p[1])]
           rank == [k \in D |-> most - k]
<1>0. n \in Nat /\ most \in Nat /\ V # {} /\ n + 3 = most
  <2>1. <<>> \in V
    OBVIOUS
  <2> QED
    BY <2>1
<1>1. rank \in [D -> 0..most] /\ \A k \in D : rank[k] = most - k
  BY <1>0
<1>2. ASSUME NEW k \in D, k <= n
      PROVE  /\ s[k] \in S /\ k + 1 \in D /\ k + 2 \in D /\ k + 3 \in D
             /\ k < n => s[k + 1] \in S /\ SubnegotiationEnd(s, k + 2) \in (k + 2)..(n + 1)
  <2>1. k \in 1..n
    BY <1>0, <1>2
  <2>2. ASSUME k < n PROVE SubnegotiationEnd(s, k + 2) \in (k + 2)..(n + 1)
    <3>1. k + 2 \in 1..(n + 1)
      BY <1>0, <2>1, <2>2
    <3> QED
      BY <3>1, SubnegotiationEndIs DEF EndAt
  <2>3. k < n => s[k + 1] \in S
    BY <1>0, <2>1
  <2>4. k + 1 \in D /\ k + 2 \in D /\ k + 3 \in D
    <3> HIDE DEF n
    <3> QED
      BY <1>0, <2>1
  <2>5. s[k] \in S
    BY <2>1
  <2> QED
    BY <2>2, <2>3, <2>4, <2>5, Zenon
<1> HIDE DEF n, rank
<1>3. ASSUME NEW f \in [D -> V], NEW k \in D
      PROVE  next(f, k) \in V
  <2>1. CASE k > n
    BY <2>1
  <2>2. CASE k <= n
    <3>0. ASSUME k < n PROVE SubnegotiationEnd(s, k + 2) \in D
      <4> DEFINE e == SubnegotiationEnd(s, k + 2)
      <4>1. e \in (k + 2)..(n + 1)
        BY <1>2, <2>2, <3>0
      <4> HIDE DEF e
      <4>2. e \in D
        BY <1>0, <4>1
      <4> QED
        BY <4>2 DEF e
    <3>1. /\ s[k] \in S /\ k + 1 \in D /\ k + 2 \in D /\ k + 3 \in D
          /\ k < n => s[k + 1] \in S /\ SubnegotiationEnd(s, k + 2) \in D
      BY <1>2, <2>2, <3>0, Zenon
    <3> HIDE DEF D
    <3>2. CASE s[k] # "IAC"
      BY <1>0, <2>2, <3>1, <3>2
    <3>3. CASE s[k] = "IAC" /\ k # n
      <4>1. k < n
        BY <1>0, <2>2, <3>3 DEF D
      <4>2. <<"IAC">> \in V
        BY <3>1, <3>3
      <4>3. <<"IAC">> \o f[k + 2] \in V
        BY <3>1, <4>2
      <4> QED
        BY <1>0, <2>2, <3>1, <3>3, <4>1, <4>3
    <3>4. CASE s[k] = "IAC" /\ k = n
      BY <1>0, <2>2, <3>4
    <3> QED
      BY <3>2, <3>3, <3>4
  <2> QED
    BY <1>0, <2>1, <2>2
<1>4. ASSUME NEW k \in D, NEW f \in [D -> V], NEW g \in [D -> V],
             \A y \in D : rank[y] < rank[k] => f[y] = g[y]
      PROVE  next(f, k) = next(g, k)
  <2>1. CASE k > n
    BY <2>1
  <2>2. CASE k <= n
    <3>0. \A y \in D : y > k => rank[y] < rank[k]
      BY <1>0, <1>1
    <3>1. f[k + 1] = g[k + 1] /\ f[k + 2] = g[k + 2] /\ f[k + 3] = g[k + 3]
      <4>1. k + 1 > k /\ k + 2 > k /\ k + 3 > k
        OBVIOUS
      <4> QED
        BY <1>2, <1>4, <2>2, <3>0, <4>1
    <3>2. ASSUME k < n PROVE f[SubnegotiationEnd(s, k + 2)] = g[SubnegotiationEnd(s, k + 2)]
      <4> DEFINE e == SubnegotiationEnd(s, k + 2)
      <4>1. e \in (k + 2)..(n + 1)
        BY <1>2, <2>2, <3>2
      <4> HIDE DEF e
      <4>2. e \in D /\ e > k
        BY <1>0, <4>1
      <4>3. f[e] = g[e]
        BY <1>4, <3>0, <4>2
      <4> QED
        BY <4>3 DEF e
    <3>3. k # n => k < n
      BY <1>0, <2>2
    <3> QED
      BY <3>1, <3>2, <3>3
  <2> QED
    BY <1>0, <2>1, <2>2
<1> HIDE DEF D, V, next, most
<1>5. step \in [D \X [D -> V] -> V]
  BY <1>3
<1>6. \A k \in D, f \in [D -> V] : step[<<k, f>>] = next(f, k)
  OBVIOUS
<1> HIDE DEF step
<1>7. \A k \in D, f, g \in [D -> V] :
        (\A y \in D : rank[y] < rank[k] => f[y] = g[y]) => step[<<k, f>>] = step[<<k, g>>]
  BY <1>4, <1>6
<1>8. PICK f \in [D -> V] : \A k \in D : f[k] = step[<<k, f>>]
  <2>1. Recursion(D, V, most, rank, step)
    BY <1>0, <1>1, <1>5, <1>7 DEF Recursion
  <2> QED
    BY <2>1, RecursionExists
<1>9. f = [k \in D |-> next(f, k)]
  BY <1>6, <1>8
<1>10. FromOf(f, s)
  BY <1>9 DEF FromOf, D, next, most, n
<1> QED
  BY <1>10, Zenon DEF From

\* What is decoded from position k on.
DataAt(s, k, f) ==
  /\ k > Len(s) => f[k] = <<>>
  /\ k = Len(s) /\ s[k] = "IAC" => f[k] = <<>>
  /\ k <= Len(s) /\ s[k] # "IAC" => f[k] = <<s[k]>> \o f[k + 1]
  /\ k < Len(s) /\ s[k] = "IAC" =>
       /\ s[k + 1] = "IAC" => f[k] = <<"IAC">> \o f[k + 2]
       /\ s[k + 1] = "WILL" => f[k] = f[k + 3]
       /\ s[k + 1] = "SB" => f[k] = f[SubnegotiationEnd(s, k + 2)]
       /\ s[k + 1] \notin {"IAC", "WILL", "SB"} => f[k] = f[k + 2]

\* It answers that at every position, with data of the stream.
LEMMA DecodedIs ==
  ASSUME NEW S, NEW s \in Seq(S)
  PROVE  /\ Decoded(s) = From(s)[1]
         /\ \A k \in 1..(Len(s) + 3) : DataAt(s, k, From(s)) /\ From(s)[k] \in Seq(S)
<1> DEFINE n == Len(s)
           f == From(s)
           N == {m \in Nat : \A k \in 1..(n + 3) : n + 3 - k <= m => f[k] \in Seq(S)}
<1>0. n \in Nat
  OBVIOUS
<1>1. Decoded(s) = f[1]
  BY SMT DEF Decoded, From, FromOf
<1>n. n = Len(s)
  OBVIOUS
<1> HIDE DEF n
<1>2. \A k \in 1..(n + 3) : DataAt(s, k, f)
  <2>1. FromOf(f, s)
    BY FromExists
  <2> HIDE DEF f
  <2>2. \A k \in 1..(n + 3) :
          f[k] = IF k > n THEN <<>>
                 ELSE IF s[k] # "IAC" THEN <<s[k]>> \o f[k + 1]
                 ELSE IF k = n THEN <<>>
                 ELSE CASE s[k + 1] = "IAC"  -> <<"IAC">> \o f[k + 2]
                        [] s[k + 1] = "WILL" -> f[k + 3]
                        [] s[k + 1] = "SB"   -> f[SubnegotiationEnd(s, k + 2)]
                        [] OTHER             -> f[k + 2]
    BY <2>1 DEF FromOf, n
  <2> SUFFICES ASSUME NEW k \in 1..(n + 3) PROVE DataAt(s, k, f)
    OBVIOUS
  <2>3. k \in Nat
    BY <1>0
  <2>4. CASE k > n
    BY <1>0, <1>n, <2>2, <2>3, <2>4 DEF DataAt
  <2>5. CASE k = n
    <3>1. k <= n /\ ~(k > n) /\ ~(k < n)
      BY <1>0, <2>3, <2>5
    <3>2. f[k] = IF s[k] # "IAC" THEN <<s[k]>> \o f[k + 1] ELSE <<>>
      BY <2>2, <2>5, <3>1
    <3> QED
      BY <1>n, <3>1, <3>2, Zenon DEF DataAt
  <2>6. CASE k < n
    <3>1. k <= n /\ k # n /\ ~(k > n)
      BY <1>0, <2>3, <2>6
    <3> QED
      BY <1>n, <2>2, <3>1 DEF DataAt
  <2>7. k > n \/ k = n \/ k < n
    BY <1>0, <2>3
  <2> QED
    BY <2>4, <2>5, <2>6, <2>7, Zenon
<1> HIDE DEF f
<1>3. 0 \in N
  <2>1. \A k \in 1..(n + 3) : n + 3 - k <= 0 => k = n + 3
    BY <1>0
  <2>2. f[n + 3] = <<>>
    <3>1. n + 3 \in 1..(n + 3) /\ n + 3 > n
      BY <1>0
    <3>2. DataAt(s, n + 3, f)
      BY <1>2, <3>1, Zenon
    <3> QED
      BY <1>n, <3>1, <3>2 DEF DataAt
  <2>3. <<>> \in Seq(S)
    OBVIOUS
  <2> QED
    BY <1>0, <2>1, <2>2, <2>3
<1>4. ASSUME NEW m \in N PROVE m + 1 \in N
  <2> SUFFICES ASSUME NEW k \in 1..(n + 3), n + 3 - k <= m + 1 PROVE f[k] \in Seq(S)
    BY <1>4
  <2>1. \A j \in 1..(n + 3) : n + 3 - j <= m => f[j] \in Seq(S)
    BY <1>4
  <2>2. DataAt(s, k, f) /\ k \in Nat /\ m \in Nat
    BY <1>0, <1>2, <1>4
  <2> HIDE DEF N
  <2>3. CASE k > n
    <3>1. f[k] = <<>>
      BY <1>n, <2>2, <2>3 DEF DataAt
    <3> QED
      BY <3>1
  <2>4. CASE k <= n
    <3>1. k \in 1..n
      BY <1>0, <2>4
    <3>2. \A j \in (k + 1)..(n + 3) : f[j] \in Seq(S)
      BY <1>0, <2>1, <2>2
    <3>3. f[k + 1] \in Seq(S) /\ f[k + 2] \in Seq(S) /\ f[k + 3] \in Seq(S)
      BY <1>0, <3>1, <3>2
    <3>4. s[k] \in S
      BY <3>1, <1>n
    <3>5. CASE s[k] # "IAC"
      <4>1. f[k] = <<s[k]>> \o f[k + 1]
        BY <1>n, <2>2, <2>4, <3>5 DEF DataAt
      <4>2. <<s[k]>> \in Seq(S)
        BY <3>4
      <4> QED
        BY <3>3, <4>1, <4>2
    <3>6. CASE s[k] = "IAC" /\ k = n
      <4>1. f[k] = <<>>
        BY <1>n, <2>2, <3>6 DEF DataAt
      <4> QED
        BY <4>1
    <3>7. CASE s[k] = "IAC" /\ k # n
      <4>1. k < n
        BY <1>0, <3>1, <3>7
      <4> DEFINE e == SubnegotiationEnd(s, k + 2)
      <4>2. e \in (k + 2)..(n + 1)
        <5>1. k + 2 \in 1..(n + 1)
          BY <1>0, <2>2, <4>1
        <5> QED
          BY <1>n, <5>1, SubnegotiationEndIs DEF EndAt
      <4> HIDE DEF e
      <4>3. f[e] \in Seq(S)
        BY <1>0, <2>2, <3>2, <4>2
      <4>4. f[k] \in {<<"IAC">> \o f[k + 2], f[k + 3], f[e], f[k + 2]}
        BY <1>n, <2>2, <3>7, <4>1 DEF DataAt, e
      <4>5. <<"IAC">> \o f[k + 2] \in Seq(S)
        BY <3>3, <3>4, <3>7
      <4> QED
        BY <3>3, <4>3, <4>4, <4>5
    <3> QED
      BY <3>5, <3>6, <3>7
  <2> QED
    BY <1>0, <2>2, <2>3, <2>4
<1>5. N = Nat
  <2> HIDE DEF N
  <2>1. N \in SUBSET Nat
    BY DEF N
  <2> QED
    BY <2>1, <1>3, <1>4, Inductive
<1>6. \A k \in 1..(n + 3) : f[k] \in Seq(S)
  <2> SUFFICES ASSUME NEW k \in 1..(n + 3) PROVE f[k] \in Seq(S)
    OBVIOUS
  <2>1. n + 3 - k \in Nat
    BY <1>0
  <2>2. n + 3 - k \in N
    BY <1>5, <2>1, Zenon
  <2> QED
    BY <1>0, <2>2
<1> QED
  BY <1>1, <1>2, <1>6 DEF f, n

\* Where decoding goes on behind the first n bytes of t, in a state of the decoder.
GoesOn(t, n, state) ==
  CASE state = "Data" -> n + 1
    [] state = "Iac" -> n
    [] state = "Option" -> n + 2
    [] state = "Subnegotiation" -> SubnegotiationEnd(t, n + 1)
    [] state = "SubnegotiationIac" -> SubnegotiationEnd(t, n)

\* Having read s the decoder is in state and has handed on d, whatever comes
\* behind s: the data of every t that begins with s is d and what goes on there.
DecodedAt(S, s, state, d) ==
  /\ state \in DecoderStates /\ d \in Seq(S)
  /\ state \in {"Iac", "SubnegotiationIac"} => Len(s) > 0 /\ s[Len(s)] = "IAC"
  /\ \A t \in Seq(S) :
       Extends(s, t) => From(t)[1] = d \o From(t)[GoesOn(t, Len(s), state)]

\* What the decoder hands on of a byte.
HandedOn(state, byte) == IF feed_data(state, byte) THEN <<byte>> ELSE <<>>

\* The reference goes from where it goes on behind n bytes to where it goes
\* on behind the next one, as the decoder does.
LEMMA GoesOnStep ==
  ASSUME NEW S, NEW t \in Seq(S), NEW n \in Nat, n + 1 <= Len(t), NEW state \in DecoderStates,
         state \in {"Iac", "SubnegotiationIac"} => n > 0 /\ t[n] = "IAC"
  PROVE  LET q == GoesOn(t, n + 1, feed_state(state, t[n + 1]))
         IN  /\ q \in 1..(Len(t) + 3)
             /\ From(t)[GoesOn(t, n, state)] = HandedOn(state, t[n + 1]) \o From(t)[q]
<1> DEFINE f == From(t)
           m == Len(t)
           x == t[n + 1]
           next == feed_state(state, x)
           q == GoesOn(t, n + 1, next)
<1>0. m \in Nat /\ n + 1 <= m
  OBVIOUS
<1>1. \A k \in 1..(m + 3) : DataAt(t, k, f) /\ f[k] \in Seq(S)
  BY DecodedIs
<1>2. \A k \in 1..(m + 1) : EndAt(t, k, SubnegotiationEnd(t, k))
  BY SubnegotiationEndIs
<1>m. m = Len(t)
  OBVIOUS
<1>3. \A k \in 1..(m + 3) : f[k] = <<>> \o f[k]
  BY <1>1
<1>4. \A k \in 1..(m + 1) : SubnegotiationEnd(t, k) \in 1..(m + 3)
  <2> SUFFICES ASSUME NEW k \in 1..(m + 1) PROVE SubnegotiationEnd(t, k) \in 1..(m + 3)
    OBVIOUS
  <2>1. SubnegotiationEnd(t, k) \in k..(m + 1)
    BY <1>2 DEF EndAt
  <2> DEFINE e == SubnegotiationEnd(t, k)
  <2> HIDE DEF e
  <2>2. e \in 1..(m + 3)
    BY <1>0, <2>1 DEF e
  <2> QED
    BY <2>2 DEF e
<1> HIDE DEF f, m
<1>5. /\ n + 1 \in 1..(m + 3) /\ n + 2 \in 1..(m + 3) /\ n + 3 \in 1..(m + 3)
      /\ n + 1 \in 1..(m + 1) /\ n + 2 \in 1..(m + 1)
      /\ n > 0 => n \in 1..(m + 3) /\ n \in 1..(m + 1)
  BY <1>0
<1>6. /\ (n + 1) + 1 = n + 2 /\ (n + 1) + 2 = n + 3 /\ n + 1 <= m /\ n < m
  BY <1>0
<1>g. q \in 1..(m + 3) /\ f[GoesOn(t, n, state)] = HandedOn(state, x) \o f[q]
  <2>1. CASE state = "Data"
    <3>1. GoesOn(t, n, state) = n + 1 /\ DataAt(t, n + 1, f)
      BY <1>1, <1>5, <2>1 DEF GoesOn
    <3>2. CASE x # "IAC"
      <4>1. q = n + 2 /\ HandedOn(state, x) = <<x>>
        BY <1>6, <2>1, <3>2 DEF GoesOn, feed_state, HandedOn, feed_data
      <4>2. f[n + 1] = <<x>> \o f[(n + 1) + 1]
        BY <1>6, <1>m, <3>1, <3>2 DEF DataAt
      <4> QED
        BY <1>5, <1>6, <3>1, <4>1, <4>2
    <3>3. CASE x = "IAC"
      <4>1. q = n + 1 /\ HandedOn(state, x) = <<>>
        BY <2>1, <3>3 DEF GoesOn, feed_state, HandedOn, feed_data
      <4> QED
        BY <1>3, <1>5, <3>1, <4>1
    <3> QED
      BY <3>2, <3>3
  <2>2. CASE state = "Iac"
    <3>1. GoesOn(t, n, state) = n /\ DataAt(t, n, f) /\ t[n] = "IAC" /\ n > 0
      BY <1>1, <1>5, <2>2 DEF GoesOn
    <3>2. /\ x = "IAC" => f[n] = <<x>> \o f[n + 2]
          /\ x = "WILL" => f[n] = f[n + 3]
          /\ x = "SB" => f[n] = f[SubnegotiationEnd(t, n + 2)]
          /\ x \notin {"IAC", "WILL", "SB"} => f[n] = f[n + 2]
      BY <1>6, <1>m, <3>1 DEF DataAt
    <3>3. CASE x = "IAC"
      <4>1. q = n + 2 /\ HandedOn(state, x) = <<x>>
        BY <1>6, <2>2, <3>3 DEF GoesOn, feed_state, HandedOn, feed_data
      <4> QED
        BY <1>5, <3>1, <3>2, <3>3, <4>1
    <3>4. CASE x = "WILL"
      <4>1. q = n + 3 /\ HandedOn(state, x) = <<>>
        BY <1>6, <2>2, <3>4 DEF GoesOn, feed_state, HandedOn, feed_data
      <4> QED
        BY <1>3, <1>5, <3>1, <3>2, <3>4, <4>1
    <3>5. CASE x = "SB"
      <4>1. q = SubnegotiationEnd(t, n + 2) /\ HandedOn(state, x) = <<>>
        BY <1>6, <2>2, <3>5 DEF GoesOn, feed_state, HandedOn, feed_data
      <4> QED
        BY <1>3, <1>4, <1>5, <3>1, <3>2, <3>5, <4>1
    <3>6. CASE x \notin {"IAC", "WILL", "SB"}
      <4>1. q = n + 2 /\ HandedOn(state, x) = <<>>
        BY <1>6, <2>2, <3>6 DEF GoesOn, feed_state, HandedOn, feed_data
      <4> QED
        BY <1>3, <1>5, <3>1, <3>2, <3>6, <4>1
    <3> QED
      BY <3>3, <3>4, <3>5, <3>6
  <2>3. CASE state = "Option"
    <3>1. GoesOn(t, n, state) = n + 2 /\ q = n + 2 /\ HandedOn(state, x) = <<>>
      BY <1>6, <2>3 DEF GoesOn, feed_state, HandedOn, feed_data
    <3> QED
      BY <1>3, <1>5, <3>1
  <2>4. CASE state = "Subnegotiation"
    <3>1. /\ GoesOn(t, n, state) = SubnegotiationEnd(t, n + 1) /\ HandedOn(state, x) = <<>>
          /\ q = IF x = "IAC" THEN SubnegotiationEnd(t, n + 1) ELSE SubnegotiationEnd(t, n + 2)
      BY <1>6, <2>4 DEF GoesOn, feed_state, HandedOn, feed_data
    <3>2. x # "IAC" => SubnegotiationEnd(t, n + 1) = SubnegotiationEnd(t, n + 2)
      <4>1. /\ EndAt(t, n + 1, SubnegotiationEnd(t, n + 1))
            /\ EndAt(t, n + 2, SubnegotiationEnd(t, n + 2))
        BY <1>2, <1>5
      <4>2. CASE n + 1 < m
        BY <1>6, <1>m, <4>1, <4>2 DEF EndAt
      <4>3. CASE n + 1 = m
        <5>1. n + 1 >= m /\ n + 2 >= m
          BY <1>0, <4>3
        <5> QED
          BY <1>m, <4>1, <5>1 DEF EndAt
      <4> QED
        BY <1>0, <4>2, <4>3
    <3> QED
      BY <1>3, <1>4, <1>5, <3>1, <3>2
  <2>5. CASE state = "SubnegotiationIac"
    <3>1. /\ GoesOn(t, n, state) = SubnegotiationEnd(t, n) /\ HandedOn(state, x) = <<>>
          /\ q = IF x = "SE" THEN n + 2 ELSE SubnegotiationEnd(t, n + 2)
          /\ n > 0 /\ t[n] = "IAC"
      BY <1>6, <2>5 DEF GoesOn, feed_state, HandedOn, feed_data
    <3>2. SubnegotiationEnd(t, n) = q
      <4>1. EndAt(t, n, SubnegotiationEnd(t, n))
        BY <1>2, <1>5, <3>1
      <4> QED
        BY <1>6, <1>m, <3>1, <4>1 DEF EndAt
    <3> QED
      BY <1>3, <1>4, <1>5, <3>1, <3>2
  <2> QED
    BY <2>1, <2>2, <2>3, <2>4, <2>5 DEF DecoderStates
<1> QED
  BY <1>g DEF f, m

\* The decoder before it has read anything.
LEMMA DecodeStart ==
  ASSUME NEW S
  PROVE  DecodedAt(S, <<>>, "Data", <<>>)
<1>1. ASSUME NEW t \in Seq(S) PROVE From(t)[1] = <<>> \o From(t)[0 + 1]
  <2>1. 1 \in 1..(Len(t) + 3)
    OBVIOUS
  <2>2. From(t)[1] \in Seq(S)
    BY <2>1, DecodedIs
  <2> DEFINE u == From(t)[1]
  <2> HIDE DEF u
  <2>3. u = <<>> \o u
    BY <2>2 DEF u
  <2> QED
    BY <2>3 DEF u
<1> QED
  BY <1>1 DEF DecodedAt, GoesOn, DecoderStates

\* One more byte.
LEMMA DecodeStep ==
  ASSUME NEW S, NEW s \in Seq(S), NEW x \in S, NEW state, NEW d, DecodedAt(S, s, state, d)
  PROVE  DecodedAt(S, Append(s, x), feed_state(state, x), d \o HandedOn(state, x))
<1> DEFINE n == Len(s)
           u == Append(s, x)
           next == feed_state(state, x)
           h == HandedOn(state, x)
<1>1. /\ n \in Nat /\ u \in Seq(S) /\ Len(u) = n + 1 /\ u[n + 1] = x
      /\ state \in DecoderStates /\ d \in Seq(S) /\ h \in Seq(S)
  BY DEF DecodedAt, HandedOn
<1>2. next \in DecoderStates
  BY <1>1 DEF feed_state, DecoderStates
<1>3. next \in {"Iac", "SubnegotiationIac"} => x = "IAC"
  BY <1>1 DEF feed_state, DecoderStates
<1>4. ASSUME NEW t \in Seq(S), Extends(u, t)
      PROVE  From(t)[1] = (d \o h) \o From(t)[GoesOn(t, n + 1, next)]
  <2>1. Extends(s, t) /\ Len(t) \in Nat /\ n + 1 <= Len(t) /\ t[n + 1] = x
    BY <1>4, ExtendsMore
  <2>2. state \in {"Iac", "SubnegotiationIac"} => n > 0 /\ t[n] = "IAC"
    <3>1. n > 0 => t[n] = s[n]
      BY <1>1, <2>1 DEF Extends
    <3> QED
      BY <3>1 DEF DecodedAt
  <2> DEFINE q == GoesOn(t, n + 1, next)
             w == From(t)[q]
  <2>3. /\ q \in 1..(Len(t) + 3)
        /\ From(t)[GoesOn(t, n, state)] = h \o From(t)[q]
    <3> HIDE DEF n
    <3> QED
      BY <1>1, <2>1, <2>2, GoesOnStep
  <2>4. From(t)[1] = d \o (h \o w)
    BY <2>1, <2>3 DEF DecodedAt
  <2>5. w \in Seq(S)
    BY <2>3, DecodedIs
  <2> HIDE DEF w, h
  <2>6. Together(d, h, w)
    BY <1>1, <2>5, AnyOrder
  <2>7. d \o (h \o w) = (d \o h) \o w
    BY <2>6, Zenon DEF Together
  <2> QED
    BY <2>4, <2>7 DEF w
<1>5. d \o h \in Seq(S)
  <2> HIDE DEF h
  <2> QED
    BY <1>1
<1> HIDE DEF u, h, next
<1>l. Len(u) = n + 1 /\ (next \in {"Iac", "SubnegotiationIac"} => Len(u) > 0 /\ u[Len(u)] = "IAC")
  BY <1>1, <1>3
<1>a. \A t \in Seq(S) :
        Extends(u, t) => From(t)[1] = (d \o h) \o From(t)[GoesOn(t, Len(u), next)]
  <2> HIDE DEF n
  <2> QED
    BY <1>4, <1>l
<1>6. DecodedAt(S, u, next, d \o h)
  BY <1>2, <1>5, <1>l, <1>a, Zenon DEF DecodedAt
<1> QED
  BY <1>6 DEF u, h, next

\* What was handed on is the data of what was read.
LEMMA DecodeEnd ==
  ASSUME NEW S, NEW s \in Seq(S), NEW state, NEW d, DecodedAt(S, s, state, d)
  PROVE  Decoded(s) = d
<1> DEFINE n == Len(s)
           q == GoesOn(s, n, state)
<1>1. n \in Nat /\ state \in DecoderStates /\ d \in Seq(S)
  BY DEF DecodedAt
<1>2. From(s)[1] = d \o From(s)[q]
  BY ExtendsItself DEF DecodedAt
<1>3. From(s)[q] = <<>>
  <2>1. \A k \in 1..(n + 3) : DataAt(s, k, From(s))
    BY DecodedIs
  <2>2. CASE state \in {"Data", "Option"}
    <3>1. q \in 1..(n + 3) /\ q > Len(s)
      BY <1>1, <2>2 DEF GoesOn
    <3> QED
      BY <2>1, <3>1 DEF DataAt
  <2>3. CASE state = "Iac"
    <3>1. q = n /\ n \in 1..(n + 3) /\ s[n] = "IAC"
      BY <1>1, <2>3 DEF GoesOn, DecodedAt
    <3> QED
      BY <2>1, <3>1 DEF DataAt
  <2>4. CASE state \in {"Subnegotiation", "SubnegotiationIac"}
    <3>1. PICK i \in 1..(n + 1) : i >= n /\ q = SubnegotiationEnd(s, i)
      <4>1. n + 1 \in 1..(n + 1) /\ (state = "SubnegotiationIac" => n \in 1..(n + 1))
        BY <1>1, <2>4 DEF DecodedAt
      <4> QED
        BY <1>1, <2>4, <4>1 DEF GoesOn
    <3>2. q = n + 1
      BY <3>1, SubnegotiationEndIs DEF EndAt
    <3>3. n + 1 \in 1..(n + 3) /\ n + 1 > Len(s)
      BY <1>1
    <3> QED
      BY <2>1, <3>2, <3>3 DEF DataAt
  <2> QED
    BY <1>1, <2>2, <2>3, <2>4 DEF DecoderStates
<1>4. d \o <<>> = d
  BY <1>1
<1> QED
  BY <1>2, <1>3, <1>4, DecodedIs

-----------------------------------------------------------------------------
(* The line reader: the lines of the data                                  *)

\* The recursive functions of Lines.
TextOf(f, d) ==
  f = [k \in 1..(Len(d) + 1) |->
         IF k > Len(d) \/ (k = Len(d) /\ d[k] = "CR") THEN [chars |-> <<>>, next |-> 0]
         ELSE CASE d[k] = "LF" -> [chars |-> <<>>, next |-> k + 1]
                [] d[k] = "CR" /\ d[k + 1] = "LF" -> [chars |-> <<>>, next |-> k + 2]
                [] d[k] = "CR" /\ d[k + 1] = "NUL" ->
                     [chars |-> <<"CR">> \o f[k + 2].chars, next |-> f[k + 2].next]
                [] OTHER ->
                     [chars |-> <<d[k]>> \o f[k + 1].chars, next |-> f[k + 1].next]]

TextFrom(d) == CHOOSE f : TextOf(f, d)

LinesOf(g, d) ==
  g = [k \in 1..(Len(d) + 1) |->
         IF TextFrom(d)[k].next = 0 THEN <<>>
         ELSE <<TextFrom(d)[k].chars>> \o g[TextFrom(d)[k].next]]

LinesFrom(d) == CHOOSE g : LinesOf(g, d)

\* The first has a solution.
LEMMA TextExists ==
  ASSUME NEW S, NEW d \in Seq(S)
  PROVE  TextOf(TextFrom(d), d)
<1> DEFINE n == Len(d)
           most == n + 1
           D == 1..most
           V == [chars : Seq(S), next : 0..most]
           next(f, k) ==
             IF k > n \/ (k = n /\ d[k] = "CR") THEN [chars |-> <<>>, next |-> 0]
             ELSE CASE d[k] = "LF" -> [chars |-> <<>>, next |-> k + 1]
                    [] d[k] = "CR" /\ d[k + 1] = "LF" -> [chars |-> <<>>, next |-> k + 2]
                    [] d[k] = "CR" /\ d[k + 1] = "NUL" ->
                         [chars |-> <<"CR">> \o f[k + 2].chars, next |-> f[k + 2].next]
                    [] OTHER ->
                         [chars |-> <<d[k]>> \o f[k + 1].chars, next |-> f[k + 1].next]
           step == [p \in D \X [D -> V] |-> next(p[2], p[1])]
           rank == [k \in D |-> most - k]
<1>0. n \in Nat /\ most \in Nat /\ n + 1 = most
  OBVIOUS
<1>v. [chars |-> <<>>, next |-> 0] \in V
  <2> HIDE DEF n
  <2>1. <<>> \in Seq(S) /\ 0 \in 0..most
    BY <1>0
  <2> HIDE DEF most
  <2> QED
    BY <2>1
<1>1. rank \in [D -> 0..most] /\ \A k \in D : rank[k] = most - k
  BY <1>0
<1>2. ASSUME NEW k \in D, k <= n
      PROVE  /\ d[k] \in S /\ k + 1 \in D /\ k + 1 \in 0..most
             /\ k < n => k + 2 \in D /\ k + 2 \in 0..most
  BY <1>0, <1>2
<1> HIDE DEF n, rank, most
<1>3. ASSUME NEW f \in [D -> V], NEW k \in D
      PROVE  next(f, k) \in V
  <2>1. CASE k > n \/ (k = n /\ d[k] = "CR")
    BY <1>v, <2>1
  <2>2. CASE ~(k > n \/ (k = n /\ d[k] = "CR"))
    <3>1. k <= n /\ (d[k] = "CR" => k < n)
      BY <1>0, <2>2
    <3>2. f[k + 1] \in V /\ d[k] \in S /\ k + 1 \in 0..most
      BY <1>2, <3>1
    <3>3. d[k] = "CR" => f[k + 2] \in V /\ k + 2 \in 0..most
      BY <1>2, <3>1
    <3> HIDE DEF D
    <3>4. ASSUME NEW v \in V, NEW x \in S
          PROVE  [chars |-> <<x>> \o v.chars, next |-> v.next] \in V
      <4>1. v.chars \in Seq(S) /\ v.next \in 0..most /\ <<x>> \in Seq(S)
        OBVIOUS
      <4>2. <<x>> \o v.chars \in Seq(S)
        BY <4>1
      <4> QED
        BY <4>1, <4>2
    <3>5. \A j \in 0..most : [chars |-> <<>>, next |-> j] \in V
      <4>1. <<>> \in Seq(S)
        OBVIOUS
      <4> QED
        BY <4>1
    <3> HIDE DEF V
    <3> QED
      BY <2>2, <3>2, <3>3, <3>4, <3>5
  <2> QED
    BY <2>1, <2>2
<1>4. ASSUME NEW k \in D, NEW f \in [D -> V], NEW g \in [D -> V],
             \A y \in D : rank[y] < rank[k] => f[y] = g[y]
      PROVE  next(f, k) = next(g, k)
  <2>1. CASE k > n \/ (k = n /\ d[k] = "CR")
    BY <2>1
  <2>2. CASE ~(k > n \/ (k = n /\ d[k] = "CR"))
    <3>0. \A y \in D : y > k => rank[y] < rank[k]
      BY <1>0, <1>1
    <3>1. k <= n /\ (d[k] = "CR" => k < n) /\ k + 1 > k /\ k + 2 > k
      BY <1>0, <2>2
    <3>2. f[k + 1] = g[k + 1]
      BY <1>2, <1>4, <3>0, <3>1
    <3>3. d[k] = "CR" => f[k + 2] = g[k + 2]
      BY <1>2, <1>4, <3>0, <3>1
    <3> QED
      BY <3>2, <3>3
  <2> QED
    BY <2>1, <2>2
<1> HIDE DEF D, V, next
<1>5. step \in [D \X [D -> V] -> V]
  BY <1>3
<1>6. \A k \in D, f \in [D -> V] : step[<<k, f>>] = next(f, k)
  OBVIOUS
<1> HIDE DEF step
<1>7. \A k \in D, f, g \in [D -> V] :
        (\A y \in D : rank[y] < rank[k] => f[y] = g[y]) => step[<<k, f>>] = step[<<k, g>>]
  BY <1>4, <1>6
<1>8. PICK f \in [D -> V] : \A k \in D : f[k] = step[<<k, f>>]
  <2>1. Recursion(D, V, most, rank, step)
    BY <1>0, <1>1, <1>5, <1>7, <1>v DEF Recursion
  <2> QED
    BY <2>1, RecursionExists
<1>9. f = [k \in D |-> next(f, k)]
  BY <1>6, <1>8
<1>10. TextOf(f, d)
  BY <1>9 DEF TextOf, D, next, most, n
<1> QED
  BY <1>10, Zenon DEF TextFrom

\* The rest of a line from position k on, and where the next line begins.
TextAt(d, k, f) ==
  /\ k > Len(d) => f[k] = [chars |-> <<>>, next |-> 0]
  /\ k = Len(d) /\ d[k] = "CR" => f[k] = [chars |-> <<>>, next |-> 0]
  /\ k <= Len(d) /\ d[k] = "LF" => f[k] = [chars |-> <<>>, next |-> k + 1]
  /\ k <= Len(d) /\ d[k] \notin {"LF", "CR"} =>
       f[k] = [chars |-> <<d[k]>> \o f[k + 1].chars, next |-> f[k + 1].next]
  /\ k < Len(d) /\ d[k] = "CR" =>
       /\ d[k + 1] = "LF" => f[k] = [chars |-> <<>>, next |-> k + 2]
       /\ d[k + 1] = "NUL" =>
            f[k] = [chars |-> <<"CR">> \o f[k + 2].chars, next |-> f[k + 2].next]
       /\ d[k + 1] \notin {"LF", "NUL"} =>
            f[k] = [chars |-> <<"CR">> \o f[k + 1].chars, next |-> f[k + 1].next]

\* TextFrom answers that at every position, with a text of d.
LEMMA TextIs ==
  ASSUME NEW S, NEW d \in Seq(S)
  PROVE  \A k \in 1..(Len(d) + 1) :
           /\ TextAt(d, k, TextFrom(d))
           /\ TextFrom(d)[k].chars \in Seq(S)
           /\ TextFrom(d)[k].next \in {0} \cup ((k + 1)..(Len(d) + 1))
<1> DEFINE n == Len(d)
           f == TextFrom(d)
           V(k) == [chars : Seq(S), next : {0} \cup ((k + 1)..(n + 1))]
           N == {m \in Nat : \A k \in 1..(n + 1) : n + 1 - k <= m => f[k] \in V(k)}
<1>0. n \in Nat
  OBVIOUS
<1>n. n = Len(d)
  OBVIOUS
<1> HIDE DEF n
<1>1. \A k \in 1..(n + 1) : TextAt(d, k, f)
  <2>1. TextOf(f, d)
    BY TextExists
  <2> HIDE DEF f
  <2>2. \A k \in 1..(n + 1) :
          f[k] = IF k > n \/ (k = n /\ d[k] = "CR") THEN [chars |-> <<>>, next |-> 0]
                 ELSE CASE d[k] = "LF" -> [chars |-> <<>>, next |-> k + 1]
                        [] d[k] = "CR" /\ d[k + 1] = "LF" -> [chars |-> <<>>, next |-> k + 2]
                        [] d[k] = "CR" /\ d[k + 1] = "NUL" ->
                             [chars |-> <<"CR">> \o f[k + 2].chars, next |-> f[k + 2].next]
                        [] OTHER ->
                             [chars |-> <<d[k]>> \o f[k + 1].chars, next |-> f[k + 1].next]
    BY <2>1, <1>n DEF TextOf
  <2> SUFFICES ASSUME NEW k \in 1..(n + 1) PROVE TextAt(d, k, f)
    OBVIOUS
  <2>3. k \in Nat
    BY <1>0
  <2>4. CASE k > n
    <3>1. ~(k <= n) /\ ~(k = n) /\ ~(k < n)
      BY <1>0, <2>3, <2>4
    <3>2. f[k] = [chars |-> <<>>, next |-> 0]
      BY <2>2, <2>4
    <3> QED
      BY <1>n, <2>4, <3>1, <3>2, Zenon DEF TextAt
  <2>5. CASE k = n
    <3>1. k <= n /\ ~(k > n) /\ ~(k < n)
      BY <1>0, <2>3, <2>5
    <3>2. /\ d[k] = "CR" => f[k] = [chars |-> <<>>, next |-> 0]
          /\ d[k] = "LF" => f[k] = [chars |-> <<>>, next |-> k + 1]
          /\ d[k] \notin {"LF", "CR"} =>
               f[k] = [chars |-> <<d[k]>> \o f[k + 1].chars, next |-> f[k + 1].next]
      BY <2>2, <2>5, <3>1
    <3> QED
      BY <1>n, <3>1, <3>2, Zenon DEF TextAt
  <2>6. CASE k < n
    <3>1. k <= n /\ k # n /\ ~(k > n)
      BY <1>0, <2>3, <2>6
    <3>2. /\ d[k] = "LF" => f[k] = [chars |-> <<>>, next |-> k + 1]
          /\ d[k] \notin {"LF", "CR"} =>
               f[k] = [chars |-> <<d[k]>> \o f[k + 1].chars, next |-> f[k + 1].next]
      BY <2>2, <3>1
    <3>3. d[k] = "CR" =>
            /\ d[k + 1] = "LF" => f[k] = [chars |-> <<>>, next |-> k + 2]
            /\ d[k + 1] = "NUL" =>
                 f[k] = [chars |-> <<"CR">> \o f[k + 2].chars, next |-> f[k + 2].next]
            /\ d[k + 1] \notin {"LF", "NUL"} =>
                 f[k] = [chars |-> <<"CR">> \o f[k + 1].chars, next |-> f[k + 1].next]
      BY <2>2, <3>1
    <3> QED
      BY <1>n, <2>6, <3>1, <3>2, <3>3, Zenon DEF TextAt
  <2>7. k > n \/ k = n \/ k < n
    BY <1>0, <2>3
  <2> QED
    BY <2>4, <2>5, <2>6, <2>7, Zenon
<1> HIDE DEF f
<1>v. /\ <<>> \in Seq(S)
      /\ \A k : [chars |-> <<>>, next |-> 0] \in V(k)
      /\ \A k \in Nat : k + 1 <= n + 1 => [chars |-> <<>>, next |-> k + 1] \in V(k)
      /\ \A k \in Nat : k + 2 <= n + 1 => [chars |-> <<>>, next |-> k + 2] \in V(k)
  <2>1. <<>> \in Seq(S)
    OBVIOUS
  <2>2. \A k : 0 \in {0} \cup ((k + 1)..(n + 1))
    OBVIOUS
  <2>3. \A k \in Nat : /\ k + 1 <= n + 1 => k + 1 \in (k + 1)..(n + 1)
                       /\ k + 2 <= n + 1 => k + 2 \in (k + 1)..(n + 1)
    BY <1>0
  <2>4. \A k, j : j \in {0} \cup ((k + 1)..(n + 1)) => [chars |-> <<>>, next |-> j] \in V(k)
    BY <2>1
  <2> HIDE DEF V
  <2> QED
    BY <2>1, <2>2, <2>3, <2>4
<1>w. ASSUME NEW k \in 1..(n + 1), NEW j \in 1..(n + 1), j > k, NEW v \in V(j), NEW x \in S
      PROVE  [chars |-> <<x>> \o v.chars, next |-> v.next] \in V(k)
  <2>1. v.chars \in Seq(S) /\ v.next \in {0} \cup ((j + 1)..(n + 1)) /\ <<x>> \in Seq(S)
    OBVIOUS
  <2>2. <<x>> \o v.chars \in Seq(S)
    BY <2>1
  <2>3. v.next \in {0} \cup ((k + 1)..(n + 1))
    BY <1>0, <1>w, <2>1
  <2> QED
    BY <2>2, <2>3
<1>3. 0 \in N
  <2>1. \A k \in 1..(n + 1) : n + 1 - k <= 0 => k = n + 1
    BY <1>0
  <2>2. f[n + 1] = [chars |-> <<>>, next |-> 0]
    <3>1. n + 1 \in 1..(n + 1) /\ n + 1 > n
      BY <1>0
    <3>2. TextAt(d, n + 1, f)
      BY <1>1, <3>1, Zenon
    <3> QED
      BY <1>n, <3>1, <3>2 DEF TextAt
  <2> HIDE DEF V
  <2> QED
    BY <1>0, <1>v, <2>1, <2>2
<1>4. ASSUME NEW m \in N PROVE m + 1 \in N
  <2> SUFFICES ASSUME NEW k \in 1..(n + 1), n + 1 - k <= m + 1 PROVE f[k] \in V(k)
    BY <1>4
  <2>1. \A j \in 1..(n + 1) : n + 1 - j <= m => f[j] \in V(j)
    BY <1>4
  <2>2. TextAt(d, k, f) /\ k \in Nat /\ m \in Nat
    BY <1>0, <1>1, <1>4
  <2> HIDE DEF N, V
  <2>3. CASE k > n \/ (k = n /\ d[k] = "CR")
    <3>1. f[k] = [chars |-> <<>>, next |-> 0]
      BY <1>n, <2>2, <2>3 DEF TextAt
    <3> QED
      BY <1>v, <3>1
  <2>4. CASE ~(k > n \/ (k = n /\ d[k] = "CR"))
    <3>1. k <= n /\ (d[k] = "CR" => k < n) /\ k + 1 <= n + 1 /\ k \in 1..n
      BY <1>0, <2>4
    <3>2. d[k] \in S
      BY <1>n, <3>1
    <3>3. k + 1 \in 1..(n + 1) /\ k + 1 > k /\ f[k + 1] \in V(k + 1)
      <4>1. k + 1 \in 1..(n + 1) /\ n + 1 - (k + 1) <= m
        BY <1>0, <2>2, <3>1
      <4> QED
        BY <1>0, <2>1, <4>1
    <3>4. d[k] = "CR" =>
            /\ k + 2 \in 1..(n + 1) /\ k + 2 > k /\ f[k + 2] \in V(k + 2) /\ k + 2 <= n + 1
      <4> SUFFICES ASSUME k < n
          PROVE k + 2 \in 1..(n + 1) /\ k + 2 > k /\ f[k + 2] \in V(k + 2) /\ k + 2 <= n + 1
        BY <3>1
      <4>1. k + 2 \in 1..(n + 1) /\ n + 1 - (k + 2) <= m
        BY <1>0, <2>2
      <4> QED
        BY <1>0, <2>1, <2>2, <4>1
    <3>5. /\ f[k] \in {[chars |-> <<>>, next |-> k + 1], [chars |-> <<>>, next |-> k + 2],
                       [chars |-> <<"CR">> \o f[k + 2].chars, next |-> f[k + 2].next],
                       [chars |-> <<d[k]>> \o f[k + 1].chars, next |-> f[k + 1].next]}
          /\ f[k] \in {[chars |-> <<>>, next |-> k + 2],
                       [chars |-> <<"CR">> \o f[k + 2].chars, next |-> f[k + 2].next]} =>
               d[k] = "CR" \/ f[k] \in {[chars |-> <<>>, next |-> k + 1],
                       [chars |-> <<d[k]>> \o f[k + 1].chars, next |-> f[k + 1].next]}
      <4>1. CASE d[k] = "LF"
        <5>1. f[k] = [chars |-> <<>>, next |-> k + 1]
          BY <1>n, <2>2, <3>1, <4>1, Zenon DEF TextAt
        <5> QED
          BY <5>1
      <4>2. CASE d[k] = "CR"
        BY <1>n, <2>2, <3>1, <4>2 DEF TextAt
      <4>3. CASE d[k] \notin {"LF", "CR"}
        <5>1. f[k] = [chars |-> <<d[k]>> \o f[k + 1].chars, next |-> f[k + 1].next]
          BY <1>n, <2>2, <3>1, <4>3, Zenon DEF TextAt
        <5> QED
          BY <5>1
      <4> QED
        BY <4>1, <4>2, <4>3
    <3>6. [chars |-> <<d[k]>> \o f[k + 1].chars, next |-> f[k + 1].next] \in V(k)
      BY <1>w, <3>2, <3>3
    <3>7. [chars |-> <<>>, next |-> k + 1] \in V(k)
      BY <1>v, <2>2, <3>1
    <3>8. d[k] = "CR" =>
            /\ [chars |-> <<>>, next |-> k + 2] \in V(k)
            /\ [chars |-> <<"CR">> \o f[k + 2].chars, next |-> f[k + 2].next] \in V(k)
      BY <1>v, <1>w, <2>2, <3>2, <3>4
    <3> QED
      BY <3>5, <3>6, <3>7, <3>8
  <2> QED
    BY <2>3, <2>4
<1>5. N = Nat
  <2> HIDE DEF N
  <2>1. N \in SUBSET Nat
    BY DEF N
  <2> QED
    BY <2>1, <1>3, <1>4, Inductive
<1>6. \A k \in 1..(n + 1) : f[k] \in V(k)
  <2> SUFFICES ASSUME NEW k \in 1..(n + 1) PROVE f[k] \in V(k)
    OBVIOUS
  <2>1. n + 1 - k \in Nat
    BY <1>0
  <2>2. n + 1 - k \in N
    BY <1>5, <2>1, Zenon
  <2> HIDE DEF V
  <2> QED
    BY <1>0, <2>2
<1>7. \A k \in 1..(n + 1) : f[k].chars \in Seq(S) /\ f[k].next \in {0} \cup ((k + 1)..(n + 1))
  BY <1>6
<1> QED
  BY <1>1, <1>7, <1>n DEF f

\* The second has a solution.
LEMMA LinesExist ==
  ASSUME NEW S, NEW d \in Seq(S)
  PROVE  LinesOf(LinesFrom(d), d)
<1> DEFINE n == Len(d)
           most == n + 1
           D == 1..most
           V == Seq(Seq(S))
           x == TextFrom(d)
           next(g, k) == IF x[k].next = 0 THEN <<>> ELSE <<x[k].chars>> \o g[x[k].next]
           step == [p \in D \X [D -> V] |-> next(p[2], p[1])]
           rank == [k \in D |-> most - k]
<1>0. n \in Nat /\ most \in Nat /\ n + 1 = most /\ V # {}
  <2>1. <<>> \in V
    OBVIOUS
  <2> HIDE DEF V
  <2> QED
    BY <2>1
<1>1. rank \in [D -> 0..most] /\ \A k \in D : rank[k] = most - k
  BY <1>0
<1>2. \A k \in D : x[k].chars \in Seq(S) /\ x[k].next \in {0} \cup ((k + 1)..most)
  BY TextIs
<1> HIDE DEF n, rank, most, x
<1>m. \A k \in D : x[k].next # 0 => x[k].next \in D /\ x[k].next > k
  <2> SUFFICES ASSUME NEW k \in D, x[k].next # 0 PROVE x[k].next \in D /\ x[k].next > k
    OBVIOUS
  <2> DEFINE j == x[k].next
  <2>1. j \in (k + 1)..most
    BY <1>2
  <2> HIDE DEF j
  <2>2. j \in D /\ j > k
    BY <1>0, <2>1
  <2> QED
    BY <2>2 DEF j
<1>3. ASSUME NEW g \in [D -> V], NEW k \in D
      PROVE  next(g, k) \in V
  <2>1. CASE x[k].next = 0
    BY <2>1
  <2>2. CASE x[k].next # 0
    <3>1. g[x[k].next] \in V
      BY <1>m, <2>2
    <3> DEFINE u == x[k].chars
               w == g[x[k].next]
    <3>2. u \in Seq(S) /\ w \in Seq(Seq(S))
      BY <1>2, <3>1
    <3> HIDE DEF u, w
    <3>3. <<u>> \in Seq(Seq(S))
      BY <3>2
    <3>4. <<u>> \o w \in V
      BY <3>2, <3>3
    <3> QED
      BY <2>2, <3>4 DEF u, w
  <2> QED
    BY <2>1, <2>2
<1>4. ASSUME NEW k \in D, NEW f \in [D -> V], NEW g \in [D -> V],
             \A y \in D : rank[y] < rank[k] => f[y] = g[y]
      PROVE  next(f, k) = next(g, k)
  <2>0. \A y \in D : y > k => rank[y] < rank[k]
    BY <1>0, <1>1
  <2>1. x[k].next # 0 => f[x[k].next] = g[x[k].next]
    BY <1>m, <1>4, <2>0
  <2> QED
    BY <2>1
<1> HIDE DEF D, V, next
<1>5. step \in [D \X [D -> V] -> V]
  BY <1>3
<1>6. \A k \in D, f \in [D -> V] : step[<<k, f>>] = next(f, k)
  OBVIOUS
<1> HIDE DEF step
<1>7. \A k \in D, f, g \in [D -> V] :
        (\A y \in D : rank[y] < rank[k] => f[y] = g[y]) => step[<<k, f>>] = step[<<k, g>>]
  BY <1>4, <1>6
<1>8. PICK f \in [D -> V] : \A k \in D : f[k] = step[<<k, f>>]
  <2>1. Recursion(D, V, most, rank, step)
    BY <1>0, <1>1, <1>5, <1>7 DEF Recursion
  <2> QED
    BY <2>1, RecursionExists
<1>9. f = [k \in D |-> next(f, k)]
  BY <1>6, <1>8
<1>10. LinesOf(f, d)
  BY <1>9 DEF LinesOf, D, next, most, n, x
<1> QED
  BY <1>10, Zenon DEF LinesFrom

\* The lines from position p on, when ln is what has been read of the first.
Finish(t, ln, p) ==
  IF TextFrom(t)[p].next = 0 THEN <<>>
  ELSE <<ln \o TextFrom(t)[p].chars>> \o LinesFrom(t)[TextFrom(t)[p].next]

\* Lines are that at every position.
LEMMA LinesIs ==
  ASSUME NEW S, NEW d \in Seq(S)
  PROVE  /\ Lines(d) = LinesFrom(d)[1]
         /\ \A k \in 1..(Len(d) + 1) :
              LinesFrom(d)[k] \in Seq(Seq(S)) /\ LinesFrom(d)[k] = Finish(d, <<>>, k)
<1> DEFINE n == Len(d)
           x == TextFrom(d)
           g == LinesFrom(d)
           N == {m \in Nat : \A k \in 1..(n + 1) : n + 1 - k <= m => g[k] \in Seq(Seq(S))}
<1>0. n \in Nat
  OBVIOUS
<1>1. Lines(d) = g[1]
  BY SMT DEF Lines, LinesFrom, LinesOf, TextFrom, TextOf
<1>t. \A k \in 1..(n + 1) : x[k].chars \in Seq(S) /\ x[k].next \in {0} \cup ((k + 1)..(n + 1))
  BY TextIs
<1>2. \A k \in 1..(n + 1) :
        g[k] = IF x[k].next = 0 THEN <<>> ELSE <<x[k].chars>> \o g[x[k].next]
  <2>1. LinesOf(g, d)
    BY LinesExist
  <2> HIDE DEF g
  <2> QED
    BY <2>1 DEF LinesOf
<1>n. n = Len(d)
  OBVIOUS
<1>e. <<>> \in Seq(Seq(S))
  OBVIOUS
<1> HIDE DEF n, g, x
<1>3. 0 \in N
  <2>1. \A k \in 1..(n + 1) : n + 1 - k <= 0 => k = n + 1
    BY <1>0
  <2>2. n + 1 \in 1..(n + 1) /\ (n + 2)..(n + 1) = {} /\ (n + 1) + 1 = n + 2
    BY <1>0
  <2>3. x[n + 1].next = 0
    BY <1>t, <2>2
  <2>4. g[n + 1] = <<>>
    BY <1>2, <2>2, <2>3
  <2> QED
    BY <1>0, <1>e, <2>1, <2>4
<1>4. ASSUME NEW m \in N PROVE m + 1 \in N
  <2> SUFFICES ASSUME NEW k \in 1..(n + 1), n + 1 - k <= m + 1 PROVE g[k] \in Seq(Seq(S))
    BY <1>4
  <2>1. \A j \in 1..(n + 1) : n + 1 - j <= m => g[j] \in Seq(Seq(S))
    BY <1>4
  <2>2. k \in Nat /\ m \in Nat
    BY <1>0, <1>4
  <2> HIDE DEF N
  <2>3. CASE x[k].next = 0
    BY <1>2, <1>e, <2>3
  <2>4. CASE x[k].next # 0
    <3> DEFINE j == x[k].next
               u == x[k].chars
               w == g[j]
    <3>1. j \in (k + 1)..(n + 1) /\ u \in Seq(S) /\ g[k] = <<u>> \o w
      BY <1>2, <1>t, <2>4
    <3> HIDE DEF j, u
    <3>2. j \in 1..(n + 1) /\ n + 1 - j <= m
      BY <1>0, <2>2, <3>1
    <3>3. w \in Seq(Seq(S)) /\ <<u>> \in Seq(Seq(S))
      BY <2>1, <3>1, <3>2
    <3> HIDE DEF w
    <3> QED
      BY <3>1, <3>3
  <2> QED
    BY <2>3, <2>4
<1>5. N = Nat
  <2> HIDE DEF N
  <2>1. N \in SUBSET Nat
    BY DEF N
  <2> QED
    BY <2>1, <1>3, <1>4, Inductive
<1>6. \A k \in 1..(n + 1) : g[k] \in Seq(Seq(S))
  <2> SUFFICES ASSUME NEW k \in 1..(n + 1) PROVE g[k] \in Seq(Seq(S))
    OBVIOUS
  <2>1. n + 1 - k \in Nat
    BY <1>0
  <2>2. n + 1 - k \in N
    BY <1>5, <2>1, Zenon
  <2> QED
    BY <1>0, <2>2
<1>7. \A k \in 1..(n + 1) :
        g[k] = IF x[k].next = 0 THEN <<>> ELSE <<<<>> \o x[k].chars>> \o g[x[k].next]
  <2> SUFFICES ASSUME NEW k \in 1..(n + 1)
      PROVE g[k] = IF x[k].next = 0 THEN <<>> ELSE <<<<>> \o x[k].chars>> \o g[x[k].next]
    OBVIOUS
  <2> DEFINE u == x[k].chars
  <2>1. u \in Seq(S)
    BY <1>t
  <2> HIDE DEF u
  <2>2. <<>> \o u = u
    BY <2>1
  <2>3. <<>> \o x[k].chars = x[k].chars
    BY <2>2 DEF u
  <2> QED
    BY <1>2, <2>3
<1> QED
  BY <1>1, <1>6, <1>7, <1>n DEF g, x, Finish

\* What Finish gains by a character, by the end of a line, and by a CR.
FinishGains(t, ln, p) ==
  /\ t[p] \notin {"LF", "CR"} => Finish(t, ln, p) = Finish(t, Append(ln, t[p]), p + 1)
  /\ t[p] = "LF" => Finish(t, ln, p) = <<ln>> \o Finish(t, <<>>, p + 1)
  /\ t[p] = "CR" /\ p < Len(t) =>
       /\ t[p + 1] = "LF" => Finish(t, ln, p) = <<ln>> \o Finish(t, <<>>, p + 2)
       /\ t[p + 1] = "NUL" => Finish(t, ln, p) = Finish(t, Append(ln, "CR"), p + 2)
       /\ t[p + 1] \notin {"LF", "NUL"} =>
            Finish(t, ln, p) = Finish(t, Append(ln, "CR"), p + 1)

\* It gains that at every position.
LEMMA FinishStep ==
  ASSUME NEW S, NEW t \in Seq(S), NEW ln \in Seq(S), NEW p \in 1..Len(t)
  PROVE  FinishGains(t, ln, p)
<1> DEFINE n == Len(t)
           x == TextFrom(t)
           g == LinesFrom(t)
<1>0. n \in Nat /\ p \in 1..(n + 1) /\ p + 1 \in 1..(n + 1) /\ p <= n /\ p \in Nat
      /\ (p < n => p + 2 \in 1..(n + 1)) /\ p <= Len(t) /\ (p < n <=> p < Len(t))
  OBVIOUS
<1>1. TextAt(t, p, x) /\ \A k \in 1..(n + 1) : x[k].chars \in Seq(S)
  BY TextIs
<1>2. \A k \in 1..(n + 1) : g[k] = Finish(t, <<>>, k)
  BY LinesIs
<1>3. t[p] \in S
  OBVIOUS
<1>n. n = Len(t)
  OBVIOUS
<1> HIDE DEF n, x, g
<1>4. ASSUME NEW c \in S, NEW k \in 1..(n + 1),
             x[p] = [chars |-> <<c>> \o x[k].chars, next |-> x[k].next]
      PROVE  Finish(t, ln, p) = Finish(t, Append(ln, c), k)
  <2> DEFINE u == x[k].chars
  <2>1. u \in Seq(S)
    BY <1>1
  <2>2. x[p].chars = <<c>> \o u /\ x[p].next = x[k].next
    BY <1>4
  <2> HIDE DEF u
  <2>3. Placed(ln, c, u)
    BY <2>1, EitherPlace
  <2>4. ln \o x[p].chars = Append(ln, c) \o x[k].chars
    BY <2>2, <2>3, Zenon DEF Placed, u
  <2> QED
    BY <2>2, <2>4 DEF Finish, x
<1>5. ASSUME NEW k \in 1..(n + 1), x[p] = [chars |-> <<>>, next |-> k]
      PROVE  Finish(t, ln, p) = <<ln>> \o Finish(t, <<>>, k)
  <2>1. x[p].chars = <<>> /\ x[p].next = k /\ k # 0
    BY <1>0, <1>5
  <2>2. ln \o <<>> = ln
    OBVIOUS
  <2>3. ln \o x[p].chars = ln
    BY <2>1, <2>2
  <2>4. Finish(t, ln, p) = <<ln>> \o g[k]
    BY <2>1, <2>3 DEF Finish, x, g
  <2> QED
    BY <1>2, <2>4
<1>6. CASE t[p] \notin {"LF", "CR"}
  <2>1. x[p] = [chars |-> <<t[p]>> \o x[p + 1].chars, next |-> x[p + 1].next]
    BY <1>0, <1>1, <1>6, Zenon DEF TextAt
  <2>2. Finish(t, ln, p) = Finish(t, Append(ln, t[p]), p + 1)
    BY <1>0, <1>3, <1>4, <2>1
  <2> QED
    BY <1>6, <2>2 DEF FinishGains
<1>7. CASE t[p] = "LF"
  <2>1. x[p] = [chars |-> <<>>, next |-> p + 1]
    BY <1>0, <1>1, <1>7, Zenon DEF TextAt
  <2>2. Finish(t, ln, p) = <<ln>> \o Finish(t, <<>>, p + 1)
    BY <1>0, <1>5, <2>1
  <2> QED
    BY <1>7, <2>2 DEF FinishGains
<1>8. CASE t[p] = "CR"
  <2>1. p < n =>
          /\ t[p + 1] = "LF" => x[p] = [chars |-> <<>>, next |-> p + 2]
          /\ t[p + 1] = "NUL" =>
               x[p] = [chars |-> <<"CR">> \o x[p + 2].chars, next |-> x[p + 2].next]
          /\ t[p + 1] \notin {"LF", "NUL"} =>
               x[p] = [chars |-> <<"CR">> \o x[p + 1].chars, next |-> x[p + 1].next]
    BY <1>0, <1>1, <1>8, Zenon DEF TextAt
  <2>2. "CR" \in S
    BY <1>3, <1>8
  <2>3. p < n =>
          /\ t[p + 1] = "LF" => Finish(t, ln, p) = <<ln>> \o Finish(t, <<>>, p + 2)
          /\ t[p + 1] = "NUL" => Finish(t, ln, p) = Finish(t, Append(ln, "CR"), p + 2)
          /\ t[p + 1] \notin {"LF", "NUL"} =>
               Finish(t, ln, p) = Finish(t, Append(ln, "CR"), p + 1)
    BY <1>0, <1>4, <1>5, <2>1, <2>2
  <2> QED
    BY <1>8, <1>n, <2>3 DEF FinishGains
<1> QED
  BY <1>6, <1>7, <1>8 DEF FinishGains

\* Having read d the line reader has ln of a line, a CR it waits behind or
\* not, and ls before that, whatever comes behind d.
LinesAt(S, d, ln, cr, ls) ==
  /\ cr \in BOOLEAN /\ ln \in Seq(S) /\ ls \in Seq(Seq(S))
  /\ cr => Len(d) > 0 /\ d[Len(d)] = "CR"
  /\ \A t \in Seq(S) :
       Extends(d, t) =>
         LinesFrom(t)[1] = ls \o Finish(t, ln, IF cr THEN Len(d) ELSE Len(d) + 1)

\* The reader before it has read anything.
LEMMA LinesStart ==
  ASSUME NEW S
  PROVE  LinesAt(S, <<>>, <<>>, FALSE, <<>>)
<1>1. ASSUME NEW t \in Seq(S)
      PROVE  LinesFrom(t)[1] = <<>> \o Finish(t, <<>>, 0 + 1)
  <2>1. 1 \in 1..(Len(t) + 1)
    OBVIOUS
  <2> DEFINE u == LinesFrom(t)[1]
  <2>2. u \in Seq(Seq(S)) /\ u = Finish(t, <<>>, 1)
    BY <2>1, LinesIs
  <2> HIDE DEF u
  <2>3. u = <<>> \o u
    BY <2>2
  <2> QED
    BY <2>2, <2>3 DEF u
<1> QED
  BY <1>1 DEF LinesAt

\* The first n + 1 elements of what extends u by an element.
LEMMA ExtendsBy ==
  ASSUME NEW S, NEW d \in Seq(S), NEW x \in S
  PROVE  /\ Append(d, x) \in Seq(S) /\ Len(Append(d, x)) = Len(d) + 1 /\ Len(d) \in Nat
         /\ Append(d, x)[Len(d) + 1] = x
         /\ Len(d) > 0 => Append(d, x)[Len(d)] = d[Len(d)]
OBVIOUS

\* What one more byte of data makes of a line and the lines before it, behind
\* no CR or behind one, when u is all that was read.
LineTaken(S, u, x, ln, cr, ls) ==
  /\ ~cr =>
       /\ x = "LF" => LinesAt(S, u, <<>>, FALSE, Append(ls, ln))
       /\ x = "CR" => LinesAt(S, u, ln, TRUE, ls)
       /\ x \notin {"LF", "CR"} => LinesAt(S, u, Append(ln, x), FALSE, ls)
  /\ cr =>
       /\ x = "LF" => LinesAt(S, u, <<>>, FALSE, Append(ls, ln))
       /\ x = "NUL" => LinesAt(S, u, Append(ln, "CR"), FALSE, ls)
       /\ x = "CR" => LinesAt(S, u, Append(ln, "CR"), TRUE, ls)
       /\ x \notin {"LF", "NUL", "CR"} =>
            LinesAt(S, u, Append(Append(ln, "CR"), x), FALSE, ls)

\* One more byte of data.
LEMMA LinesStep ==
  ASSUME NEW S, NEW d \in Seq(S), NEW ln, NEW cr, NEW ls, LinesAt(S, d, ln, cr, ls), NEW x \in S
  PROVE  LineTaken(S, Append(d, x), x, ln, cr, ls)
<1> DEFINE n == Len(d)
           u == Append(d, x)
<1>0. /\ u \in Seq(S) /\ Len(u) = n + 1 /\ n \in Nat /\ u[n + 1] = x
      /\ n > 0 => u[n] = d[n]
  BY ExtendsBy
<1>1. /\ cr \in BOOLEAN /\ ln \in Seq(S) /\ ls \in Seq(Seq(S))
      /\ cr => n > 0 /\ d[n] = "CR" /\ "CR" \in S
  <2>1. cr => n \in 1..Len(d)
    BY <1>0 DEF LinesAt
  <2> QED
    BY <2>1 DEF LinesAt
<1>2. ASSUME NEW t \in Seq(S), Extends(u, t)
      PROVE  /\ LinesFrom(t)[1] = ls \o Finish(t, ln, IF cr THEN n ELSE n + 1)
             /\ t[n + 1] = x /\ n + 1 \in 1..Len(t) /\ n < Len(t)
             /\ n > 0 => t[n] = d[n] /\ n \in 1..Len(t)
  <2>1. Extends(d, t) /\ Len(t) \in Nat /\ n + 1 <= Len(t) /\ t[n + 1] = x
    BY <1>2, ExtendsMore
  <2>2. n > 0 => t[n] = d[n]
    BY <1>0, <2>1 DEF Extends
  <2>3. LinesFrom(t)[1] = ls \o Finish(t, ln, IF cr THEN n ELSE n + 1)
    BY <2>1 DEF LinesAt
  <2> HIDE DEF n
  <2>4. n + 1 \in 1..Len(t) /\ n < Len(t) /\ (n > 0 => n \in 1..Len(t))
    BY <1>0, <2>1
  <2> QED
    BY <2>1, <2>2, <2>3, <2>4
<1>3. ASSUME NEW t \in Seq(S), NEW p \in 1..Len(t), NEW c \in Seq(S)
      PROVE
        /\ t[p] \notin {"LF", "CR"} => Finish(t, c, p) = Finish(t, Append(c, t[p]), p + 1)
        /\ t[p] = "LF" => Finish(t, c, p) = <<c>> \o Finish(t, <<>>, p + 1)
        /\ t[p] = "CR" /\ p < Len(t) =>
             /\ t[p + 1] = "LF" => Finish(t, c, p) = <<c>> \o Finish(t, <<>>, p + 2)
             /\ t[p + 1] = "NUL" => Finish(t, c, p) = Finish(t, Append(c, "CR"), p + 2)
             /\ t[p + 1] \notin {"LF", "NUL"} =>
                  Finish(t, c, p) = Finish(t, Append(c, "CR"), p + 1)
  <2>1. FinishGains(t, c, p)
    BY FinishStep
  <2> QED
    BY <2>1, Zenon DEF FinishGains
<1>4. ASSUME NEW t \in Seq(S), NEW p \in 1..(Len(t) + 1)
      PROVE  Placed(ls, ln, Finish(t, <<>>, p))
  <2> DEFINE w == Finish(t, <<>>, p)
  <2>1. w \in Seq(Seq(S))
    BY LinesIs
  <2> DEFINE T == Seq(S)
  <2>2. ls \in Seq(T) /\ ln \in T /\ w \in Seq(T)
    BY <1>1, <2>1
  <2> HIDE DEF w, T
  <2>3. Placed(ls, ln, w)
    BY <2>2, EitherPlace
  <2> QED
    BY <2>3 DEF w
<1>a. ASSUME NEW q \in Seq(S), NEW b \in BOOLEAN, NEW m \in Seq(Seq(S)), b => x = "CR",
             \A t \in Seq(S) : Extends(u, t) =>
               LinesFrom(t)[1] = m \o Finish(t, q, IF b THEN n + 1 ELSE n + 2)
      PROVE  LinesAt(S, u, q, b, m)
  <2>1. (n + 1) + 1 = n + 2 /\ n + 1 > 0
    BY <1>0
  <2>2. \A t \in Seq(S) : Extends(u, t) =>
          LinesFrom(t)[1] = m \o Finish(t, q, IF b THEN Len(u) ELSE Len(u) + 1)
    <3> HIDE DEF u, n
    <3> QED
      BY <1>0, <1>a, <2>1
  <2> HIDE DEF u, n
  <2> QED
    BY <1>0, <1>a, <2>1, <2>2 DEF LinesAt
<1>b. /\ Append(ls, ln) \in Seq(Seq(S)) /\ Append(ln, x) \in Seq(S) /\ <<>> \in Seq(S)
      /\ cr => Append(ln, "CR") \in Seq(S) /\ Append(Append(ln, "CR"), x) \in Seq(S)
  BY <1>1
<1>n. (n + 1) + 1 = n + 2 /\ \A t \in Seq(S) : Extends(u, t) => n + 2 \in 1..(Len(t) + 1)
  <2>1. \A t \in Seq(S) : Extends(u, t) => n + 1 \in 1..Len(t) /\ Len(t) \in Nat
    BY <1>2
  <2> HIDE DEF n, u
  <2> QED
    BY <1>0, <2>1
<1> HIDE DEF n, u
<1>5. CASE ~cr
  <2>1. \A t \in Seq(S) : Extends(u, t) =>
          /\ LinesFrom(t)[1] = ls \o Finish(t, ln, n + 1)
          /\ t[n + 1] = x /\ n + 1 \in 1..Len(t)
    BY <1>2, <1>5
  <2>2. CASE x = "LF"
    <3>1. \A t \in Seq(S) : Extends(u, t) =>
            LinesFrom(t)[1] = Append(ls, ln) \o Finish(t, <<>>, n + 2)
      <4> SUFFICES ASSUME NEW t \in Seq(S), Extends(u, t)
          PROVE  LinesFrom(t)[1] = Append(ls, ln) \o Finish(t, <<>>, n + 2)
        OBVIOUS
      <4>1. Finish(t, ln, n + 1) = <<ln>> \o Finish(t, <<>>, n + 2)
        <5>1. n + 1 \in 1..Len(t) /\ t[n + 1] = "LF"
          BY <2>1, <2>2
        <5>2. Finish(t, ln, n + 1) = <<ln>> \o Finish(t, <<>>, (n + 1) + 1)
          BY <1>1, <1>3, <5>1, Zenon
        <5> QED
          BY <1>n, <5>2
      <4>2. Placed(ls, ln, Finish(t, <<>>, n + 2))
        BY <1>4, <1>n
      <4>3. LinesFrom(t)[1] = ls \o Finish(t, ln, n + 1)
        BY <2>1
      <4> QED
        BY <4>1, <4>2, <4>3, Zenon DEF Placed
    <3> QED
      BY <1>a, <1>b, <1>5, <2>2, <3>1 DEF u, LineTaken
  <2>3. CASE x = "CR"
    BY <1>1, <1>a, <1>5, <2>1, <2>3 DEF u, LineTaken
  <2>4. CASE x \notin {"LF", "CR"}
    <3>1. \A t \in Seq(S) : Extends(u, t) =>
            LinesFrom(t)[1] = ls \o Finish(t, Append(ln, x), n + 2)
      <4> SUFFICES ASSUME NEW t \in Seq(S), Extends(u, t)
          PROVE  LinesFrom(t)[1] = ls \o Finish(t, Append(ln, x), n + 2)
        OBVIOUS
      <4>1. Finish(t, ln, n + 1) = Finish(t, Append(ln, x), n + 2)
        <5>1. n + 1 \in 1..Len(t) /\ t[n + 1] = x
          BY <2>1
        <5>2. Finish(t, ln, n + 1) = Finish(t, Append(ln, t[n + 1]), (n + 1) + 1)
          BY <1>1, <1>3, <2>4, <5>1
        <5> QED
          BY <1>n, <5>1, <5>2
      <4> QED
        BY <2>1, <4>1
    <3> QED
      BY <1>1, <1>a, <1>b, <1>5, <2>4, <3>1 DEF u, LineTaken
  <2> QED
    BY <1>5, <2>2, <2>3, <2>4 DEF LineTaken
<1>6. CASE cr
  <2>1. \A t \in Seq(S) : Extends(u, t) =>
          /\ LinesFrom(t)[1] = ls \o Finish(t, ln, n) /\ n \in 1..Len(t) /\ t[n] = "CR"
          /\ t[n + 1] = x /\ n + 1 \in 1..Len(t) /\ n < Len(t)
    BY <1>1, <1>2, <1>6
  <2>2. CASE x = "LF"
    <3>1. \A t \in Seq(S) : Extends(u, t) =>
            LinesFrom(t)[1] = Append(ls, ln) \o Finish(t, <<>>, n + 2)
      <4> SUFFICES ASSUME NEW t \in Seq(S), Extends(u, t)
          PROVE  LinesFrom(t)[1] = Append(ls, ln) \o Finish(t, <<>>, n + 2)
        OBVIOUS
      <4>1. Finish(t, ln, n) = <<ln>> \o Finish(t, <<>>, n + 2)
        BY <1>1, <1>3, <2>1, <2>2
      <4>2. Placed(ls, ln, Finish(t, <<>>, n + 2))
        BY <1>4, <1>n
      <4>3. LinesFrom(t)[1] = ls \o Finish(t, ln, n)
        BY <2>1
      <4> QED
        BY <4>1, <4>2, <4>3, Zenon DEF Placed
    <3> QED
      BY <1>a, <1>b, <1>6, <2>2, <3>1 DEF u, LineTaken
  <2>3. CASE x = "NUL"
    <3>1. \A t \in Seq(S) : Extends(u, t) =>
            LinesFrom(t)[1] = ls \o Finish(t, Append(ln, "CR"), n + 2)
      BY <1>1, <1>3, <2>1, <2>3
    <3> QED
      BY <1>1, <1>a, <1>b, <1>6, <2>3, <3>1 DEF u, LineTaken
  <2>4. x \notin {"LF", "NUL"} => \A t \in Seq(S) : Extends(u, t) =>
          LinesFrom(t)[1] = ls \o Finish(t, Append(ln, "CR"), n + 1)
    <3> SUFFICES ASSUME x \notin {"LF", "NUL"}, NEW t \in Seq(S), Extends(u, t)
        PROVE  LinesFrom(t)[1] = ls \o Finish(t, Append(ln, "CR"), n + 1)
      OBVIOUS
    <3>1. Finish(t, ln, n) = Finish(t, Append(ln, "CR"), n + 1)
      BY <1>1, <1>3, <2>1
    <3> QED
      BY <2>1, <3>1
  <2>5. CASE x = "CR"
    BY <1>1, <1>a, <1>b, <1>6, <2>4, <2>5 DEF u, LineTaken
  <2>6. CASE x \notin {"LF", "NUL", "CR"}
    <3>1. \A t \in Seq(S) : Extends(u, t) =>
            LinesFrom(t)[1] = ls \o Finish(t, Append(Append(ln, "CR"), x), n + 2)
      <4> SUFFICES ASSUME NEW t \in Seq(S), Extends(u, t)
          PROVE  LinesFrom(t)[1] = ls \o Finish(t, Append(Append(ln, "CR"), x), n + 2)
        OBVIOUS
      <4> DEFINE c == Append(ln, "CR")
      <4>1. c \in Seq(S) /\ t[n + 1] = x /\ n + 1 \in 1..Len(t)
        BY <1>6, <1>b, <2>1
      <4> HIDE DEF c
      <4>2. Finish(t, c, n + 1) = Finish(t, Append(c, x), n + 2)
        <5>1. Finish(t, c, n + 1) = Finish(t, Append(c, t[n + 1]), (n + 1) + 1)
          BY <1>3, <2>6, <4>1
        <5> QED
          BY <1>n, <4>1, <5>1
      <4> QED
        BY <2>4, <2>6, <4>2 DEF c
    <3> QED
      BY <1>1, <1>a, <1>b, <1>6, <2>6, <3>1 DEF u, LineTaken
  <2> QED
    BY <1>6, <2>2, <2>3, <2>5, <2>6 DEF LineTaken
<1> QED
  BY <1>1, <1>5, <1>6 DEF u, LineTaken

\* The lines found are the complete lines of what was read.
LEMMA LinesEnd ==
  ASSUME NEW S, NEW d \in Seq(S), NEW ln, NEW cr, NEW ls, LinesAt(S, d, ln, cr, ls)
  PROVE  Lines(d) = ls
<1> DEFINE n == Len(d)
           p == IF cr THEN n ELSE n + 1
<1>1. n \in Nat /\ ls \in Seq(Seq(S)) /\ cr \in BOOLEAN /\ (cr => n > 0 /\ d[n] = "CR")
  BY DEF LinesAt
<1>2. LinesFrom(d)[1] = ls \o Finish(d, ln, p)
  BY ExtendsItself DEF LinesAt
<1>3. p \in 1..(n + 1) /\ (p > Len(d) \/ (p = Len(d) /\ d[p] = "CR"))
  BY <1>1
<1>4. TextFrom(d)[p].next = 0
  <2>1. TextAt(d, p, TextFrom(d))
    BY <1>3, TextIs
  <2>2. TextFrom(d)[p] = [chars |-> <<>>, next |-> 0]
    <3> HIDE DEF p
    <3> QED
      BY <1>3, <2>1, Zenon DEF TextAt
  <2> HIDE DEF p
  <2> QED
    BY <2>2
<1>5. Finish(d, ln, p) = <<>>
  <2> HIDE DEF p
  <2> QED
    BY <1>4, Zenon DEF Finish
<1>6. ls \o <<>> = ls
  BY <1>1
<1>7. LinesFrom(d)[1] = ls
  <2> HIDE DEF p
  <2> QED
    BY <1>2, <1>5, <1>6
<1> QED
  BY <1>7, LinesIs

-----------------------------------------------------------------------------
(* The line reader of the code and the lines                               *)

\* What taking a byte behind no CR does to a reader.
PlainTaken(r, byte, q) ==
  /\ q.rest = r.rest /\ q.decoder = r.decoder
  /\ byte = "LF" => q.result = "line" /\ q.text = r.line /\ q.line = <<>> /\ q.cr = FALSE
  /\ byte = "CR" => q.result = "more" /\ q.line = r.line /\ q.cr = TRUE
  /\ byte \notin {"LF", "CR"} =>
       \/ q.result = "too_long"
       \/ q.result = "more" /\ q.line = Append(r.line, byte) /\ q.cr = FALSE

\* What taking a byte behind a CR does.
AfterCrTaken(r, byte, q) ==
  /\ q.rest = r.rest /\ q.decoder = r.decoder
  /\ byte = "LF" => q.result = "line" /\ q.text = r.line /\ q.line = <<>> /\ q.cr = FALSE
  /\ byte # "LF" /\ q.result # "too_long" =>
       /\ q.result = "more"
       /\ byte = "NUL" => q.line = Append(r.line, "CR") /\ q.cr = FALSE
       /\ byte = "CR" => q.line = Append(r.line, "CR") /\ q.cr = TRUE
       /\ byte \notin {"NUL", "CR"} =>
            q.line = Append(Append(r.line, "CR"), byte) /\ q.cr = FALSE

\* append adds the byte, or finds the line full.
LEMMA AppendIs ==
  ASSUME NEW r \in ReaderStates, NEW byte \in Letters
  PROVE  LET q == append(r, byte) IN
         /\ q \in ReaderStates
         /\ q.rest = r.rest /\ q.decoder = r.decoder /\ q.cr = r.cr
         /\ \/ q.result = "too_long"
            \/ q.result = r.result /\ q.line = Append(r.line, byte)
<1>1. [r EXCEPT !.result = "too_long"] \in ReaderStates
  BY ReaderFields
<1>2. Append(r.line, byte) \in Seq(Letters)
  BY ReaderFields, AppendProperties
<1>3. [r EXCEPT !.line = Append(r.line, byte)] \in ReaderStates
  BY <1>2, ReaderFields
<1> QED
  BY <1>1, <1>3 DEF append, ReaderStates

\* TakePlain does that.
LEMMA TakePlainIs ==
  ASSUME NEW r \in ReaderStates, NEW byte \in Letters, r.result = "more", r.cr = FALSE
  PROVE  PlainTaken(r, byte, TakePlain(r, byte))
<1>1. CASE byte = "LF"
  BY <1>1 DEF PlainTaken, TakePlain, EndOfLine, ReaderStates
<1>2. CASE byte = "CR"
  BY <1>2 DEF PlainTaken, TakePlain, ReaderStates
<1>3. CASE byte \notin {"LF", "CR"}
  <2>1. TakePlain(r, byte) = append(r, byte)
    BY <1>3 DEF TakePlain
  <2> QED
    BY <1>3, <2>1, AppendIs DEF PlainTaken
<1> QED
  BY <1>1, <1>2, <1>3

\* TakeAfterCr does that.
LEMMA TakeAfterCrIs ==
  ASSUME NEW r \in ReaderStates, NEW byte \in Letters, r.result = "more", r.cr = TRUE
  PROVE  AfterCrTaken(r, byte, TakeAfterCr(r, byte))
<1> DEFINE s == [r EXCEPT !.cr = FALSE]
           t == append(s, "CR")
<1>1. /\ s \in ReaderStates /\ s.rest = r.rest /\ s.decoder = r.decoder /\ s.cr = FALSE
      /\ s.line = r.line /\ s.result = "more"
  BY DEF ReaderStates
<1>2. TakeAfterCr(r, byte) = IF byte = "LF" THEN EndOfLine(s)
                             ELSE IF t.result = "too_long" \/ byte = "NUL" THEN t
                             ELSE TakePlain(t, byte)
  BY DEF TakeAfterCr
<1> HIDE DEF s
<1>3. CASE byte = "LF"
  <2>1. /\ EndOfLine(s).rest = s.rest /\ EndOfLine(s).decoder = s.decoder
        /\ EndOfLine(s).result = "line" /\ EndOfLine(s).text = s.line
        /\ EndOfLine(s).line = <<>> /\ EndOfLine(s).cr = s.cr
    BY <1>1 DEF EndOfLine, ReaderStates
  <2> QED
    BY <1>1, <1>2, <1>3, <2>1 DEF AfterCrTaken
<1>4. CASE byte # "LF"
  <2>1. /\ t \in ReaderStates /\ t.rest = r.rest /\ t.decoder = r.decoder /\ t.cr = FALSE
        /\ t.result = "too_long" \/ (t.result = "more" /\ t.line = Append(r.line, "CR"))
    <3>1. "CR" \in Letters
      BY DEF Letters
    <3> QED
      BY <1>1, <3>1, AppendIs
  <2> HIDE DEF t
  <2>2. CASE t.result = "too_long" \/ byte = "NUL"
    BY <1>2, <1>4, <2>1, <2>2 DEF AfterCrTaken
  <2>3. CASE ~(t.result = "too_long" \/ byte = "NUL")
    <3>1. PlainTaken(t, byte, TakePlain(t, byte))
      BY <2>1, <2>3, TakePlainIs
    <3>2. TakeAfterCr(r, byte) = TakePlain(t, byte)
      BY <1>2, <1>4, <2>3
    <3> QED
      BY <1>4, <2>1, <2>3, <3>1, <3>2 DEF PlainTaken, AfterCrTaken
  <2> QED
    BY <2>2, <2>3
<1> QED
  BY <1>3, <1>4

\* A reader r has read c; before this read_line the lines of the stream were
\* ls, and r has found the one that comes next, or none yet.
ReaderAt(c, r, ls) ==
  /\ DecodedAt(config.bytes, c, r.decoder, Decoded(c))
  /\ r.result # "too_long" =>
       LinesAt(config.bytes, Decoded(c), r.line, r.cr, Lines(Decoded(c)))
  /\ Lines(Decoded(c)) = IF r.result = "line" THEN Append(ls, r.text) ELSE ls

\* One more byte, whatever state the decoder and the reader are in.
LEMMA ReaderStep ==
  ASSUME NEW r \in ReaderStates, r.result = "more", NEW byte \in config.bytes,
         NEW c \in Seq(config.bytes), NEW ls, ReaderAt(c, r, ls)
  PROVE  ReaderAt(Append(c, byte), TakeByte(r, byte), ls) /\ TakeByte(r, byte).rest = r.rest
<1> DEFINE S == config.bytes
           d == Decoded(c)
           u == Append(c, byte)
           h == HandedOn(r.decoder, byte)
           next == feed_state(r.decoder, byte)
           s == [r EXCEPT !.decoder = next]
           q == TakeByte(r, byte)
<1>0. /\ byte \in Letters /\ u \in Seq(S)
      /\ DecodedAt(S, c, r.decoder, d) /\ d \in Seq(S)
      /\ LinesAt(S, d, r.line, r.cr, ls)
  BY DEF ReaderAt, Letters, DecodedAt
<1>1. DecodedAt(S, u, next, d \o h) /\ Decoded(u) = d \o h
  <2>1. DecodedAt(S, u, next, d \o h)
    BY <1>0, DecodeStep
  <2> HIDE DEF u, h, next
  <2> QED
    BY <1>0, <2>1, DecodeEnd
<1>2. /\ s \in ReaderStates /\ s.rest = r.rest /\ s.decoder = next /\ s.cr = r.cr
      /\ s.line = r.line /\ s.result = "more"
  <2>1. next \in DecoderStates
    BY <1>1 DEF DecodedAt
  <2> HIDE DEF next
  <2> QED
    BY <2>1 DEF ReaderStates
<1>3. q = IF ~feed_data(r.decoder, byte) THEN s
          ELSE IF r.cr THEN TakeAfterCr(s, byte) ELSE TakePlain(s, byte)
  <2>1. s.cr = r.cr
    BY <1>2
  <2> QED
    BY DEF TakeByte
<1> HIDE DEF s, q, u, d, next
<1>4. CASE ~feed_data(r.decoder, byte)
  <2>1. q = s /\ d \o h = d
    BY <1>0, <1>3, <1>4 DEF HandedOn
  <2>2. Decoded(u) = d /\ Lines(d) = ls
    BY <1>0, <1>1, <2>1, LinesEnd
  <2>3. ReaderAt(u, q, ls)
    BY <1>0, <1>1, <1>2, <2>1, <2>2 DEF ReaderAt
  <2> QED
    BY <1>2, <2>1, <2>3 DEF q, u
<1>5. CASE feed_data(r.decoder, byte)
  <2> DEFINE e == Append(d, byte)
  <2>1. Decoded(u) = e /\ DecodedAt(S, u, next, e) /\ e \in Seq(S)
    <3>1. d \o h = Append(d, byte)
      BY <1>0, <1>5 DEF HandedOn
    <3> QED
      BY <1>1, <3>1 DEF DecodedAt
  <2>2. LineTaken(S, e, byte, r.line, r.cr, ls)
    BY <1>0, LinesStep
  <2> HIDE DEF e
  <2>3. ASSUME NEW ln, NEW cr, NEW m, LinesAt(S, e, ln, cr, m) PROVE Lines(e) = m
    BY <2>1, <2>3, LinesEnd
  <2>4. r.cr \in BOOLEAN
    BY DEF ReaderStates
  <2>5. /\ q.rest = r.rest /\ q.decoder = next
        /\ \/ q.result = "line" /\ LinesAt(S, e, q.line, q.cr, Append(ls, q.text))
           \/ q.result = "more" /\ LinesAt(S, e, q.line, q.cr, ls)
           \/ q.result = "too_long" /\ \E ln, cr : LinesAt(S, e, ln, cr, ls)
    <3>1. CASE ~r.cr
      <4>1. PlainTaken(s, byte, q)
        BY <1>0, <1>2, <1>3, <1>5, <2>4, <3>1, TakePlainIs
      <4>2. CASE byte = "LF"
        BY <1>2, <2>2, <3>1, <4>1, <4>2 DEF PlainTaken, LineTaken
      <4>3. CASE byte = "CR"
        BY <1>2, <2>2, <3>1, <4>1, <4>3 DEF PlainTaken, LineTaken
      <4>4. CASE byte \notin {"LF", "CR"}
        BY <1>2, <2>2, <3>1, <4>1, <4>4 DEF PlainTaken, LineTaken
      <4> QED
        BY <4>2, <4>3, <4>4
    <3>2. CASE r.cr
      <4>1. AfterCrTaken(s, byte, q)
        BY <1>0, <1>2, <1>3, <1>5, <2>4, <3>2, TakeAfterCrIs
      <4>2. CASE byte = "LF"
        BY <1>2, <2>2, <3>2, <4>1, <4>2 DEF AfterCrTaken, LineTaken
      <4>3. CASE byte = "NUL"
        BY <1>2, <2>2, <3>2, <4>1, <4>3 DEF AfterCrTaken, LineTaken
      <4>4. CASE byte = "CR"
        BY <1>2, <2>2, <3>2, <4>1, <4>4 DEF AfterCrTaken, LineTaken
      <4>5. CASE byte \notin {"LF", "NUL", "CR"}
        BY <1>2, <2>2, <3>2, <4>1, <4>5 DEF AfterCrTaken, LineTaken
      <4> QED
        BY <4>2, <4>3, <4>4, <4>5
    <3> QED
      BY <2>4, <3>1, <3>2
  <2>6. ReaderAt(u, q, ls)
    <3>1. CASE q.result = "line" /\ LinesAt(S, e, q.line, q.cr, Append(ls, q.text))
      <4>1. Lines(e) = Append(ls, q.text)
        BY <2>3, <3>1
      <4> QED
        BY <2>1, <2>5, <3>1, <4>1 DEF ReaderAt
    <3>2. CASE q.result = "more" /\ LinesAt(S, e, q.line, q.cr, ls)
      <4>1. Lines(e) = ls
        BY <2>3, <3>2
      <4> QED
        BY <2>1, <2>5, <3>2, <4>1 DEF ReaderAt
    <3>3. CASE q.result = "too_long" /\ \E ln, cr : LinesAt(S, e, ln, cr, ls)
      <4>1. Lines(e) = ls
        BY <2>3, <3>3
      <4> QED
        BY <2>1, <2>5, <3>3, <4>1 DEF ReaderAt
    <3> QED
      BY <2>5, <3>1, <3>2, <3>3
  <2> QED
    BY <2>5, <2>6 DEF q, u
<1> QED
  BY <1>4, <1>5

\* A scan that begins behind c reads j bytes of the input, all of them unless
\* it finds a line, and leaves the others.
ScanRead(c, input, r, ls, j) ==
  /\ r.rest = SubSeq(input, j + 1, Len(input))
  /\ r.result = "more" => j = Len(input)
  /\ ReaderAt(c \o SubSeq(input, 1, j), r, ls)

\* The first k bytes of a sequence, one by one.
LEMMA PiecesOf ==
  ASSUME NEW S, NEW s \in Seq(S), NEW k \in 0..Len(s), NEW j \in 0..k
  PROVE  /\ SubSeq(s, 1, j) \in Seq(S) /\ SubSeq(s, j + 1, k) \in Seq(S)
         /\ SubSeq(s, k + 1, k) = <<>>
         /\ k < Len(s) =>
              /\ s[k + 1] \in S
              /\ SubSeq(s, 1, k + 1) = Append(SubSeq(s, 1, k), s[k + 1])
              /\ SubSeq(s, j + 1, k + 1) = Append(SubSeq(s, j + 1, k), s[k + 1])
<1>1. ASSUME k < Len(s)
      PROVE  SubSeq(s, j + 1, k + 1) = Append(SubSeq(s, j + 1, k), s[k + 1])
  BY <1>1
<1>2. ASSUME k < Len(s)
      PROVE  SubSeq(s, 1, k + 1) = Append(SubSeq(s, 1, k), s[k + 1])
  BY <1>2
<1> QED
  BY <1>1, <1>2

\* The reader of the code finds the lines of the stream one by one, wherever
\* a read ended, and reads nothing beyond the line it returns.
LEMMA ScanIs ==
  ASSUME TelnetInv, NEW input \in Seq(config.bytes), NEW c \in Seq(config.bytes),
         DecodedAt(config.bytes, c, decoder, Decoded(c)),
         LinesAt(config.bytes, Decoded(c), line, pending_cr, Lines(Decoded(c)))
  PROVE  \E j \in 0..Len(input) :
           ScanRead(c, input, Scan(input), Lines(Decoded(c)), j)
<1> DEFINE S == config.bytes
           n == Len(input)
           ls == Lines(Decoded(c))
           At(k, j, r) == /\ r.rest = SubSeq(input, j + 1, k)
                          /\ r.result = "more" => j = k
                          /\ ReaderAt(c \o SubSeq(input, 1, j), r, ls)
<1>1. PICK H : ScanSteps(H, input)
  BY ScanGoes
<1>2. /\ H[0] = Reader(<<>>) /\ H[n] = Scan(input)
      /\ \A k \in 0..n : H[k] \in ReaderStates
      /\ \A k \in 0..n : k < n => H[k + 1] = ScanNext(H[k], input[k + 1])
  BY <1>1 DEF ScanSteps
<1>3. n \in Nat /\ n = Len(input)
  OBVIOUS
<1> DEFINE N == {k \in Nat : k <= n => \E j \in 0..k : At(k, j, H[k])}
<1>p. \A k \in 0..n : \A j \in 0..k :
        /\ SubSeq(input, 1, j) \in Seq(S) /\ SubSeq(input, j + 1, k) \in Seq(S)
        /\ SubSeq(input, k + 1, k) = <<>>
        /\ k < n =>
             /\ input[k + 1] \in S
             /\ SubSeq(input, 1, k + 1) = Append(SubSeq(input, 1, k), input[k + 1])
             /\ SubSeq(input, j + 1, k + 1) = Append(SubSeq(input, j + 1, k), input[k + 1])
  BY PiecesOf
<1> HIDE DEF n, ls
<1>4. 0 \in N
  <2>1. 0 \in 0..n /\ 0 \in 0..0
    BY <1>3
  <2>2. SubSeq(input, 0 + 1, 0) = <<>> /\ SubSeq(input, 1, 0) = <<>>
    BY <1>p, <2>1
  <2>3. c \o <<>> = c
    OBVIOUS
  <2>4. ReaderAt(c, Reader(<<>>), ls)
    BY DEF ReaderAt, Reader, ls
  <2>5. At(0, 0, Reader(<<>>))
    <3>1. Reader(<<>>).rest = <<>>
      BY DEF Reader
    <3> QED
      BY <2>2, <2>3, <2>4, <3>1
  <2> HIDE DEF At
  <2> QED
    BY <1>2, <2>1, <2>5
<1>5. ASSUME NEW k \in N PROVE k + 1 \in N
  <2> SUFFICES ASSUME k + 1 <= n PROVE \E j \in 0..(k + 1) : At(k + 1, j, H[k + 1])
    BY <1>5
  <2>1. k \in Nat /\ k <= n /\ k \in 0..n /\ k < n /\ k \in 0..k /\ k + 1 \in 0..n
    BY <1>3, <1>5
  <2>2. PICK j \in 0..k : At(k, j, H[k])
    BY <1>5, <2>1
  <2> HIDE DEF N
  <2> DEFINE r == H[k]
             x == input[k + 1]
  <2>3. /\ r \in ReaderStates /\ H[k + 1] = ScanNext(r, x) /\ x \in S
        /\ SubSeq(input, 1, k + 1) = Append(SubSeq(input, 1, k), x)
        /\ SubSeq(input, j + 1, k + 1) = Append(SubSeq(input, j + 1, k), x)
        /\ SubSeq(input, 1, j) \in Seq(S) /\ SubSeq(input, 1, k) \in Seq(S)
    BY <1>2, <1>p, <2>1, <2>2
  <2>4. r.rest = SubSeq(input, j + 1, k) /\ ReaderAt(c \o SubSeq(input, 1, j), r, ls)
        /\ (r.result = "more" => j = k)
    BY <2>2
  <2> HIDE DEF r, x
  <2>5. CASE r.result = "more"
    <3> DEFINE u == SubSeq(input, 1, k)
               v == c \o u
    <3>1. v \in Seq(S) /\ ReaderAt(v, r, ls)
      BY <2>3, <2>4, <2>5, ConcatProperties
    <3>2. H[k + 1] = TakeByte(r, x)
      BY <2>3, <2>5 DEF ScanNext
    <3>3. Append(v, x) = c \o SubSeq(input, 1, k + 1)
      <4>1. u \in Seq(S) /\ SubSeq(input, 1, k + 1) = Append(u, x)
        BY <2>3
      <4> HIDE DEF u
      <4>2. c \in Seq(S) /\ x \in S
        BY <2>3
      <4> HIDE DEF S
      <4>3. Behind(c, u, x)
        BY <4>1, <4>2, BehindSecond
      <4> QED
        BY <4>1, <4>3, Zenon DEF Behind
    <3> HIDE DEF v
    <3>4. ReaderAt(Append(v, x), TakeByte(r, x), ls) /\ TakeByte(r, x).rest = r.rest
      BY <2>3, <2>5, <3>1, ReaderStep
    <3>5. r.rest = <<>> /\ SubSeq(input, (k + 1) + 1, k + 1) = <<>>
      <4>1. k \in 0..n /\ k + 1 \in 0..n /\ k \in 0..k /\ k + 1 \in 0..(k + 1)
        BY <2>1
      <4>2. SubSeq(input, k + 1, k) = <<>> /\ SubSeq(input, (k + 1) + 1, k + 1) = <<>>
        BY <1>p, <4>1
      <4>3. r.rest = SubSeq(input, k + 1, k)
        BY <2>4, <2>5
      <4> QED
        BY <4>2, <4>3
    <3>6. At(k + 1, k + 1, H[k + 1])
      BY <3>2, <3>3, <3>4, <3>5
    <3>7. k + 1 \in 0..(k + 1)
      BY <2>1
    <3> HIDE DEF At
    <3> QED
      BY <3>6, <3>7
  <2>6. CASE r.result # "more"
    <3> DEFINE q == H[k + 1]
    <3>1. q = [r EXCEPT !.rest = Append(r.rest, x)]
      BY <2>3, <2>6 DEF ScanNext
    <3>2. /\ q.rest = Append(r.rest, x) /\ q.result = r.result /\ q.decoder = r.decoder
          /\ q.line = r.line /\ q.cr = r.cr /\ q.text = r.text
      BY <2>3, <3>1 DEF ReaderStates
    <3> HIDE DEF q
    <3>3. ReaderAt(c \o SubSeq(input, 1, j), q, ls)
      BY <2>4, <3>2 DEF ReaderAt
    <3>4. q.rest = SubSeq(input, j + 1, k + 1)
      BY <2>3, <2>4, <3>2
    <3>5. At(k + 1, j, q)
      BY <2>6, <3>2, <3>3, <3>4
    <3>6. j \in 0..(k + 1)
      BY <2>1
    <3> HIDE DEF At
    <3> QED
      BY <3>5, <3>6 DEF q
  <2> QED
    BY <2>5, <2>6
<1>6. N = Nat
  <2> HIDE DEF N
  <2>1. N \in SUBSET Nat
    BY DEF N
  <2> QED
    BY <2>1, <1>4, <1>5, Inductive
<1>7. \E j \in 0..n : At(n, j, H[n])
  <2>1. n \in N
    BY <1>3, <1>6
  <2> HIDE DEF At
  <2> QED
    BY <1>3, <2>1
<1>8. PICK j \in 0..n : At(n, j, H[n])
  BY <1>7
<1>9. ScanRead(c, input, Scan(input), ls, j)
  BY <1>2, <1>3, <1>8 DEF ScanRead
<1> QED
  BY <1>3, <1>9 DEF ls

\* The first bytes of str are read, and the rest is left.
Split(S, str, read, rest) ==
  /\ read \in Seq(S) /\ rest \in Seq(S) /\ str = read \o rest
  /\ SubSeq(str, 1, Len(str) - Len(rest)) = read

\* j bytes of an input behind c are read, and the others are left.
LEMMA ConsumedIs ==
  ASSUME NEW S, NEW c \in Seq(S), NEW input \in Seq(S), NEW j \in 0..Len(input)
  PROVE  Split(S, c \o input, c \o SubSeq(input, 1, j), SubSeq(input, j + 1, Len(input)))
<1> DEFINE str == c \o input
           front == SubSeq(input, 1, j)
           rest == SubSeq(input, j + 1, Len(input))
           read == c \o front
<1>1. front \in Seq(S) /\ rest \in Seq(S)
  BY PiecesOf
<1>2. front \o rest = input
  <2>1. 1 \in 1..(Len(input) + 1) /\ j \in (1 - 1)..Len(input) /\ Len(input) \in j..Len(input)
    OBVIOUS
  <2> QED
    BY <2>1, ConcatAdjacentSubSeq, SubSeqFull
<1> HIDE DEF front, rest
<1>3. str = read \o rest /\ read \in Seq(S)
  <2>1. Together(c, front, rest)
    BY <1>1, AnyOrder
  <2>2. c \o front \in Seq(S)
    BY <1>1, ConcatProperties
  <2>3. str = read \o rest
    BY <1>2, <2>1, Zenon DEF Together
  <2> QED
    BY <2>2, <2>3
<1>4. Len(str) = Len(read) + Len(rest) /\ Len(read) \in Nat /\ Len(rest) \in Nat
  BY <1>1, <1>3, ConcatProperties, LenProperties
<1> HIDE DEF read, str
<1>5. Len(str) - Len(rest) = Len(read)
  BY <1>4
<1>6. SubSeq(str, 1, Len(read)) = read
  <2>1. CASE Len(read) = 0
    <3>1. read = <<>>
      BY <1>3, <2>1, EmptySeq
    <3> QED
      BY <2>1, <3>1, SubSeqEmpty
  <2>2. CASE Len(read) # 0
    <3>1. 1 \in 1..Len(read) /\ Len(read) \in 1..Len(read)
      BY <1>4, <2>2
    <3> QED
      BY <1>1, <1>3, <3>1, SubSeqOfConcat1, SubSeqFull
  <2> QED
    BY <2>1, <2>2
<1> QED
  BY <1>1, <1>3, <1>5, <1>6 DEF Split, str, rest, front, read

-----------------------------------------------------------------------------
(* The dialogue: the logins of the lines                                   *)

\* The recursive function of Logins.
RoundsOf(f, ls) ==
  f = [n \in 0..MAX_ATTEMPTS |->
         [k \in 1..(Len(ls) + 1) |->
            IF n = 0 \/ k > Len(ls) THEN <<>>
            ELSE IF ls[k] = <<>> THEN f[n - 1][k + 1]
            ELSE IF k = Len(ls) THEN <<TelnetLogin(ls[k], Absent)>>
            ELSE <<TelnetLogin(ls[k], ls[k + 1])>> \o f[n - 1][k + 2]]]

Rounds(ls) == CHOOSE f : RoundsOf(f, ls)

\* The logins of names and passwords that are texts of T.
LoginsOf(T) == {TelnetLogin(u, p) : u \in T, p \in T \cup {Absent}}

\* It has a solution.
LEMMA RoundsExist ==
  ASSUME NEW T, NEW ls \in Seq(T)
  PROVE  /\ RoundsOf(Rounds(ls), ls)
         /\ Rounds(ls) \in [0..MAX_ATTEMPTS -> [1..(Len(ls) + 1) -> Seq(LoginsOf(T))]]
<1> DEFINE n == Len(ls)
           K == 1..(n + 1)
           D == 0..MAX_ATTEMPTS
           E == Seq(LoginsOf(T))
           V == [K -> E]
           at(f, m, k) == IF m = 0 \/ k > n THEN <<>>
                          ELSE IF ls[k] = <<>> THEN f[m - 1][k + 1]
                          ELSE IF k = n THEN <<TelnetLogin(ls[k], Absent)>>
                          ELSE <<TelnetLogin(ls[k], ls[k + 1])>> \o f[m - 1][k + 2]
           next(f, m) == [k \in K |-> at(f, m, k)]
           step == [p \in D \X [D -> V] |-> next(p[2], p[1])]
           rank == [m \in D |-> m]
<1>0. n \in Nat /\ n = Len(ls) /\ MAX_ATTEMPTS \in Nat
  BY TelnetAssumption
<1>v. <<>> \in E /\ V # {}
  <2>1. <<>> \in E
    OBVIOUS
  <2>2. [k \in K |-> <<>>] \in V
    BY <2>1
  <2> QED
    BY <2>1, <2>2
<1>1. rank \in [D -> 0..MAX_ATTEMPTS] /\ \A m \in D : rank[m] = m
  OBVIOUS
<1>2. \A k \in K : k <= n => /\ ls[k] \in T /\ k + 1 \in K
                             /\ k # n => ls[k + 1] \in T /\ k + 2 \in K
  BY <1>0
<1>m. \A m \in D : m # 0 => m - 1 \in D /\ m - 1 < m
  BY <1>0
<1>l. ASSUME NEW u \in T, NEW p \in T \cup {Absent}, NEW w \in E
      PROVE  <<TelnetLogin(u, p)>> \in E /\ <<TelnetLogin(u, p)>> \o w \in E
  <2>1. TelnetLogin(u, p) \in LoginsOf(T)
    BY DEF LoginsOf
  <2> DEFINE e == TelnetLogin(u, p)
             L == LoginsOf(T)
  <2>2. e \in L /\ w \in Seq(L)
    BY <2>1
  <2> HIDE DEF e, L
  <2>3. <<e>> \in Seq(L)
    BY <2>2
  <2>4. <<e>> \o w \in Seq(L)
    BY <2>2, <2>3
  <2> QED
    BY <2>3, <2>4 DEF e, L
<1> HIDE DEF n, rank
<1>3. ASSUME NEW f \in [D -> V], NEW m \in D, NEW k \in K
      PROVE  at(f, m, k) \in E
  <2>1. CASE m = 0 \/ k > n
    BY <1>v, <2>1
  <2>2. CASE ~(m = 0 \/ k > n)
    <3>1. k <= n /\ m # 0 /\ f[m - 1] \in V
      BY <1>0, <1>m, <2>2
    <3>2. ls[k] \in T /\ f[m - 1][k + 1] \in E
      BY <1>2, <3>1
    <3>3. k # n => ls[k + 1] \in T /\ f[m - 1][k + 2] \in E
      BY <1>2, <3>1
    <3> HIDE DEF E, K, V, D
    <3> QED
      BY <1>l, <2>2, <3>2, <3>3
  <2> QED
    BY <2>1, <2>2
<1>4. ASSUME NEW m \in D, NEW f \in [D -> V], NEW g \in [D -> V],
             \A y \in D : rank[y] < rank[m] => f[y] = g[y]
      PROVE  next(f, m) = next(g, m)
  <2>1. m # 0 => f[m - 1] = g[m - 1]
    BY <1>1, <1>4, <1>m
  <2>2. \A k \in K : at(f, m, k) = at(g, m, k)
    BY <2>1
  <2> HIDE DEF at
  <2> QED
    BY <2>2
<1>x. \A f \in [D -> V], m \in D : next(f, m) \in V
  <2> HIDE DEF at
  <2> QED
    BY <1>3
<1> HIDE DEF D, V, K, E, next
<1>5. step \in [D \X [D -> V] -> V]
  BY <1>x
<1>6. \A m \in D, f \in [D -> V] : step[<<m, f>>] = next(f, m)
  OBVIOUS
<1> HIDE DEF step
<1>7. \A k \in D, f, g \in [D -> V] :
        (\A y \in D : rank[y] < rank[k] => f[y] = g[y]) => step[<<k, f>>] = step[<<k, g>>]
  BY <1>4, <1>6
<1>8. PICK f \in [D -> V] : \A k \in D : f[k] = step[<<k, f>>]
  <2>1. Recursion(D, V, MAX_ATTEMPTS, rank, step)
    BY <1>0, <1>1, <1>5, <1>7, <1>v DEF Recursion
  <2> QED
    BY <2>1, RecursionExists
<1>9. f = [m \in D |-> next(f, m)]
  BY <1>6, <1>8
<1>10. RoundsOf(f, ls)
  BY <1>9 DEF RoundsOf, D, next, K, n
<1>11. RoundsOf(Rounds(ls), ls)
  BY <1>10, Zenon DEF Rounds
<1> DEFINE g == Rounds(ls)
           C(j) == \A m \in D : m <= j => g[m] \in V
           N == {j \in Nat : C(j)}
<1>12. g = [m \in D |-> next(g, m)]
  BY <1>11 DEF RoundsOf, D, next, K, n
<1> HIDE DEF g
<1>13. 0 \in N
  <2> SUFFICES ASSUME NEW m \in D, m <= 0 PROVE g[m] \in V
    OBVIOUS
  <2>1. m = 0
    BY <1>0 DEF D
  <2>2. \A k \in K : at(g, m, k) = <<>>
    BY <2>1
  <2>3. g[m] = [k \in K |-> at(g, m, k)]
    BY <1>12 DEF next
  <2> HIDE DEF at
  <2> QED
    BY <1>v, <2>2, <2>3 DEF V
<1>14. ASSUME NEW j \in N PROVE j + 1 \in N
  <2> SUFFICES ASSUME NEW m \in D, m <= j + 1 PROVE g[m] \in V
    BY <1>14
  <2> DEFINE h == [y \in D |-> IF y < m THEN g[y] ELSE f[y]]
  <2>1. \A y \in D : y < m => g[y] \in V
    BY <1>0, <1>14 DEF D
  <2>2. h \in [D -> V]
    BY <1>8, <2>1
  <2>3. m # 0 => h[m - 1] = g[m - 1]
    BY <1>m
  <2>4. \A k \in K : at(h, m, k) = at(g, m, k)
    BY <2>3
  <2> HIDE DEF at, h
  <2>5. next(h, m) = next(g, m)
    BY <2>4 DEF next
  <2> QED
    BY <1>12, <1>x, <2>2, <2>5
<1>15. N = Nat
  <2> HIDE DEF N
  <2>1. N \in SUBSET Nat
    BY DEF N
  <2> QED
    BY <2>1, <1>13, <1>14, Inductive
<1>16. \A m \in D : g[m] \in V
  <2> HIDE DEF C
  <2>1. C(MAX_ATTEMPTS)
    BY <1>0, <1>15
  <2> QED
    BY <1>0, <2>1 DEF C, D
<1>17. g \in [D -> V]
  BY <1>12, <1>16
<1> QED
  BY <1>11, <1>17 DEF g, D, V, E, K, n

\* The logins of m rounds from line k on.
RoundAt(ls, k, m, f) ==
  /\ m = 0 \/ k > Len(ls) => f[m][k] = <<>>
  /\ m > 0 /\ k <= Len(ls) =>
       /\ ls[k] = <<>> => f[m][k] = f[m - 1][k + 1]
       /\ ls[k] # <<>> /\ k = Len(ls) => f[m][k] = <<TelnetLogin(ls[k], Absent)>>
       /\ ls[k] # <<>> /\ k < Len(ls) =>
            f[m][k] = <<TelnetLogin(ls[k], ls[k + 1])>> \o f[m - 1][k + 2]

\* Logins are that, for every number of rounds and every line.
LEMMA LoginsAre ==
  ASSUME NEW T, NEW ls \in Seq(T)
  PROVE  /\ Logins(ls) = Rounds(ls)[MAX_ATTEMPTS][1]
         /\ \A m \in 0..MAX_ATTEMPTS : \A k \in 1..(Len(ls) + 1) :
              RoundAt(ls, k, m, Rounds(ls)) /\ Rounds(ls)[m][k] \in Seq(LoginsOf(T))
<1> DEFINE f == Rounds(ls)
           n == Len(ls)
<1>1. Logins(ls) = f[MAX_ATTEMPTS][1]
  BY SMT DEF Logins, Rounds, RoundsOf
<1>2. RoundsOf(f, ls) /\ f \in [0..MAX_ATTEMPTS -> [1..(Len(ls) + 1) -> Seq(LoginsOf(T))]]
  BY RoundsExist
<1>3. n \in Nat /\ n = Len(ls) /\ MAX_ATTEMPTS \in Nat
  BY TelnetAssumption
<1> HIDE DEF f, n
<1>4. ASSUME NEW m \in 0..MAX_ATTEMPTS, NEW k \in 1..(n + 1)
      PROVE  RoundAt(ls, k, m, f) /\ f[m][k] \in Seq(LoginsOf(T))
  <2>1. f[m][k] = IF m = 0 \/ k > n THEN <<>>
                  ELSE IF ls[k] = <<>> THEN f[m - 1][k + 1]
                  ELSE IF k = n THEN <<TelnetLogin(ls[k], Absent)>>
                  ELSE <<TelnetLogin(ls[k], ls[k + 1])>> \o f[m - 1][k + 2]
    <3> DEFINE at(j) == IF m = 0 \/ j > n THEN <<>>
                        ELSE IF ls[j] = <<>> THEN f[m - 1][j + 1]
                        ELSE IF j = n THEN <<TelnetLogin(ls[j], Absent)>>
                        ELSE <<TelnetLogin(ls[j], ls[j + 1])>> \o f[m - 1][j + 2]
    <3>1. f[m] = [j \in 1..(n + 1) |-> at(j)]
      BY <1>2 DEF RoundsOf, n
    <3> HIDE DEF at
    <3>2. f[m][k] = at(k)
      BY <3>1
    <3> QED
      BY <3>2 DEF at
  <2>2. /\ m > 0 <=> m # 0
        /\ k <= n <=> ~(k > n)
        /\ k < n => k # n
    BY <1>3
  <2>3. RoundAt(ls, k, m, f)
    <3>1. m = 0 \/ k > n => f[m][k] = <<>>
      BY <2>1, Zenon
    <3>2. m > 0 /\ k <= n =>
            /\ ls[k] = <<>> => f[m][k] = f[m - 1][k + 1]
            /\ ls[k] # <<>> /\ k = n => f[m][k] = <<TelnetLogin(ls[k], Absent)>>
            /\ ls[k] # <<>> /\ k < n =>
                 f[m][k] = <<TelnetLogin(ls[k], ls[k + 1])>> \o f[m - 1][k + 2]
      BY <2>1, <2>2, Zenon
    <3> QED
      BY <1>3, <3>1, <3>2, Zenon DEF RoundAt
  <2> QED
    BY <1>2, <1>3, <2>3
<1> QED
  BY <1>1, <1>3, <1>4 DEF f

\* The logins with an answer.
AnswersOf(T) == {TelnetLogin(u, p) : u \in T, p \in T}

\* Having heard the lines ls, told are the logins of the rounds that are over,
\* and the m that are left begin with line k, whatever lines come behind ls.
LoginsAt(T, ls, k, m, told) ==
  /\ m \in 0..MAX_ATTEMPTS /\ told \in Seq(AnswersOf(T))
  /\ \A t \in Seq(T) :
       Extends(ls, t) => Rounds(t)[MAX_ATTEMPTS][1] = told \o Rounds(t)[m][k]

\* No name is without an answer.
Between(T, ls, m, told) == LoginsAt(T, ls, Len(ls) + 1, m, told)

\* The last line is the name u.
Awaiting(T, ls, u, m, told) ==
  /\ Len(ls) > 0 /\ ls[Len(ls)] = u /\ u # <<>> /\ m > 0
  /\ LoginsAt(T, ls, Len(ls), m, told)

\* Before the first line.
LEMMA LoginsStart ==
  ASSUME NEW T
  PROVE  Between(T, <<>>, MAX_ATTEMPTS, <<>>)
<1>0. MAX_ATTEMPTS \in 0..MAX_ATTEMPTS /\ Len(<<>>) + 1 = 1 /\ <<>> \in Seq(AnswersOf(T))
  BY TelnetAssumption
<1>1. ASSUME NEW t \in Seq(T)
      PROVE  Rounds(t)[MAX_ATTEMPTS][1] = <<>> \o Rounds(t)[MAX_ATTEMPTS][1]
  <2> DEFINE w == Rounds(t)[MAX_ATTEMPTS][1]
  <2>1. 1 \in 1..(Len(t) + 1)
    OBVIOUS
  <2>2. w \in Seq(LoginsOf(T))
    BY <1>0, <2>1, LoginsAre
  <2> HIDE DEF w
  <2>3. w = <<>> \o w
    BY <2>2
  <2> QED
    BY <2>3 DEF w
<1>2. \A t \in Seq(T) : Extends(<<>>, t) =>
        Rounds(t)[MAX_ATTEMPTS][1] = <<>> \o Rounds(t)[MAX_ATTEMPTS][Len(<<>>) + 1]
  BY <1>0, <1>1
<1> QED
  BY <1>0, <1>2, Zenon DEF Between, LoginsAt

\* What a longer list t says, when x comes behind ls.
LoginsMore(T, ls, x, k, m, told, t) ==
  /\ Rounds(t)[MAX_ATTEMPTS][1] = told \o Rounds(t)[m][k]
  /\ Len(ls) + 1 <= Len(t) /\ Len(t) \in Nat /\ t[Len(ls) + 1] = x
  /\ Len(ls) > 0 => t[Len(ls)] = ls[Len(ls)]
  /\ \A j \in 1..(Len(t) + 1) :
       RoundAt(t, j, m, Rounds(t)) /\ Rounds(t)[m - 1][j] \in Seq(LoginsOf(T))

\* It says that, whatever else comes.
LEMMA LoginsGoOn ==
  ASSUME NEW T, NEW ls \in Seq(T), NEW x \in T, NEW k, NEW m, NEW told,
         LoginsAt(T, ls, k, m, told), m > 0, NEW t \in Seq(T), Extends(Append(ls, x), t)
  PROVE  LoginsMore(T, ls, x, k, m, told, t)
<1>1. Extends(ls, t) /\ Len(t) \in Nat /\ Len(ls) + 1 <= Len(t) /\ t[Len(ls) + 1] = x
  BY ExtendsMore
<1>2. Len(ls) > 0 => t[Len(ls)] = ls[Len(ls)]
  BY <1>1 DEF Extends
<1>3. m \in 0..MAX_ATTEMPTS /\ m - 1 \in 0..MAX_ATTEMPTS
  BY TelnetAssumption DEF LoginsAt
<1>4. \A j \in 1..(Len(t) + 1) :
        RoundAt(t, j, m, Rounds(t)) /\ Rounds(t)[m - 1][j] \in Seq(LoginsOf(T))
  BY <1>3, LoginsAre
<1>5. Rounds(t)[MAX_ATTEMPTS][1] = told \o Rounds(t)[m][k]
  BY <1>1 DEF LoginsAt
<1> QED
  BY <1>1, <1>2, <1>4, <1>5, Zenon DEF LoginsMore

\* An empty name is a round of its own.
LEMMA EmptyName ==
  ASSUME NEW T, <<>> \in T, NEW ls \in Seq(T), NEW m, NEW told, Between(T, ls, m, told), m > 0
  PROVE  Between(T, Append(ls, <<>>), m - 1, told)
<1> DEFINE n == Len(ls)
           u == Append(ls, <<>>)
<1>1. n \in Nat /\ Len(u) = n + 1 /\ n + 1 \in 1..(n + 1) /\ (n + 1) + 1 = n + 2
  BY ExtendsBy
<1>2. LoginsAt(T, ls, n + 1, m, told)
  BY DEF Between
<1>3. m - 1 \in 0..MAX_ATTEMPTS /\ told \in Seq(AnswersOf(T))
  BY TelnetAssumption, <1>2 DEF LoginsAt
<1>4. ASSUME NEW t \in Seq(T), Extends(u, t)
      PROVE  Rounds(t)[MAX_ATTEMPTS][1] = told \o Rounds(t)[m - 1][(n + 1) + 1]
  <2>1. /\ Rounds(t)[MAX_ATTEMPTS][1] = told \o Rounds(t)[m][n + 1]
        /\ n + 1 <= Len(t) /\ Len(t) \in Nat /\ t[n + 1] = <<>>
        /\ \A j \in 1..(Len(t) + 1) : RoundAt(t, j, m, Rounds(t))
    <3>1. LoginsMore(T, ls, <<>>, n + 1, m, told, t)
      BY <1>2, <1>4, LoginsGoOn
    <3> QED
      BY <3>1 DEF LoginsMore
  <2> HIDE DEF n
  <2>2. RoundAt(t, n + 1, m, Rounds(t))
    BY <1>1, <2>1
  <2>3. Rounds(t)[m][n + 1] = Rounds(t)[m - 1][(n + 1) + 1]
    BY <2>1, <2>2, Zenon DEF RoundAt
  <2> QED
    BY <2>1, <2>3
<1>5. \A t \in Seq(T) : Extends(u, t) =>
        Rounds(t)[MAX_ATTEMPTS][1] = told \o Rounds(t)[m - 1][Len(u) + 1]
  <2> HIDE DEF u, n
  <2> QED
    BY <1>1, <1>4
<1> QED
  BY <1>3, <1>5, Zenon DEF Between, LoginsAt

\* A name begins a round.
LEMMA NameGiven ==
  ASSUME NEW T, NEW x \in T, x # <<>>, NEW ls \in Seq(T), NEW m, NEW told,
         Between(T, ls, m, told), m > 0
  PROVE  Awaiting(T, Append(ls, x), x, m, told)
<1> DEFINE n == Len(ls)
           u == Append(ls, x)
<1>1. n \in Nat /\ Len(u) = n + 1 /\ n + 1 \in 1..(n + 1) /\ u[n + 1] = x /\ n + 1 > 0
  BY ExtendsBy
<1>2. LoginsAt(T, ls, n + 1, m, told)
  BY DEF Between
<1>3. ASSUME NEW t \in Seq(T), Extends(u, t)
      PROVE  Rounds(t)[MAX_ATTEMPTS][1] = told \o Rounds(t)[m][n + 1]
  <2>1. LoginsMore(T, ls, x, n + 1, m, told, t)
    BY <1>2, <1>3, LoginsGoOn
  <2> QED
    BY <2>1 DEF LoginsMore
<1>4. LoginsAt(T, u, Len(u), m, told)
  <2> HIDE DEF u, n
  <2> QED
    BY <1>1, <1>2, <1>3 DEF LoginsAt
<1> HIDE DEF u, n
<1>5. Awaiting(T, u, x, m, told)
  BY <1>1, <1>4 DEF Awaiting
<1> QED
  BY <1>5 DEF u

\* A password ends it.
LEMMA PasswordGiven ==
  ASSUME NEW T, NEW x \in T, NEW ls \in Seq(T), NEW name, NEW m, NEW told,
         Awaiting(T, ls, name, m, told)
  PROVE  Between(T, Append(ls, x), m - 1, Append(told, TelnetLogin(name, x)))
<1> DEFINE n == Len(ls)
           u == Append(ls, x)
           e == TelnetLogin(name, x)
<1>1. n \in Nat /\ Len(u) = n + 1 /\ n \in 1..(n + 1) /\ (n + 1) + 1 = n + 2 /\ n \in 1..n
  BY ExtendsBy DEF Awaiting
<1>2. LoginsAt(T, ls, n, m, told) /\ m > 0 /\ ls[n] = name /\ name # <<>>
  BY DEF Awaiting
<1>3. m - 1 \in 0..MAX_ATTEMPTS /\ told \in Seq(AnswersOf(T))
  BY TelnetAssumption, <1>2 DEF LoginsAt
<1>4. e \in AnswersOf(T) /\ Append(told, e) \in Seq(AnswersOf(T))
  <2>1. name \in T
    BY <1>1, <1>2
  <2>2. e \in AnswersOf(T)
    BY <2>1 DEF AnswersOf
  <2> HIDE DEF e
  <2> QED
    BY <1>3, <2>2, AppendProperties
<1>5. AnswersOf(T) \subseteq LoginsOf(T)
  BY DEF AnswersOf, LoginsOf
<1>6. ASSUME NEW t \in Seq(T), Extends(u, t)
      PROVE  Rounds(t)[MAX_ATTEMPTS][1] = Append(told, e) \o Rounds(t)[m - 1][n + 2]
  <2>1. /\ Rounds(t)[MAX_ATTEMPTS][1] = told \o Rounds(t)[m][n]
        /\ n + 1 <= Len(t) /\ Len(t) \in Nat /\ t[n + 1] = x /\ t[n] = name
        /\ \A j \in 1..(Len(t) + 1) :
             RoundAt(t, j, m, Rounds(t)) /\ Rounds(t)[m - 1][j] \in Seq(LoginsOf(T))
    <3>1. LoginsMore(T, ls, x, n, m, told, t)
      BY <1>2, <1>6, LoginsGoOn
    <3> QED
      BY <1>1, <1>2, <3>1 DEF LoginsMore
  <2> HIDE DEF n, u
  <2>2. n \in 1..(Len(t) + 1) /\ n + 2 \in 1..(Len(t) + 1) /\ n < Len(t) /\ n <= Len(t)
    BY <1>1, <2>1
  <2> DEFINE w == Rounds(t)[m - 1][n + 2]
  <2>3. Rounds(t)[m][n] = <<e>> \o w
    <3>1. RoundAt(t, n, m, Rounds(t))
      BY <2>1, <2>2
    <3>2. Rounds(t)[m][n] = <<TelnetLogin(t[n], t[n + 1])>> \o Rounds(t)[m - 1][n + 2]
      BY <1>2, <2>1, <2>2, <3>1, Zenon DEF RoundAt
    <3> QED
      BY <2>1, <3>2
  <2> DEFINE L == LoginsOf(T)
  <2>4. w \in Seq(L) /\ e \in L /\ told \in Seq(L)
    <3>1. told \in Seq(LoginsOf(T))
      BY <1>3, <1>5, SeqMonotonic
    <3> QED
      BY <1>4, <1>5, <2>1, <2>2, <3>1
  <2> HIDE DEF w, L, e
  <2>5. Placed(told, e, w)
    BY <2>4, EitherPlace
  <2> QED
    BY <2>1, <2>3, <2>5, Zenon DEF Placed, w
<1> HIDE DEF e
<1>7. \A t \in Seq(T) : Extends(u, t) =>
        Rounds(t)[MAX_ATTEMPTS][1] = Append(told, e) \o Rounds(t)[m - 1][Len(u) + 1]
  <2> HIDE DEF u, n
  <2> QED
    BY <1>1, <1>6
<1> QED
  BY <1>3, <1>4, <1>7, Zenon DEF Between, LoginsAt, e

\* The logins of all lines, when no name is without an answer and when one is.
LoginsTold(T, ls, m, told) ==
  /\ Between(T, ls, m, told) => Logins(ls) = told
  /\ \A u : Awaiting(T, ls, u, m, told) =>
       Logins(ls) = Append(told, TelnetLogin(u, Absent))

\* All lines there are have been heard.
LEMMA LoginsEnd ==
  ASSUME NEW T, NEW ls \in Seq(T), NEW m, NEW told
  PROVE  LoginsTold(T, ls, m, told)
<1> DEFINE n == Len(ls)
<1>0. Logins(ls) = Rounds(ls)[MAX_ATTEMPTS][1] /\ n \in Nat /\ n + 1 \in 1..(n + 1) /\ n + 1 > n
      /\ Extends(ls, ls) /\ n = Len(ls)
  BY LoginsAre, ExtendsItself
<1>1. ASSUME NEW k \in 1..(n + 1), LoginsAt(T, ls, k, m, told)
      PROVE  /\ Logins(ls) = told \o Rounds(ls)[m][k]
             /\ RoundAt(ls, k, m, Rounds(ls)) /\ m \in 0..MAX_ATTEMPTS
             /\ told \in Seq(AnswersOf(T))
  <2>1. m \in 0..MAX_ATTEMPTS /\ told \in Seq(AnswersOf(T))
    BY <1>1 DEF LoginsAt
  <2>2. RoundAt(ls, k, m, Rounds(ls))
    BY <2>1, LoginsAre
  <2>3. Rounds(ls)[MAX_ATTEMPTS][1] = told \o Rounds(ls)[m][k]
    BY <1>0, <1>1 DEF LoginsAt
  <2> QED
    BY <1>0, <2>1, <2>2, <2>3
<1>2. ASSUME Between(T, ls, m, told) PROVE Logins(ls) = told
  <2>1. LoginsAt(T, ls, n + 1, m, told)
    BY <1>2 DEF Between
  <2>2. Rounds(ls)[m][n + 1] = <<>>
    <3>1. RoundAt(ls, n + 1, m, Rounds(ls))
      BY <1>0, <1>1, <2>1
    <3> QED
      BY <1>0, <3>1, Zenon DEF RoundAt
  <2>3. told \o <<>> = told
    BY <1>0, <1>1, <2>1
  <2> QED
    BY <1>0, <1>1, <2>1, <2>2, <2>3
<1>3. ASSUME NEW u, Awaiting(T, ls, u, m, told)
      PROVE  Logins(ls) = Append(told, TelnetLogin(u, Absent))
  <2>1. LoginsAt(T, ls, n, m, told) /\ n > 0 /\ ls[n] = u /\ u # <<>> /\ m > 0
    BY <1>3 DEF Awaiting
  <2>2. n \in 1..(n + 1) /\ n <= n /\ n \in 1..n
    BY <1>0, <2>1
  <2> DEFINE e == TelnetLogin(u, Absent)
             L == LoginsOf(T)
  <2>3. Rounds(ls)[m][n] = <<e>>
    <3>1. RoundAt(ls, n, m, Rounds(ls))
      BY <1>1, <2>1, <2>2
    <3> QED
      BY <1>0, <2>1, <2>2, <3>1, Zenon DEF RoundAt
  <2>4. e \in L /\ told \in Seq(L)
    <3>1. AnswersOf(T) \subseteq LoginsOf(T)
      BY DEF AnswersOf, LoginsOf
    <3>2. told \in Seq(LoginsOf(T))
      BY <1>1, <2>1, <2>2, <3>1, SeqMonotonic
    <3>3. u \in T
      BY <2>1, <2>2
    <3> QED
      BY <3>2, <3>3 DEF LoginsOf
  <2>5. Logins(ls) = told \o <<e>>
    BY <1>1, <2>1, <2>2, <2>3
  <2> HIDE DEF e, L
  <2>6. told \o <<e>> = Append(told, e)
    BY <2>4
  <2> QED
    BY <2>5, <2>6 DEF e
<1> QED
  BY <1>2, <1>3 DEF LoginsTold

\* A name that has no answer yet is left out, and no other.
LEMMA AnsweredIs ==
  ASSUME NEW T, Absent \notin T, NEW told \in Seq(AnswersOf(T)), NEW u
  PROVE  /\ Answered(told) = told
         /\ Answered(Append(told, TelnetLogin(u, Absent))) = told
<1> DEFINE e == TelnetLogin(u, Absent)
           more == Append(told, e)
<1>1. told # <<>> => Last(told).password # Absent
  <2> SUFFICES ASSUME told # <<>> PROVE Last(told).password # Absent
    OBVIOUS
  <2>1. Len(told) \in 1..Len(told)
    OBVIOUS
  <2>2. told[Len(told)] \in AnswersOf(T)
    BY <2>1
  <2> QED
    BY <2>2 DEF Last, AnswersOf, TelnetLogin
<1>2. e.password = Absent
  BY DEF TelnetLogin
<1> HIDE DEF e
<1>3. more # <<>> /\ Last(more) = e /\ Front(more) = told
  <2> DEFINE L == AnswersOf(T) \cup {e}
  <2>1. told \in Seq(L) /\ e \in L
    BY SeqMonotonic
  <2> HIDE DEF L
  <2>2. /\ more \in Seq(L) /\ more # <<>> /\ Len(more) = Len(told) + 1 /\ Len(told) \in Nat
        /\ \A k \in 1..Len(told) : more[k] = told[k]
        /\ more[Len(told) + 1] = e
    BY <2>1, AppendProperties, LenProperties
  <2> HIDE DEF more
  <2>3. Last(more) = e
    BY <2>2 DEF Last
  <2>4. Front(more) = SubSeq(more, 1, Len(told))
    BY <2>2 DEF Front
  <2>5. SubSeq(more, 1, Len(told)) = told
    BY <2>1, <2>2
  <2> QED
    BY <2>2, <2>3, <2>4, <2>5
<1> HIDE DEF more
<1>4. Answered(more) = told
  BY <1>2, <1>3 DEF Answered
<1> QED
  BY <1>1, <1>4 DEF Answered, more, e

-----------------------------------------------------------------------------
(* The dialogue: the logins of a record                                    *)

\* The recursive function of LoginsIn.
UpToOf(f, ev) ==
  f = [k \in 0..Len(ev) |->
         IF k = 0 THEN <<>>
         ELSE IF ev[k].kind = "telnet_login" THEN Append(f[k - 1], ev[k])
         ELSE f[k - 1]]

UpTo(ev) == CHOOSE f : UpToOf(f, ev)

\* It has a solution.
LEMMA UpToExists ==
  ASSUME NEW S, NEW ev \in Seq(S)
  PROVE  UpToOf(UpTo(ev), ev)
<1> DEFINE n == Len(ev)
           D == 0..n
           V == Seq(S)
           next(f, k) == IF k = 0 THEN <<>>
                         ELSE IF ev[k].kind = "telnet_login" THEN Append(f[k - 1], ev[k])
                         ELSE f[k - 1]
           step == [p \in D \X [D -> V] |-> next(p[2], p[1])]
           rank == [k \in D |-> k]
<1>0. n \in Nat /\ V # {} /\ <<>> \in V
  <2>1. <<>> \in V
    OBVIOUS
  <2> HIDE DEF V
  <2> QED
    BY <2>1
<1>1. rank \in [D -> 0..n] /\ \A k \in D : rank[k] = k
  OBVIOUS
<1>2. \A k \in D : k # 0 => k - 1 \in D /\ k - 1 < k /\ ev[k] \in S
  BY <1>0
<1> HIDE DEF n, rank
<1>3. ASSUME NEW f \in [D -> V], NEW k \in D
      PROVE  next(f, k) \in V
  <2>1. CASE k = 0
    BY <1>0, <2>1
  <2>2. CASE k # 0
    <3>1. f[k - 1] \in V /\ ev[k] \in S
      BY <1>2, <2>2
    <3>2. Append(f[k - 1], ev[k]) \in V
      BY <3>1
    <3> HIDE DEF V
    <3> QED
      BY <2>2, <3>1, <3>2
  <2> QED
    BY <2>1, <2>2
<1>4. ASSUME NEW k \in D, NEW f \in [D -> V], NEW g \in [D -> V],
             \A y \in D : rank[y] < rank[k] => f[y] = g[y]
      PROVE  next(f, k) = next(g, k)
  <2>1. k # 0 => f[k - 1] = g[k - 1]
    BY <1>1, <1>2, <1>4
  <2> QED
    BY <2>1
<1> HIDE DEF D, V, next
<1>5. step \in [D \X [D -> V] -> V]
  BY <1>3
<1>6. \A k \in D, f \in [D -> V] : step[<<k, f>>] = next(f, k)
  OBVIOUS
<1> HIDE DEF step
<1>7. \A k \in D, f, g \in [D -> V] :
        (\A y \in D : rank[y] < rank[k] => f[y] = g[y]) => step[<<k, f>>] = step[<<k, g>>]
  BY <1>4, <1>6
<1>8. PICK f \in [D -> V] : \A k \in D : f[k] = step[<<k, f>>]
  <2>1. Recursion(D, V, n, rank, step)
    BY <1>0, <1>1, <1>5, <1>7 DEF Recursion
  <2> QED
    BY <2>1, RecursionExists
<1>9. f = [k \in D |-> next(f, k)]
  BY <1>6, <1>8
<1>10. UpToOf(f, ev)
  BY <1>9 DEF UpToOf, D, next, n
<1> QED
  BY <1>10, Zenon DEF UpTo

\* The logins of a longer list are those of the list, and the new event if it is one.
LEMMA LoginsInMore ==
  ASSUME NEW S, NEW ev \in Seq(S), NEW e \in S
  PROVE  LoginsIn(Append(ev, e)) =
           IF e.kind = "telnet_login" THEN Append(LoginsIn(ev), e) ELSE LoginsIn(ev)
<1> DEFINE n == Len(ev)
           t == Append(ev, e)
           f == UpTo(ev)
           g == UpTo(t)
           N == {k \in Nat : k <= n => g[k] = f[k]}
<1>1. LoginsIn(ev) = f[n] /\ LoginsIn(t) = g[Len(t)]
  <2>1. LoginsIn(ev) = f[Len(ev)]
    BY SMT DEF LoginsIn, UpTo, UpToOf
  <2> HIDE DEF t
  <2>2. LoginsIn(t) = g[Len(t)]
    BY SMT DEF LoginsIn, UpTo, UpToOf
  <2> QED
    BY <2>1, <2>2
<1>2. /\ n \in Nat /\ Len(t) = n + 1 /\ t \in Seq(S) /\ t[n + 1] = e
      /\ \A k \in 1..n : t[k] = ev[k]
  BY AppendProperties
<1>3. UpToOf(f, ev) /\ UpToOf(g, t)
  BY <1>2, UpToExists
<1>n. n = Len(ev)
  OBVIOUS
<1> HIDE DEF n, t, f, g
<1>4. \A k \in 0..n : f[k] = IF k = 0 THEN <<>>
                             ELSE IF ev[k].kind = "telnet_login" THEN Append(f[k - 1], ev[k])
                             ELSE f[k - 1]
  BY <1>3, <1>n DEF UpToOf
<1>5. \A k \in 0..(n + 1) : g[k] = IF k = 0 THEN <<>>
                                   ELSE IF t[k].kind = "telnet_login" THEN Append(g[k - 1], t[k])
                                   ELSE g[k - 1]
  BY <1>2, <1>3 DEF UpToOf
<1>6. 0 \in N
  BY <1>2, <1>4, <1>5
<1>7. ASSUME NEW k \in N PROVE k + 1 \in N
  <2> SUFFICES ASSUME k + 1 <= n PROVE g[k + 1] = f[k + 1]
    BY <1>7
  <2>1. /\ k \in Nat /\ k + 1 \in 0..n /\ k + 1 \in 0..(n + 1) /\ k + 1 \in 1..n
        /\ k + 1 # 0 /\ (k + 1) - 1 = k /\ k <= n
    BY <1>2, <1>7
  <2>2. g[k] = f[k]
    BY <1>7, <2>1
  <2>3. t[k + 1] = ev[k + 1]
    BY <1>2, <2>1
  <2> QED
    BY <1>4, <1>5, <2>1, <2>2, <2>3
<1>8. N = Nat
  <2> HIDE DEF N
  <2>1. N \in SUBSET Nat
    BY DEF N
  <2> QED
    BY <2>1, <1>6, <1>7, Inductive
<1>9. g[n] = f[n]
  <2>1. n \in N
    BY <1>2, <1>8
  <2> QED
    BY <1>2, <2>1
<1>10. g[n + 1] = IF e.kind = "telnet_login" THEN Append(g[n], e) ELSE g[n]
  <2>1. n + 1 \in 0..(n + 1) /\ n + 1 # 0 /\ (n + 1) - 1 = n
    BY <1>2
  <2> QED
    BY <1>2, <1>5, <2>1
<1> QED
  BY <1>1, <1>2, <1>9, <1>10 DEF t

\* There are none among no events.
LEMMA LoginsInNone == LoginsIn(<<>>) = <<>>
<1> DEFINE ev == <<>>
           f == UpTo(ev)
<1>1. ev \in Seq({0}) /\ Len(ev) = 0
  OBVIOUS
<1> HIDE DEF ev
<1>2. LoginsIn(ev) = f[Len(ev)]
  BY SMT DEF LoginsIn, UpTo, UpToOf
<1>3. UpToOf(f, ev)
  BY <1>1, UpToExists
<1> HIDE DEF f
<1>4. f[0] = <<>>
  BY <1>1, <1>3 DEF UpToOf
<1> QED
  BY <1>1, <1>2, <1>4 DEF ev

\* An event is pushed while there is room for it.
LEMMA PushedIs ==
  ASSUME NEW s, NEW str, NEW n \in 0..MAX_ATTEMPTS, RecordOK(s, str, n), NEW event
  PROVE  LET e == redact(event) IN
         LoginsIn(push_event(s, event).events) =
           IF e.kind = "telnet_login" THEN Append(LoginsIn(s.events), e) ELSE LoginsIn(s.events)
<1> DEFINE e == redact(event)
           S == Range(s.events) \cup {e}
<1>1. /\ s.events \in Seq(Range(s.events)) /\ Len(s.events) <= n
      /\ s = [bytes_received |-> s.bytes_received, preview |-> s.preview,
              events |-> s.events, events_truncated |-> s.events_truncated]
  BY DEF RecordOK
<1>2. ~(Len(s.events) >= MAX_EVENTS)
  <2> DEFINE m == Len(s.events)
  <2>1. m \in Nat /\ m <= n
    BY <1>1, LenProperties
  <2> HIDE DEF m
  <2>2. ~(m >= MAX_EVENTS)
    BY <2>1, TelnetAssumption, IoAssumption
  <2> QED
    BY <2>2 DEF m
<1> HIDE DEF e
<1>3. push_event(s, event).events = Append(s.events, e)
  BY <1>1, <1>2 DEF push_event, e
<1>4. s.events \in Seq(S) /\ e \in S
  BY <1>1, SeqMonotonic
<1> HIDE DEF S
<1>5. LoginsIn(Append(s.events, e)) =
        IF e.kind = "telnet_login" THEN Append(LoginsIn(s.events), e) ELSE LoginsIn(s.events)
  BY <1>4, LoginsInMore
<1> QED
  BY <1>3, <1>5 DEF e

\* A login is told, a notice is not.
LEMMA LoginTold ==
  ASSUME NEW s, NEW str, NEW n \in 0..MAX_ATTEMPTS, RecordOK(s, str, n), NEW password
  PROVE  LoginsIn(Login(s, password).events) =
           Append(LoginsIn(s.events), redact(TelnetLogin(username, password)))
<1>1. redact(TelnetLogin(username, password)).kind = "telnet_login"
  BY DEF redact, TelnetLogin, LoginRedacted
<1> QED
  BY <1>1, PushedIs DEF Login

\* A notice is no login.
LEMMA NoticeNotTold ==
  ASSUME NEW s, NEW str, NEW n \in 0..MAX_ATTEMPTS, RecordOK(s, str, n), NEW msg
  PROVE  LoginsIn(notice(s, msg).events) = LoginsIn(s.events)
<1>1. redact(Notice(msg)).kind = "notice"
  BY DEF redact, Notice
<1> QED
  BY <1>1, PushedIs DEF notice

\* The bytes of a read are no event.
LEMMA ReadNotTold ==
  ASSUME NEW s, NEW str, NEW n, RecordOK(s, str, n), NEW chunk
  PROVE  record_bytes(s, chunk).events = s.events
<1>1. s = [bytes_received |-> s.bytes_received, preview |-> s.preview,
           events |-> s.events, events_truncated |-> s.events_truncated]
  BY DEF RecordOK
<1> QED
  BY <1>1 DEF record_bytes

\* What is redacted of a longer list.
LEMMA RedactedMore ==
  ASSUME NEW S, NEW told \in Seq(S), NEW e \in S
  PROVE  AllRedacted(Append(told, e)) = Append(AllRedacted(told), redact(e))
<1> DEFINE t == Append(told, e)
           R == {redact(x) : x \in S}
<1>1. /\ t \in Seq(S) /\ Len(t) = Len(told) + 1 /\ Len(told) \in Nat
      /\ \A k \in 1..Len(told) : t[k] = told[k]
      /\ t[Len(told) + 1] = e
      /\ DOMAIN t = 1..(Len(told) + 1) /\ DOMAIN told = 1..Len(told)
  BY AppendProperties, LenProperties
<1> HIDE DEF t
<1>2. AllRedacted(t) = [k \in 1..(Len(told) + 1) |-> redact(t[k])]
  BY <1>1, Zenon DEF AllRedacted
<1>3. AllRedacted(told) = [k \in 1..Len(told) |-> redact(told[k])]
  BY <1>1, Zenon DEF AllRedacted
<1> DEFINE a == AllRedacted(t)
           b == AllRedacted(told)
           c == redact(e)
<1>4. /\ \A k \in 1..(Len(told) + 1) : redact(t[k]) \in R
      /\ \A k \in 1..Len(told) : redact(told[k]) \in R
      /\ c \in R
  BY <1>1
<1> DEFINE n == Len(told)
<1>5. n \in Nat
  BY <1>1
<1>6. a \in Seq(R) /\ Len(a) = n + 1 /\ \A k \in 1..(n + 1) : a[k] = redact(t[k])
  <2>1. a = [k \in 1..(n + 1) |-> redact(t[k])]
    BY <1>2
  <2> HIDE DEF a, R, n
  <2> QED
    BY <1>4, <1>5, <2>1 DEF n
<1>7. b \in Seq(R) /\ Len(b) = n /\ \A k \in 1..n : b[k] = redact(told[k])
  <2>1. b = [k \in 1..n |-> redact(told[k])]
    BY <1>3
  <2> HIDE DEF b, R, n
  <2> QED
    BY <1>4, <1>5, <2>1 DEF n
<1> HIDE DEF a, b, R, n
<1>8. /\ Append(b, c) \in Seq(R) /\ Len(Append(b, c)) = n + 1
      /\ \A k \in 1..n : Append(b, c)[k] = b[k]
      /\ Append(b, c)[n + 1] = c
  BY <1>4, <1>7, AppendProperties
<1>9. \A k \in 1..(n + 1) : a[k] = Append(b, c)[k]
  <2> SUFFICES ASSUME NEW k \in 1..(n + 1) PROVE a[k] = Append(b, c)[k]
    OBVIOUS
  <2>1. CASE k = n + 1
    BY <1>1, <1>6, <1>8, <2>1 DEF n
  <2>2. CASE k # n + 1
    <3>1. k \in 1..n
      BY <1>5, <2>2
    <3>2. t[k] = told[k]
      BY <1>1, <3>1 DEF n
    <3> QED
      BY <1>6, <1>7, <1>8, <3>1, <3>2
  <2> QED
    BY <2>1, <2>2
<1>10. a = Append(b, c)
  BY <1>6, <1>8, <1>9, SeqEqual
<1> QED
  BY <1>10 DEF a, b, t

-----------------------------------------------------------------------------
(* The dialogue: what a session has heard and told                         *)

\* What the decoder and the reader keep behind the bytes c, with the lines ls in them.
HeardAt(S, c, state, ln, cr, ls) ==
  /\ c \in Seq(S)
  /\ DecodedAt(S, c, state, Decoded(c))
  /\ ls = Lines(Decoded(c)) /\ ls \in Seq(Seq(S))
  /\ LinesAt(S, Decoded(c), ln, cr, ls)

\* What a scan r of the input behind c leaves: str was read, the bytes d of it
\* are consumed, and a line that was found is the next of the lines.
ScanHeard(str, d, r, ls) ==
  /\ d \in Seq(config.bytes) /\ r.rest \in Seq(config.bytes) /\ str = d \o r.rest
  /\ r.result = "more" => r.rest = <<>>
  /\ r.result # "too_long" =>
       HeardAt(config.bytes, d, r.decoder, r.line, r.cr, Lines(Decoded(d)))
  /\ Lines(Decoded(d)) = IF r.result = "line" THEN Append(ls, r.text) ELSE ls
  /\ r.result = "line" => r.text \in Seq(config.bytes)

\* Where the dialogue stands in the lines ls, with the logins told so far.
Dialogue(S, place, name, n, ls, told) ==
  /\ place \in {"ask_password", "password"} =>
       Awaiting(Seq(S), ls, name, MAX_ATTEMPTS - n, told)
  /\ place = "incorrect" => Between(Seq(S), ls, MAX_ATTEMPTS - (n + 1), told)
  /\ place \notin {"ask_password", "password", "incorrect"} =>
       Between(Seq(S), ls, MAX_ATTEMPTS - n, told)

\* While a session is open the record has the logins that were answered.
OpenTold ==
  \E c, ls, told :
    /\ HeardAt(config.bytes, c, decoder, line, pending_cr, ls)
    /\ stream = c \o pending
    /\ pc \in {"username", "password"} => pending = <<>>
    /\ Dialogue(config.bytes, pc, username, attempts, ls, told)
    /\ Recorded = AllRedacted(told)

ToldInv == Telnet => IF Closed THEN TelnetFaithful ELSE OpenTold

\* Every scan does that.
LEMMA ScanHears ==
  ASSUME TelnetInv, NEW input \in Seq(config.bytes), NEW c, NEW ls,
         HeardAt(config.bytes, c, decoder, line, pending_cr, ls)
  PROVE  \E d : ScanHeard(c \o input, d, Scan(input), ls)
<1> DEFINE S == config.bytes
           r == Scan(input)
<1>1. /\ c \in Seq(S) /\ DecodedAt(S, c, decoder, Decoded(c))
      /\ ls = Lines(Decoded(c)) /\ ls \in Seq(Seq(S))
      /\ LinesAt(S, Decoded(c), line, pending_cr, Lines(Decoded(c)))
  BY DEF HeardAt
<1>2. PICK j \in 0..Len(input) : ScanRead(c, input, r, Lines(Decoded(c)), j)
  BY <1>1, ScanIs
<1> DEFINE d == c \o SubSeq(input, 1, j)
<1> HIDE DEF r
<1>3. /\ r.rest = SubSeq(input, j + 1, Len(input))
      /\ r.result = "more" => j = Len(input)
      /\ ReaderAt(d, r, ls)
  BY <1>1, <1>2 DEF ScanRead
<1>4. d \in Seq(S) /\ c \o input = d \o r.rest /\ r.rest \in Seq(S)
  <2>1. Split(S, c \o input, d, SubSeq(input, j + 1, Len(input)))
    BY <1>1, ConsumedIs
  <2>2. Split(S, c \o input, d, r.rest)
    BY <1>3, <2>1
  <2> QED
    BY <2>2, Zenon DEF Split
<1>5. r.result = "more" => r.rest = <<>>
  BY <1>3
<1> HIDE DEF d
<1>6. /\ DecodedAt(S, d, r.decoder, Decoded(d))
      /\ r.result # "too_long" => LinesAt(S, Decoded(d), r.line, r.cr, Lines(Decoded(d)))
      /\ Lines(Decoded(d)) = IF r.result = "line" THEN Append(ls, r.text) ELSE ls
  BY <1>3 DEF ReaderAt
<1>7. r.result # "too_long" => Lines(Decoded(d)) \in Seq(Seq(S))
  BY <1>6 DEF LinesAt
<1>8. r.result = "line" => r.text \in Seq(S)
  <2> DEFINE T == Seq(S)
             t == Lines(Decoded(d))
             x == r.text
             n == Len(ls)
  <2> SUFFICES ASSUME r.result = "line" PROVE x \in T
    OBVIOUS
  <2>1. t = Append(ls, x) /\ t \in Seq(T) /\ ls \in Seq(T)
    BY <1>1, <1>6, <1>7
  <2> HIDE DEF T, t, x
  <2>2. n \in Nat /\ Len(t) = n + 1 /\ t[n + 1] = x /\ n + 1 \in 1..(n + 1)
    BY <2>1
  <2>3. t[n + 1] \in T
    BY <2>1, <2>2
  <2> QED
    BY <2>2, <2>3
<1>9. r.result # "too_long" => HeardAt(S, d, r.decoder, r.line, r.cr, Lines(Decoded(d)))
  BY <1>4, <1>6, <1>7 DEF HeardAt
<1>10. ScanHeard(c \o input, d, r, ls)
  BY <1>4, <1>5, <1>6, <1>8, <1>9 DEF ScanHeard
<1> QED
  BY <1>10 DEF r

\* None of the texts of a client stands for no text.
LEMMA NoneAbsent ==
  ASSUME config \in Configs
  PROVE  Absent \notin Seq(config.bytes)
<1>1. "None" \notin config.bytes
  BY IoAssumption
<1>2. Len(Absent) = 1 /\ Absent[1] = "None"
  BY DEF Absent
<1> QED
  BY <1>1, <1>2

\* What the stream str tells when it is consumed but for the rest.
ToldOf(str, rest) == Logins(Lines(Decoded(SubSeq(str, 1, Len(str) - Len(rest)))))

\* That ls are its lines, and told the logins of the rounds that are over.
ToldBy(str, rest, ls, m, told) ==
  /\ Between(Seq(config.bytes), ls, m, told) =>
       ToldOf(str, rest) = told /\ Answered(ToldOf(str, rest)) = told
  /\ \A u : Awaiting(Seq(config.bytes), ls, u, m, told) =>
       /\ ToldOf(str, rest) = Append(told, TelnetLogin(u, Absent))
       /\ Answered(ToldOf(str, rest)) = told

\* It is so wherever the dialogue stands.
LEMMA ToldIs ==
  ASSUME config \in Configs, NEW d \in Seq(config.bytes), NEW rest \in Seq(config.bytes),
         NEW str, str = d \o rest, NEW ls \in Seq(Seq(config.bytes)), ls = Lines(Decoded(d)),
         NEW m, NEW told
  PROVE  ToldBy(str, rest, ls, m, told)
<1> DEFINE T == Seq(config.bytes)
           all == ToldOf(str, rest)
<1>1. all = Logins(ls)
  <2> DEFINE S == config.bytes
             front == SubSeq(str, 1, Len(str) - Len(rest))
  <2>1. d \in Seq(S) /\ rest \in Seq(S) /\ str = d \o rest
    OBVIOUS
  <2> HIDE DEF S
  <2>2. front = d
    BY <2>1
  <2> HIDE DEF front
  <2>3. all = Logins(Lines(Decoded(front)))
    BY DEF ToldOf, front
  <2> QED
    BY <2>2, <2>3
<1>2. Absent \notin T
  BY NoneAbsent
<1> HIDE DEF T, all
<1>3. /\ Between(T, ls, m, told) => Logins(ls) = told
      /\ \A u : Awaiting(T, ls, u, m, told) => Logins(ls) = Append(told, TelnetLogin(u, Absent))
  <2>1. ls \in Seq(T)
    BY DEF T
  <2>2. LoginsTold(T, ls, m, told)
    BY <2>1, LoginsEnd
  <2> QED
    BY <2>2, Zenon DEF LoginsTold
<1>4. ASSUME told \in Seq(AnswersOf(T))
      PROVE  /\ Answered(told) = told
             /\ \A u : Answered(Append(told, TelnetLogin(u, Absent))) = told
  BY <1>2, <1>4, AnsweredIs
<1>5. ASSUME NEW u, Awaiting(T, ls, u, m, told)
      PROVE  all = Append(told, TelnetLogin(u, Absent)) /\ Answered(all) = told
  <2>1. told \in Seq(AnswersOf(T))
    BY <1>5 DEF Awaiting, LoginsAt
  <2>2. all = Append(told, TelnetLogin(u, Absent))
    BY <1>1, <1>3, <1>5
  <2> QED
    BY <1>4, <2>1, <2>2
<1>6. Between(T, ls, m, told) => all = told /\ Answered(all) = told
  BY <1>1, <1>3, <1>4 DEF Between, LoginsAt
<1> QED
  BY <1>5, <1>6 DEF ToldBy, all, T

-----------------------------------------------------------------------------
(* The dialogue: the steps                                                 *)

\* What is redacted depends on the configuration only.
LEMMA RedactedSame ==
  ASSUME config' = config, NEW events
  PROVE  (AllRedacted(events))' = AllRedacted(events)
BY DEF AllRedacted, redact, HttpRedacted, LoginRedacted

\* A session that goes on.
LEMMA GoesOnTold ==
  ASSUME config' = config, pc' # "closed", NEW d, NEW ls, NEW told,
         HeardAt(config.bytes, d, decoder', line', pending_cr', ls),
         stream' = d \o pending', pc' \in {"username", "password"} => pending' = <<>>,
         Dialogue(config.bytes, pc', username', attempts', ls, told),
         Recorded' = AllRedacted(told)
  PROVE  ToldInv'
<1>1. (AllRedacted(told))' = AllRedacted(told)
  BY RedactedSame
<1>2. OpenTold'
  BY <1>1 DEF OpenTold
<1> QED
  BY <1>2 DEF ToldInv, Closed

\* What TelnetFaithful asks of the end of a session.
Ended(ls, m, told) ==
  /\ Between(Seq(config.bytes), ls, m, told) /\ Recorded' = AllRedacted(told) => ToldInv'
  /\ \A u : Awaiting(Seq(config.bytes), ls, u, m, told) =>
       /\ reason' \notin {"shutdown", "lifetime_limit"}
            /\ Recorded' = AllRedacted(Append(told, TelnetLogin(u, Absent))) => ToldInv'
       /\ reason' \in {"shutdown", "lifetime_limit"} /\ Recorded' = AllRedacted(told) => ToldInv'

\* It is so of whatever was consumed.
LEMMA EndsTold ==
  ASSUME config \in Configs, config' = config, pc' = "closed",
         NEW d \in Seq(config.bytes), pending' \in Seq(config.bytes), stream' = d \o pending',
         NEW ls \in Seq(Seq(config.bytes)), ls = Lines(Decoded(d)), NEW m, NEW told
  PROVE  Ended(ls, m, told)
<1> DEFINE T == Seq(config.bytes)
           all == ToldOf(stream', pending')
<1>1. ToldBy(stream', pending', ls, m, told)
  BY ToldIs
<1>2. Told' = all
  BY DEF Told, Consumed, ToldOf
<1> HIDE DEF all
<1>3. (AllRedacted(Told))' = AllRedacted(all)
  BY <1>2 DEF AllRedacted, redact, HttpRedacted, LoginRedacted
<1>4. (AllRedacted(Answered(Told)))' = AllRedacted(Answered(all))
  BY <1>2 DEF AllRedacted, redact, HttpRedacted, LoginRedacted, Answered
<1>5. /\ reason' \notin {"shutdown", "lifetime_limit"} /\ Recorded' = AllRedacted(all) => ToldInv'
      /\ reason' \in {"shutdown", "lifetime_limit"} /\ Recorded' = AllRedacted(Answered(all))
           => ToldInv'
  BY <1>3, <1>4 DEF ToldInv, TelnetFaithful, Closed
<1>6. ASSUME Between(T, ls, m, told), Recorded' = AllRedacted(told) PROVE ToldInv'
  <2>1. all = told /\ Answered(all) = told
    BY <1>1, <1>6 DEF ToldBy, all
  <2> QED
    BY <1>5, <1>6, <2>1
<1>7. ASSUME NEW u, Awaiting(T, ls, u, m, told)
      PROVE  /\ reason' \notin {"shutdown", "lifetime_limit"}
                  /\ Recorded' = AllRedacted(Append(told, TelnetLogin(u, Absent))) => ToldInv'
             /\ reason' \in {"shutdown", "lifetime_limit"} /\ Recorded' = AllRedacted(told)
                  => ToldInv'
  <2>1. all = Append(told, TelnetLogin(u, Absent)) /\ Answered(all) = told
    BY <1>1, <1>7, Zenon DEF ToldBy, all
  <2>2. AllRedacted(all) = AllRedacted(Append(told, TelnetLogin(u, Absent)))
    BY <2>1, Zenon
  <2>3. AllRedacted(Answered(all)) = AllRedacted(told)
    BY <2>1, Zenon
  <2> QED
    BY <1>5, <2>2, <2>3, Zenon
<1> QED
  BY <1>6, <1>7, Zenon DEF Ended

\* That the record s has the logins told.
Tells(s, told) == LoginsIn(s.events) = AllRedacted(told)

\* A login that is recorded is told behind the others.
LEMMA LoginTells ==
  ASSUME NEW s, NEW str, NEW n \in 0..MAX_ATTEMPTS, RecordOK(s, str, n), NEW password,
         NEW S, NEW told \in Seq(S), Tells(s, told)
  PROVE  Tells(Login(s, password), Append(told, TelnetLogin(username, password)))
<1> DEFINE e == TelnetLogin(username, password)
           L == S \cup {e}
<1>1. told \in Seq(L) /\ e \in L
  BY SeqMonotonic
<1>2. LoginsIn(Login(s, password).events) = Append(LoginsIn(s.events), redact(e))
  BY LoginTold
<1> HIDE DEF e, L
<1>3. AllRedacted(Append(told, e)) = Append(AllRedacted(told), redact(e))
  BY <1>1, RedactedMore
<1>4. LoginsIn(Login(s, password).events) = AllRedacted(Append(told, e))
  BY <1>2, <1>3, Zenon DEF Tells
<1> QED
  BY <1>4, Zenon DEF Tells, e

\* A notice and the bytes of a read are not.
LEMMA NoticeTells ==
  ASSUME NEW s, NEW str, NEW n \in 0..MAX_ATTEMPTS, RecordOK(s, str, n), NEW msg, NEW told,
         Tells(s, told)
  PROVE  Tells(notice(s, msg), told)
BY NoticeNotTold DEF Tells

\* Nor are the bytes of a read.
LEMMA ReadTells ==
  ASSUME NEW s, NEW str, NEW n, RecordOK(s, str, n), NEW chunk, NEW told, Tells(s, told)
  PROVE  Tells(record_bytes(s, chunk), told)
BY ReadNotTold DEF Tells

\* The logins told are logins with an answer.
LEMMA ToldAnswers ==
  ASSUME NEW T, NEW ls, NEW m, NEW told,
         Between(T, ls, m, told) \/ \E u : Awaiting(T, ls, u, m, told)
  PROVE  told \in Seq(AnswersOf(T))
BY DEF Between, Awaiting, LoginsAt

\* How a line for the user name goes on.
LEMMA TakeUsernameTells ==
  ASSUME TelnetInv, RecordInv, Telnet, pc \in {"prompt", "username"}, config' = config,
         NEW d, NEW ls \in Seq(Seq(config.bytes)), NEW told, NEW r, Keep(r),
         ScanHeard(stream', d, r, ls),
         Between(Seq(config.bytes), ls, MAX_ATTEMPTS - attempts, told),
         NEW s, RecordOK(s, stream', attempts), Tells(s, told), TakeUsername(r, s)
  PROVE  ToldInv'
<1> DEFINE T == Seq(config.bytes)
           m == MAX_ATTEMPTS - attempts
           now == Lines(Decoded(d))
<1>1. /\ attempts \in 0..MAX_ATTEMPTS /\ attempts < MAX_ATTEMPTS /\ MAX_ATTEMPTS \in Nat
      /\ m > 0 /\ m - 1 = MAX_ATTEMPTS - (attempts + 1) /\ config \in Configs
  BY TelnetAssumption DEF TelnetInv, RecordInv
<1>2. /\ d \in Seq(config.bytes) /\ r.rest \in Seq(config.bytes) /\ stream' = d \o r.rest
      /\ r.result = "more" => r.rest = <<>>
      /\ r.result # "too_long" =>
           HeardAt(config.bytes, d, r.decoder, r.line, r.cr, now)
      /\ now = IF r.result = "line" THEN Append(ls, r.text) ELSE ls
      /\ r.result = "line" => r.text \in Seq(config.bytes)
  BY DEF ScanHeard
<1>3. pending' = r.rest /\ decoder' = r.decoder /\ line' = r.line /\ pending_cr' = r.cr
  BY DEF Keep
<1> HIDE DEF m, now
<1>4. CASE r.result = "more" /\ Goto("username", s) /\ UNCHANGED <<username, attempts>>
  <2>1. pc' = "username" /\ session' = s /\ now = ls
    BY <1>2, <1>4 DEF Goto
  <2>2. HeardAt(config.bytes, d, decoder', line', pending_cr', ls)
    BY <1>2, <1>3, <1>4, <2>1
  <2>3. Dialogue(config.bytes, pc', username', attempts', ls, told)
    BY <1>4, <2>1 DEF Dialogue
  <2>4. Recorded' = AllRedacted(told)
    BY <2>1 DEF Recorded, Tells
  <2> QED
    BY <1>2, <1>3, <1>4, <2>1, <2>2, <2>3, <2>4, GoesOnTold
<1>5. CASE r.result = "too_long" /\ Leave("protocol_error", notice(s, "telnet_line_too_long"))
  <2>1. /\ pc' = "closed" /\ session' = notice(s, "telnet_line_too_long") /\ now = ls
        /\ reason' = "protocol_error"
    BY <1>2, <1>5 DEF Leave, Close
  <2>2. Tells(session', told)
    BY <1>1, <2>1, NoticeTells
  <2>3. Recorded' = AllRedacted(told)
    BY <2>2 DEF Recorded, Tells
  <2>4. Ended(ls, m, told)
    BY <1>1, <1>2, <1>3, <2>1, EndsTold DEF now
  <2> QED
    BY <2>3, <2>4 DEF Ended, m
<1>6. CASE r.result = "line" /\ r.text = <<>> /\ EndRound(s) /\ UNCHANGED username
  <2>1. /\ pc' = (IF attempts' < MAX_ATTEMPTS THEN "prompt" ELSE "farewell")
        /\ session' = s /\ attempts' = attempts + 1 /\ now = Append(ls, <<>>)
    BY <1>2, <1>6 DEF EndRound, Goto
  <2>2. pc' \notin {"closed", "username", "ask_password", "password", "incorrect"}
    BY <2>1
  <2>3. Between(T, Append(ls, <<>>), m - 1, told)
    <3>1. Between(T, ls, m, told)
      BY DEF m
    <3> DEFINE U == T
    <3>2. <<>> \in U /\ ls \in Seq(U) /\ Between(U, ls, m, told)
      BY <3>1
    <3> HIDE DEF U
    <3>3. Between(U, Append(ls, <<>>), m - 1, told)
      BY <1>1, <3>2, EmptyName
    <3> QED
      BY <3>3 DEF U
  <2>4. Between(T, now, MAX_ATTEMPTS - (attempts + 1), told)
    BY <1>1, <2>1, <2>3
  <2>5. Dialogue(config.bytes, pc', username', attempts', now, told)
    BY <2>1, <2>2, <2>4 DEF Dialogue
  <2>6. HeardAt(config.bytes, d, decoder', line', pending_cr', now)
    BY <1>2, <1>3, <1>6
  <2>7. Recorded' = AllRedacted(told)
    BY <2>1 DEF Recorded, Tells
  <2> QED
    BY <1>2, <1>3, <2>2, <2>5, <2>6, <2>7, GoesOnTold
<1>7. CASE /\ r.result = "line" /\ r.text # <<>>
           /\ username' = r.text /\ Goto("ask_password", s) /\ UNCHANGED attempts
  <2>1. /\ pc' = "ask_password" /\ session' = s /\ username' = r.text /\ attempts' = attempts
        /\ now = Append(ls, r.text) /\ r.text \in T
    BY <1>2, <1>7 DEF Goto
  <2>2. Awaiting(T, Append(ls, r.text), r.text, m, told)
    <3>1. Between(T, ls, m, told)
      BY DEF m
    <3> DEFINE U == T
    <3>2. r.text \in U /\ ls \in Seq(U) /\ Between(U, ls, m, told)
      BY <2>1, <3>1
    <3> HIDE DEF U
    <3>3. Awaiting(U, Append(ls, r.text), r.text, m, told)
      BY <1>1, <1>7, <3>2, NameGiven
    <3> QED
      BY <3>3 DEF U
  <2>3. Awaiting(T, now, username', MAX_ATTEMPTS - attempts', told)
    BY <2>1, <2>2 DEF m
  <2>4. Dialogue(config.bytes, pc', username', attempts', now, told)
    BY <2>1, <2>3 DEF Dialogue
  <2>5. HeardAt(config.bytes, d, decoder', line', pending_cr', now)
    BY <1>2, <1>3, <1>7
  <2>6. Recorded' = AllRedacted(told)
    BY <2>1 DEF Recorded, Tells
  <2> QED
    BY <1>2, <1>3, <2>1, <2>4, <2>5, <2>6, GoesOnTold
<1> QED
  BY <1>4, <1>5, <1>6, <1>7 DEF TakeUsername

\* How a line for the password goes on.
LEMMA TakePasswordTells ==
  ASSUME TelnetInv, RecordInv, Telnet, pc \in {"ask_password", "password"}, config' = config,
         NEW d, NEW ls \in Seq(Seq(config.bytes)), NEW told, NEW r, Keep(r),
         ScanHeard(stream', d, r, ls),
         Awaiting(Seq(config.bytes), ls, username, MAX_ATTEMPTS - attempts, told),
         NEW s, RecordOK(s, stream', attempts), Tells(s, told), TakePassword(r, s)
  PROVE  ToldInv'
<1> DEFINE T == Seq(config.bytes)
           m == MAX_ATTEMPTS - attempts
           now == Lines(Decoded(d))
<1>1. /\ attempts \in 0..MAX_ATTEMPTS /\ attempts + 1 \in 0..MAX_ATTEMPTS
      /\ m - 1 = MAX_ATTEMPTS - (attempts + 1) /\ config \in Configs
      /\ username' = username /\ attempts' = attempts
  BY TelnetAssumption DEF TelnetInv, RecordInv, TakePassword
<1>2. /\ d \in Seq(config.bytes) /\ r.rest \in Seq(config.bytes) /\ stream' = d \o r.rest
      /\ r.result = "more" => r.rest = <<>>
      /\ r.result # "too_long" =>
           HeardAt(config.bytes, d, r.decoder, r.line, r.cr, now)
      /\ now = IF r.result = "line" THEN Append(ls, r.text) ELSE ls
      /\ r.result = "line" => r.text \in Seq(config.bytes)
  BY DEF ScanHeard
<1>3. pending' = r.rest /\ decoder' = r.decoder /\ line' = r.line /\ pending_cr' = r.cr
  BY DEF Keep
<1>4. Awaiting(T, ls, username, m, told)
  OBVIOUS
<1>5. told \in Seq(AnswersOf(T))
  BY <1>4, ToldAnswers
<1> HIDE DEF m, now
<1>6. CASE r.result = "more" /\ Goto("password", s)
  <2>1. pc' = "password" /\ session' = s /\ now = ls
    BY <1>2, <1>6 DEF Goto
  <2>2. HeardAt(config.bytes, d, decoder', line', pending_cr', ls)
    BY <1>2, <1>3, <1>6, <2>1
  <2>3. Dialogue(config.bytes, pc', username', attempts', ls, told)
    BY <1>1, <1>4, <2>1 DEF Dialogue, m
  <2>4. Recorded' = AllRedacted(told)
    BY <2>1 DEF Recorded, Tells
  <2> QED
    BY <1>2, <1>3, <1>6, <2>1, <2>2, <2>3, <2>4, GoesOnTold
<1>7. CASE /\ r.result = "too_long"
           /\ Leave("protocol_error", LoginUnanswered(notice(s, "telnet_line_too_long")))
  <2> DEFINE t == notice(s, "telnet_line_too_long")
             more == Append(told, TelnetLogin(username, Absent))
  <2>1. /\ pc' = "closed" /\ session' = Login(t, Absent) /\ now = ls
        /\ reason' = "protocol_error"
    BY <1>2, <1>7 DEF Leave, Close, LoginUnanswered
  <2>2. Tells(t, told) /\ RecordOK(t, stream', attempts + 1)
    BY <1>1, NoticeTells, NoticeKeeps
  <2> HIDE DEF t
  <2>3. Tells(Login(t, Absent), more)
    BY <1>1, <1>5, <2>2, LoginTells
  <2>4. Recorded' = AllRedacted(more)
    BY <2>1, <2>3, Zenon DEF Recorded, Tells
  <2>5. Ended(ls, m, told)
    BY <1>1, <1>2, <1>3, <2>1, EndsTold DEF now
  <2>6. reason' \notin {"shutdown", "lifetime_limit"}
    BY <2>1
  <2> QED
    BY <1>4, <2>4, <2>5, <2>6, Zenon DEF Ended
<1>8. CASE r.result = "line" /\ Goto("incorrect", Login(s, r.text))
  <2> DEFINE more == Append(told, TelnetLogin(username, r.text))
  <2>1. /\ pc' = "incorrect" /\ session' = Login(s, r.text)
        /\ now = Append(ls, r.text) /\ r.text \in T
    BY <1>2, <1>8 DEF Goto
  <2>2. Between(T, Append(ls, r.text), m - 1, more)
    <3> DEFINE U == T
    <3>1. r.text \in U /\ ls \in Seq(U) /\ Awaiting(U, ls, username, m, told)
      BY <1>4, <2>1
    <3> HIDE DEF U
    <3>2. Between(U, Append(ls, r.text), m - 1, more)
      BY <3>1, PasswordGiven
    <3> QED
      BY <3>2 DEF U
  <2>3. Between(T, now, MAX_ATTEMPTS - (attempts' + 1), more)
    <3>1. m - 1 = MAX_ATTEMPTS - (attempts' + 1)
      BY <1>1
    <3> HIDE DEF more
    <3> QED
      BY <2>1, <2>2, <3>1
  <2>4. Tells(Login(s, r.text), more)
    BY <1>1, <1>5, LoginTells
  <2> HIDE DEF more
  <2>5. Dialogue(config.bytes, pc', username', attempts', now, more)
    BY <2>1, <2>3 DEF Dialogue
  <2>6. HeardAt(config.bytes, d, decoder', line', pending_cr', now)
    BY <1>2, <1>3, <1>8
  <2>7. Recorded' = AllRedacted(more)
    BY <2>1, <2>4 DEF Recorded, Tells
  <2> QED
    BY <1>2, <1>3, <2>1, <2>5, <2>6, <2>7, GoesOnTold
<1> QED
  BY <1>6, <1>7, <1>8 DEF TakePassword

\* A session that ends with nothing more consumed: its record tells what was
\* told, with the name that has no answer when the handler returns by itself.
LEMMA LeaveTells ==
  ASSUME RecordInv, TelnetInv, UNCHANGED <<config, stream, telnetVars>>,
         pc' = "closed", NEW told,
         NEW c, NEW ls,
         HeardAt(config.bytes, c, decoder, line, pending_cr, ls), stream = c \o pending,
         Dialogue(config.bytes, pc, username, attempts, ls, told),
         \/ /\ reason' \in {"shutdown", "lifetime_limit"}
            /\ Tells(session', told)
         \/ /\ reason' \notin {"shutdown", "lifetime_limit"}
            /\ pc \notin {"ask_password", "password"} /\ Tells(session', told)
         \/ /\ reason' \notin {"shutdown", "lifetime_limit"}
            /\ pc \in {"ask_password", "password"}
            /\ Tells(session', Append(told, TelnetLogin(username, Absent)))
  PROVE  ToldInv'
<1> DEFINE T == Seq(config.bytes)
           m == IF pc = "incorrect" THEN MAX_ATTEMPTS - (attempts + 1)
                ELSE MAX_ATTEMPTS - attempts
           more == Append(told, TelnetLogin(username, Absent))
<1>1. /\ c \in Seq(config.bytes) /\ ls = Lines(Decoded(c)) /\ ls \in Seq(T)
      /\ pending' \in Seq(config.bytes) /\ stream' = c \o pending' /\ config \in Configs
      /\ config' = config
  BY DEF HeardAt, TelnetInv, RecordInv, telnetVars, readerVars
<1>2. Ended(ls, m, told)
  BY <1>1, EndsTold
<1>3. /\ pc \in {"ask_password", "password"} => Awaiting(T, ls, username, m, told)
      /\ pc \notin {"ask_password", "password"} => Between(T, ls, m, told)
  BY DEF Dialogue
<1> HIDE DEF m, more
<1>4. /\ Tells(session', told) => Recorded' = AllRedacted(told)
      /\ Tells(session', more) => Recorded' = AllRedacted(more)
  BY DEF Tells, Recorded
<1> QED
  BY <1>2, <1>3, <1>4, Zenon DEF Ended, more

\* Every step of the Telnet handler.
LEMMA TelnetTells ==
  ASSUME SessionInv, ToldInv, TelnetStep
  PROVE  ToldInv'
<1>0. /\ Telnet /\ ~Closed /\ config' = config /\ RecordInv /\ TelnetInv /\ config \in Configs
      /\ stream \in Seq(config.bytes) /\ pending \in Seq(config.bytes)
      /\ BufferSize \in Nat /\ OpenTold
  BY IoAssumption DEF TelnetStep, WriteBanner, WritePrompt, ReadUsername, AskPassword,
     ReadPassword, ReadLineEnds, WriteIncorrect, WriteFarewell, Telnet, Closed,
     SessionInv, RecordInv, TelnetInv, ToldInv
<1>1. /\ pc \notin {"farewell", "closed"} => attempts + 1 \in 0..MAX_ATTEMPTS
      /\ pc # "incorrect" => RecordOK(session, stream, attempts)
      /\ attempts \in 0..MAX_ATTEMPTS
  BY <1>0, TelnetAssumption DEF MostEvents, RecordInv, TelnetInv, Raw, Ssh, Http, Telnet
<1>2. PICK c, ls, told :
        /\ HeardAt(config.bytes, c, decoder, line, pending_cr, ls)
        /\ stream = c \o pending
        /\ pc \in {"username", "password"} => pending = <<>>
        /\ Dialogue(config.bytes, pc, username, attempts, ls, told)
        /\ Recorded = AllRedacted(told)
  BY <1>0 DEF OpenTold
<1>3. Tells(session, told) /\ ls \in Seq(Seq(config.bytes)) /\ c \in Seq(config.bytes)
  BY <1>2 DEF Tells, Recorded, HeardAt
<1>4. /\ pc \in {"ask_password", "password"} =>
           Awaiting(Seq(config.bytes), ls, username, MAX_ATTEMPTS - attempts, told)
      /\ pc = "incorrect" => Between(Seq(config.bytes), ls, MAX_ATTEMPTS - (attempts + 1), told)
      /\ pc \notin {"ask_password", "password", "incorrect"} =>
           Between(Seq(config.bytes), ls, MAX_ATTEMPTS - attempts, told)
  BY <1>2 DEF Dialogue
<1>5. ASSUME UNCHANGED <<config, stream, telnetVars>>, pc \notin {"ask_password", "password"},
             NEW why \in WriteFailures \cup {"server_closed"}, Leave(why, session)
      PROVE  ToldInv'
  <2>1. /\ reason' \notin {"shutdown", "lifetime_limit"} /\ Tells(session', told)
        /\ pc' = "closed"
    BY <1>3, <1>5 DEF WriteFailures, Leave, Close
  <2> QED
    BY <1>0, <1>2, <1>5, <2>1, LeaveTells
<1>6. CASE WriteBanner
  <2>1. pc = "banner" /\ UNCHANGED <<config, stream, telnetVars>>
    BY <1>6 DEF WriteBanner
  <2>2. CASE Goto("prompt", session)
    <3>1. pc' = "prompt" /\ session' = session
      BY <2>2 DEF Goto
    <3>2. /\ HeardAt(config.bytes, c, decoder', line', pending_cr', ls)
          /\ stream' = c \o pending' /\ username' = username /\ attempts' = attempts
      BY <1>2, <2>1 DEF telnetVars, readerVars
    <3>3. Dialogue(config.bytes, pc', username', attempts', ls, told)
      BY <1>4, <2>1, <3>1, <3>2 DEF Dialogue
    <3>4. Recorded' = AllRedacted(told)
      BY <1>3, <3>1 DEF Recorded, Tells
    <3> QED
      BY <2>1, <3>1, <3>2, <3>3, <3>4, GoesOnTold
  <2>3. CASE \E why \in WriteFailures : Leave(why, session)
    BY <1>5, <2>1, <2>3
  <2> QED
    BY <1>6, <2>2, <2>3 DEF WriteBanner
<1>7. CASE WritePrompt
  <2>1. pc = "prompt" /\ UNCHANGED <<config, stream>>
    BY <1>7 DEF WritePrompt
  <2>2. CASE LET r == Scan(pending) IN Keep(r) /\ TakeUsername(r, session)
    <3> DEFINE r == Scan(pending)
    <3>1. PICK d : ScanHeard(stream, d, r, ls)
      BY <1>0, <1>2, ScanHears
    <3>2. Keep(r) /\ TakeUsername(r, session)
      BY <2>2
    <3> HIDE DEF r
    <3> QED
      BY <1>0, <1>1, <1>3, <1>4, <2>1, <3>1, <3>2, TakeUsernameTells
  <2>3. CASE (\E why \in WriteFailures : Leave(why, session)) /\ UNCHANGED telnetVars
    BY <1>5, <2>1, <2>3
  <2> QED
    BY <1>7, <2>2, <2>3 DEF WritePrompt
<1>8. CASE ReadUsername
  <2>1. PICK chunk \in Chunks(Available(BufferSize)) :
          LET r == Scan(chunk) IN
          /\ stream' = stream \o chunk
          /\ Keep(r)
          /\ TakeUsername(r, record_bytes(session, chunk))
    BY <1>8 DEF ReadUsername
  <2> DEFINE r == Scan(chunk)
             s == record_bytes(session, chunk)
  <2>2. pc = "username" /\ MostEvents = attempts /\ stream = c
    <3>1. pc = "username"
      BY <1>8 DEF ReadUsername
    <3>2. MostEvents = attempts
      BY <1>0, <3>1 DEF MostEvents, Raw, Ssh, Http, Telnet
    <3>3. stream = c
      BY <1>2, <1>3, <3>1
    <3> QED
      BY <3>1, <3>2, <3>3
  <2>3. chunk \in Seq(config.bytes)
    BY <1>0, AvailableOf, ChunkOf
  <2>4. RecordOK(s, stream', attempts)
    BY <1>0, <2>1, <2>2, ReadKeeps
  <2>5. Tells(s, told)
    BY <1>1, <1>3, <2>2, ReadTells
  <2>6. PICK d : ScanHeard(stream \o chunk, d, r, ls)
    BY <1>0, <1>2, <2>2, <2>3, ScanHears
  <2>7. Keep(r) /\ TakeUsername(r, s) /\ ScanHeard(stream', d, r, ls)
    BY <2>1, <2>6
  <2> HIDE DEF r, s
  <2> QED
    BY <1>0, <1>3, <1>4, <2>2, <2>4, <2>5, <2>7, TakeUsernameTells
<1>9. CASE AskPassword
  <2>1. pc = "ask_password" /\ UNCHANGED <<config, stream>>
    BY <1>9 DEF AskPassword
  <2>2. CASE LET r == Scan(pending) IN Keep(r) /\ TakePassword(r, session)
    <3> DEFINE r == Scan(pending)
    <3>1. PICK d : ScanHeard(stream, d, r, ls)
      BY <1>0, <1>2, ScanHears
    <3>2. Keep(r) /\ TakePassword(r, session)
      BY <2>2
    <3> HIDE DEF r
    <3> QED
      BY <1>0, <1>1, <1>3, <1>4, <2>1, <3>1, <3>2, TakePasswordTells
  <2>3. CASE /\ \E why \in WriteFailures : Leave(why, LoginUnanswered(session))
             /\ UNCHANGED telnetVars
    <3>1. PICK why \in WriteFailures : Leave(why, Login(session, Absent))
      BY <2>3 DEF LoginUnanswered
    <3>2. told \in Seq(AnswersOf(Seq(config.bytes)))
      BY <1>4, <2>1, ToldAnswers
    <3>3. Tells(Login(session, Absent), Append(told, TelnetLogin(username, Absent)))
      BY <1>1, <1>3, <2>1, <3>2, LoginTells
    <3>4. /\ reason' \notin {"shutdown", "lifetime_limit"} /\ pc' = "closed"
          /\ Tells(session', Append(told, TelnetLogin(username, Absent)))
      BY <3>1, <3>3 DEF WriteFailures, Leave, Close
    <3> QED
      BY <1>0, <1>2, <2>1, <2>3, <3>4, LeaveTells
  <2> QED
    BY <1>9, <2>2, <2>3 DEF AskPassword
<1>10. CASE ReadPassword
  <2>1. PICK chunk \in Chunks(Available(BufferSize)) :
          LET r == Scan(chunk) IN
          /\ stream' = stream \o chunk
          /\ Keep(r)
          /\ TakePassword(r, record_bytes(session, chunk))
    BY <1>10 DEF ReadPassword
  <2> DEFINE r == Scan(chunk)
             s == record_bytes(session, chunk)
  <2>2. pc = "password" /\ MostEvents = attempts /\ stream = c
    <3>1. pc = "password"
      BY <1>10 DEF ReadPassword
    <3>2. MostEvents = attempts
      BY <1>0, <3>1 DEF MostEvents, Raw, Ssh, Http, Telnet
    <3>3. stream = c
      BY <1>2, <1>3, <3>1
    <3> QED
      BY <3>1, <3>2, <3>3
  <2>3. chunk \in Seq(config.bytes)
    BY <1>0, AvailableOf, ChunkOf
  <2>4. RecordOK(s, stream', attempts)
    BY <1>0, <2>1, <2>2, ReadKeeps
  <2>5. Tells(s, told)
    BY <1>1, <1>3, <2>2, ReadTells
  <2>6. PICK d : ScanHeard(stream \o chunk, d, r, ls)
    BY <1>0, <1>2, <2>2, <2>3, ScanHears
  <2>7. Keep(r) /\ TakePassword(r, s) /\ ScanHeard(stream', d, r, ls)
    BY <2>1, <2>6
  <2> HIDE DEF r, s
  <2> QED
    BY <1>0, <1>3, <1>4, <2>2, <2>4, <2>5, <2>7, TakePasswordTells
<1>11. CASE ReadLineEnds
  <2>0. UNCHANGED <<config, stream, telnetVars>> /\ pc \in {"username", "password"}
    BY <1>11 DEF ReadLineEnds
  <2>1. PICK why \in ReadFailures(BufferSize) :
          LET s == IF why = "client_closed" THEN Unfinished(session) ELSE session
          IN  Leave(why, IF pc = "password" THEN LoginUnanswered(s) ELSE s)
    BY <1>11 DEF ReadLineEnds
  <2> DEFINE s == IF why = "client_closed" THEN Unfinished(session) ELSE session
             t == IF pc = "password" THEN Login(s, Absent) ELSE s
  <2>2. Leave(why, t) /\ why \notin {"shutdown", "lifetime_limit"}
    BY <2>1 DEF LoginUnanswered, ReadFailures
  <2>3. RecordOK(session, stream, attempts) /\ attempts \in 0..MAX_ATTEMPTS
        /\ attempts + 1 \in 0..MAX_ATTEMPTS /\ attempts \in Nat /\ attempts + 1 \in Nat
    BY <1>1, <2>0
  <2>4. RecordOK(s, stream, attempts + 1) /\ Tells(s, told)
    <3>1. RecordOK(session, stream, attempts + 1)
      BY <2>3, MoreRoom
    <3>2. RecordOK(notice(session, "telnet_incomplete_line"), stream, attempts + 1)
          /\ Tells(notice(session, "telnet_incomplete_line"), told)
      BY <1>3, <2>3, NoticeKeeps, NoticeTells
    <3> QED
      BY <1>3, <3>1, <3>2 DEF Unfinished
  <2> HIDE DEF s
  <2>5. pc' = "closed" /\ session' = t /\ reason' \notin {"shutdown", "lifetime_limit"}
    BY <2>2 DEF Leave, Close
  <2>6. CASE pc = "username"
    BY <1>0, <1>2, <2>0, <2>4, <2>5, <2>6, LeaveTells
  <2>7. CASE pc = "password"
    <3>1. told \in Seq(AnswersOf(Seq(config.bytes)))
      BY <1>4, <2>7, ToldAnswers
    <3>2. Tells(Login(s, Absent), Append(told, TelnetLogin(username, Absent)))
      BY <2>3, <2>4, <3>1, LoginTells
    <3> QED
      BY <1>0, <1>2, <2>0, <2>5, <2>7, <3>2, LeaveTells
  <2> QED
    BY <2>0, <2>6, <2>7
<1>12. CASE WriteIncorrect
  <2>1. UNCHANGED <<config, stream, readerVars, username>> /\ pc = "incorrect"
    BY <1>12 DEF WriteIncorrect
  <2>2. CASE EndRound(session)
    <3>1. /\ pc' = (IF attempts' < MAX_ATTEMPTS THEN "prompt" ELSE "farewell")
          /\ session' = session /\ attempts' = attempts + 1
      BY <2>2 DEF EndRound, Goto
    <3>2. pc' \notin {"closed", "username", "ask_password", "password", "incorrect"}
      BY <3>1
    <3>3. /\ HeardAt(config.bytes, c, decoder', line', pending_cr', ls)
          /\ stream' = c \o pending'
      BY <1>2, <2>1 DEF readerVars
    <3>4. Dialogue(config.bytes, pc', username', attempts', ls, told)
      BY <1>4, <2>1, <3>1, <3>2 DEF Dialogue
    <3>5. Recorded' = AllRedacted(told)
      BY <1>3, <3>1 DEF Recorded, Tells
    <3> QED
      BY <2>1, <3>2, <3>3, <3>4, <3>5, GoesOnTold
  <2>3. CASE (\E why \in WriteFailures : Leave(why, session)) /\ UNCHANGED attempts
    BY <1>5, <2>1, <2>3 DEF telnetVars
  <2> QED
    BY <1>12, <2>2, <2>3 DEF WriteIncorrect
<1>13. CASE WriteFarewell
  BY <1>5, <1>13 DEF WriteFarewell
<1> QED
  BY <1>6, <1>7, <1>8, <1>9, <1>10, <1>11, <1>12, <1>13 DEF TelnetStep

\* A session begins with nothing heard and nothing told.
LEMMA InitTold ==
  ASSUME Init
  PROVE  ToldInv
<1>1. /\ stream = <<>> /\ pending = <<>> /\ decoder = "Data" /\ line = <<>> /\ pending_cr = FALSE
      /\ attempts = 0 /\ session.events = <<>> /\ pc = FirstPlace
  BY DEF Init, InitIo, InitTelnet
<1> SUFFICES ASSUME Telnet PROVE OpenTold
  BY <1>1 DEF ToldInv, FirstPlace, Closed, Telnet
<1>2. pc \in {"banner", "prompt"}
  BY <1>1 DEF FirstPlace, Telnet
<1> DEFINE S == config.bytes
           none == <<>>
<1>3. Decoded(none) = none /\ DecodedAt(S, none, "Data", none) /\ none \in Seq(S)
      /\ none \o none = none /\ none \in Seq(Seq(S))
  <2>1. none \in Seq(S) /\ none \in Seq(Seq(S)) /\ none \o none = none
    OBVIOUS
  <2>2. DecodedAt(S, none, "Data", none)
    BY DecodeStart
  <2> HIDE DEF none
  <2>3. Decoded(none) = none
    BY <2>1, <2>2, DecodeEnd
  <2> QED
    BY <2>1, <2>2, <2>3
<1>4. LinesAt(S, none, none, FALSE, none) /\ Lines(none) = none
  BY <1>3, LinesStart, LinesEnd
<1>5. HeardAt(S, none, decoder, line, pending_cr, none)
  BY <1>1, <1>3, <1>4 DEF HeardAt
<1>6. Dialogue(S, pc, username, attempts, none, none)
  <2>1. Between(Seq(S), none, MAX_ATTEMPTS - attempts, none)
    BY <1>1, LoginsStart, TelnetAssumption
  <2> QED
    BY <1>2, <2>1 DEF Dialogue
<1>7. Recorded = AllRedacted(none)
  <2>1. AllRedacted(none) = none
    BY DEF AllRedacted
  <2> QED
    BY <1>1, <2>1, LoginsInNone DEF Recorded
<1> QED
  BY <1>1, <1>2, <1>3, <1>5, <1>6, <1>7 DEF OpenTold

\* A handler that is cancelled: a name without an answer is not recorded.
LEMMA CancelTells ==
  ASSUME SessionInv, ToldInv, Cancel, UNCHANGED telnetVars
  PROVE  ToldInv'
<1>1. /\ ~Closed /\ pc' = "closed" /\ reason' \in {"shutdown", "lifetime_limit"}
      /\ UNCHANGED <<config, stream, session, telnetVars>> /\ RecordInv /\ TelnetInv
  BY DEF Cancel, Close, SessionInv
<1>2. CASE ~Telnet
  BY <1>1, <1>2 DEF ToldInv, Telnet
<1>3. CASE Telnet
  <2>1. OpenTold
    BY <1>1, <1>3 DEF ToldInv
  <2>2. PICK c, ls, told :
          /\ HeardAt(config.bytes, c, decoder, line, pending_cr, ls)
          /\ stream = c \o pending
          /\ Dialogue(config.bytes, pc, username, attempts, ls, told)
          /\ Recorded = AllRedacted(told)
    BY <2>1 DEF OpenTold
  <2>3. Tells(session', told)
    BY <1>1, <2>2 DEF Tells, Recorded
  <2> QED
    BY <1>1, <2>2, <2>3, LeaveTells
<1> QED
  BY <1>2, <1>3

\* The other handlers say nothing of Telnet, and where nothing changes
\* what is told stays.
LEMMA OthersTell ==
  ASSUME ToldInv,
         \/ HttpStep \/ SshStep \/ RawStep
         \/ UNCHANGED vars
  PROVE  ToldInv'
<1>1. CASE HttpStep \/ SshStep \/ RawStep
  <2>1. ~Telnet
    BY <1>1 DEF HttpStep, ReadMore, ReadRequest, HeadersEnd, WriteResponse, SshStep, SshBanner,
       ReadIdentification, ReadOn, SshReadEnds, RawStep, RawBanner, RawRead, RawReadEnds,
       Http, Ssh, Raw, Telnet
  <2> QED
    BY <1>1, <2>1, Moves DEF ToldInv, Telnet
<1>2. CASE UNCHANGED vars
  <2>1. UNCHANGED <<config, stream, session, pc, reason, pending, decoder, line, pending_cr,
                    username, attempts>>
    BY <1>2 DEF vars, ioVars, telnetVars, readerVars
  <2>2. Recorded' = Recorded /\ Told' = Told
    BY <2>1 DEF Recorded, Told, Consumed
  <2>3. TelnetFaithful => TelnetFaithful'
    <3>1. (AllRedacted(Told))' = AllRedacted(Told)
      BY <2>1, <2>2 DEF AllRedacted, redact, HttpRedacted, LoginRedacted
    <3>2. (AllRedacted(Answered(Told)))' = AllRedacted(Answered(Told))
      BY <2>1, <2>2 DEF AllRedacted, redact, HttpRedacted, LoginRedacted, Answered
    <3> QED
      BY <2>1, <2>2, <3>1, <3>2 DEF TelnetFaithful, Telnet, Closed
  <2>4. OpenTold => OpenTold'
    <3> SUFFICES ASSUME OpenTold PROVE OpenTold'
      OBVIOUS
    <3>1. PICK c, ls, told :
            /\ HeardAt(config.bytes, c, decoder, line, pending_cr, ls)
            /\ stream = c \o pending
            /\ pc \in {"username", "password"} => pending = <<>>
            /\ Dialogue(config.bytes, pc, username, attempts, ls, told)
            /\ Recorded = AllRedacted(told)
      BY DEF OpenTold
    <3>2. (AllRedacted(told))' = AllRedacted(told)
      BY <2>1, RedactedSame
    <3> QED
      BY <2>1, <2>2, <3>1, <3>2 DEF OpenTold
  <2> QED
    BY <2>1, <2>3, <2>4 DEF ToldInv, Telnet, Closed
<1> QED
  BY <1>1, <1>2

\* While the session is open that is what TelnetFaithful says.
LEMMA OpenFaithful ==
  ASSUME SessionInv, ToldInv
  PROVE  TelnetFaithful
<1>1. CASE ~Telnet \/ Closed
  BY <1>1 DEF ToldInv, TelnetFaithful
<1>2. CASE Telnet /\ ~Closed
  <2>1. PICK c, ls, told :
          /\ HeardAt(config.bytes, c, decoder, line, pending_cr, ls)
          /\ stream = c \o pending
          /\ Dialogue(config.bytes, pc, username, attempts, ls, told)
          /\ Recorded = AllRedacted(told)
    BY <1>2 DEF ToldInv, OpenTold
  <2> DEFINE m == IF pc = "incorrect" THEN MAX_ATTEMPTS - (attempts + 1)
                  ELSE MAX_ATTEMPTS - attempts
  <2>2. /\ c \in Seq(config.bytes) /\ ls = Lines(Decoded(c)) /\ ls \in Seq(Seq(config.bytes))
        /\ pending \in Seq(config.bytes) /\ config \in Configs
    BY <2>1 DEF HeardAt, SessionInv, TelnetInv, RecordInv
  <2>3. ToldBy(stream, pending, ls, m, told)
    BY <2>1, <2>2, ToldIs
  <2>4. \/ Between(Seq(config.bytes), ls, m, told)
        \/ Awaiting(Seq(config.bytes), ls, username, m, told)
    BY <2>1 DEF Dialogue
  <2> HIDE DEF m
  <2>5. Answered(ToldOf(stream, pending)) = told
    BY <2>3, <2>4, Zenon DEF ToldBy
  <2>6. Told = ToldOf(stream, pending)
    BY Zenon DEF Told, Consumed, ToldOf
  <2>7. Recorded = AllRedacted(Answered(Told))
    BY <2>1, <2>5, <2>6, Zenon
  <2> QED
    BY <1>2, <2>7, Zenon DEF TelnetFaithful
<1> QED
  BY <1>1, <1>2

\* TelnetFaithful: the logins of the record are those of the whole stream, for
\* every way it was cut into reads, and a name without an answer is among them
\* exactly if the handler returned by itself.
THEOREM TelnetIsFaithful == Spec => []TelnetFaithful
<1>1. Init => ToldInv
  BY InitTold
<1>2. SessionInv /\ ToldInv /\ [Next]_vars => ToldInv'
  <2> SUFFICES ASSUME SessionInv, ToldInv, [Next]_vars PROVE ToldInv'
    OBVIOUS
  <2>1. CASE TelnetStep
    BY <2>1, TelnetTells
  <2>2. CASE HttpStep \/ SshStep \/ RawStep \/ UNCHANGED vars
    BY <2>2, OthersTell
  <2>3. CASE Cancel /\ UNCHANGED <<telnetVars, httpVars, sshVars>>
    BY <2>3, CancelTells
  <2> QED
    BY <2>1, <2>2, <2>3 DEF Next, Over
<1>3. SessionInv /\ ToldInv => TelnetFaithful
  BY OpenFaithful
<1> QED
  BY <1>1, <1>2, <1>3, SessionInvariant, PTL DEF Spec

=============================================================================
