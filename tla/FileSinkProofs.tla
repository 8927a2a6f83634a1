--------------------------- MODULE FileSinkProofs ---------------------------
(***************************************************************************)
(* Proofs about FileSink for every set of processes, every threshold and   *)
(* number of archives, lines of every size, and any number of failures.    *)
(***************************************************************************)
EXTENDS FileSink, FiniteSetTheorems, SequenceTheorems, WellFoundedInduction, TLAPS

-----------------------------------------------------------------------------
(* Operators of the model                                                  *)

\* A set that holds 0, and n + 1 with every n, holds every natural number.
LEMMA Inductive ==
  ASSUME NEW S \in SUBSET Nat, 0 \in S, \A n \in S : n + 1 \in S
  PROVE  S = Nat
<1> DEFINE R == {ss \in Nat \X Nat : ss[1] < ss[2]}
<1>0. IsWellFoundedOn(R, Nat)
  BY NatLessThanWellFounded DEF OpToRel
<1>r. \A a, b \in Nat : a < b => <<a, b>> \in R
  OBVIOUS
<1> HIDE DEF R
<1> SUFFICES ASSUME Nat \ S # {} PROVE FALSE
  OBVIOUS
<1>1. PICK x \in Nat \ S : \A y \in Nat \ S : ~ (<<y, x>> \in R)
  BY <1>0, WFMin
<1>2. x - 1 \in Nat /\ x - 1 < x /\ (x - 1) + 1 = x
  OBVIOUS
<1>3. x - 1 \in S
  BY <1>1, <1>2, <1>r
<1> QED
  BY <1>1, <1>2, <1>3

\* What SubSeq gives within the bounds of a sequence.
LEMMA SubSeqOf ==
  ASSUME NEW S, NEW s \in Seq(S), NEW m \in Nat, NEW n \in Nat, m <= n, n <= Len(s)
  PROVE  /\ SubSeq(s, m + 1, n) \in Seq(S)
         /\ Len(SubSeq(s, m + 1, n)) = n - m
         /\ \A k \in 1..(n - m) : SubSeq(s, m + 1, n)[k] = s[m + k]
OBVIOUS

\* F is the recursion that BytesOf folds over sets of positions of s.
Folds(F, s, D) ==
  F = [T \in SUBSET D |->
         IF T = {} THEN 0 ELSE F[T \ {Max(T)}] + s[Max(T)].bytes]

\* H gives the bytes of each prefix of s.
Running(H, s) ==
  /\ H \in [0..Len(s) -> Nat]
  /\ H[0] = 0
  /\ \A k \in 1..Len(s) : H[k] = H[k - 1] + s[k].bytes

\* The recursion behind BytesOf has a solution.
LEMMA FoldExists ==
  ASSUME NEW s, NEW n \in Nat
  PROVE  \E F : Folds(F, s, 1..n)
<1> DEFINE S == {k \in Nat : \E F : Folds(F, s, 1..k)}
<1>1. 0 \in S
  <2> DEFINE F == [T \in SUBSET (1..0) |-> 0]
  <2>1. \A T \in SUBSET (1..0) : T = {}
    OBVIOUS
  <2>2. F = [T \in SUBSET (1..0) |->
               IF T = {} THEN 0 ELSE F[T \ {Max(T)}] + s[Max(T)].bytes]
    BY <2>1
  <2> QED
    BY <2>2 DEF Folds
<1>2. ASSUME NEW k \in S PROVE k + 1 \in S
  <2>1. PICK F : Folds(F, s, 1..k)
    BY <1>2
  <2> DEFINE G == [T \in SUBSET (1..(k + 1)) |->
                     IF k + 1 \in T THEN F[T \ {k + 1}] + s[k + 1].bytes ELSE F[T]]
  <2>2. \A T \in SUBSET (1..k) : T \in SUBSET (1..(k + 1)) /\ k + 1 \notin T
    BY <1>2
  <2>3. ASSUME NEW T \in SUBSET (1..(k + 1))
        PROVE  G[T] = IF T = {} THEN 0 ELSE G[T \ {Max(T)}] + s[Max(T)].bytes
    <3>1. CASE k + 1 \in T
      <4>1. Max(T) = k + 1
        <5>1. \A y \in T : k + 1 >= y
          BY <1>2
        <5>2. \A x \in T : (\A y \in T : x >= y) => x = k + 1
          BY <1>2, <3>1
        <5> QED
          BY <3>1, <5>1, <5>2 DEF Max
      <4>2. T \ {k + 1} \in SUBSET (1..k)
        BY <1>2
      <4>3. G[T \ {k + 1}] = F[T \ {k + 1}]
        BY <4>2, <2>2
      <4>4. G[T] = F[T \ {k + 1}] + s[k + 1].bytes
        BY <3>1
      <4> QED
        BY <3>1, <4>1, <4>3, <4>4
    <3>2. CASE k + 1 \notin T
      <4>0. T \subseteq 1..k
        BY <1>2, <3>2
      <4>1. T \in SUBSET (1..k) /\ T \ {Max(T)} \in SUBSET (1..k)
        BY <4>0, Zenon
      <4>2. G[T] = F[T] /\ G[T \ {Max(T)}] = F[T \ {Max(T)}]
        BY <4>1, <2>2
      <4>3. F[T] = IF T = {} THEN 0 ELSE F[T \ {Max(T)}] + s[Max(T)].bytes
        BY <4>1, <2>1 DEF Folds
      <4> QED
        BY <4>2, <4>3
    <3> QED
      BY <3>1, <3>2
  <2>4. G = [T \in SUBSET (1..(k + 1)) |->
               IF T = {} THEN 0 ELSE G[T \ {Max(T)}] + s[Max(T)].bytes]
    BY <2>3
  <2> HIDE DEF G
  <2>5. Folds(G, s, 1..(k + 1))
    BY <2>4 DEF Folds
  <2> QED
    BY <2>5, <1>2
<1> HIDE DEF S
<1>3. S = Nat
  <2>1. S \in SUBSET Nat
    BY DEF S
  <2> QED
    BY <2>1, <1>1, <1>2, Inductive
<1> QED
  BY <1>3 DEF S

\* BytesOf adds the lines up from the first to the last.
LEMMA BytesAreRunning ==
  ASSUME NEW s \in Seq(Lines)
  PROVE  \E H : Running(H, s) /\ BytesOf(s) = H[Len(s)]
<1>1. Len(s) \in Nat /\ DOMAIN s = 1..Len(s)
  OBVIOUS
<1>2. PICK G : Folds(G, s, DOMAIN s)
  BY <1>1, FoldExists
<1>3. PICK F : Folds(F, s, DOMAIN s) /\ BytesOf(s) = F[DOMAIN s]
  BY <1>2 DEF BytesOf, FoldLeft, MapThenFoldSet, Folds
<1> DEFINE H == [k \in 0..Len(s) |-> F[1..k]]
<1>4. H[0] = 0
  <2>1. 1..0 = {} /\ 1..0 \in SUBSET DOMAIN s
    OBVIOUS
  <2>2. F[1..0] = 0
    BY <2>1, <1>3 DEF Folds
  <2> QED
    BY <1>1, <2>2
<1>5. ASSUME NEW k \in 1..Len(s) PROVE H[k] = H[k - 1] + s[k].bytes
  <2>0. /\ \A x \in 1..k : x \in 1..Len(s)
        /\ k \in 1..k
        /\ \A x : x \in (1..k) \ {k} <=> x \in 1..(k - 1)
    BY <1>1
  <2>1. 1..k \in SUBSET DOMAIN s /\ 1..k # {} /\ (1..k) \ {k} = 1..(k - 1)
    BY <2>0, <1>1
  <2>2. Max(1..k) = k
    <3>1. k \in 1..k /\ \A y \in 1..k : k >= y
      BY <1>1
    <3>2. \A x \in 1..k : (\A y \in 1..k : x >= y) => x = k
      BY <1>1, <3>1
    <3> QED
      BY <3>1, <3>2 DEF Max
  <2>3. F[1..k] = F[(1..k) \ {Max(1..k)}] + s[Max(1..k)].bytes
    BY <2>1, <1>3 DEF Folds
  <2>4. k \in 0..Len(s) /\ k - 1 \in 0..Len(s)
    BY <1>1
  <2> QED
    BY <2>1, <2>2, <2>3, <2>4
<1> HIDE DEF H
<1>6. \A k \in 0..Len(s) : H[k] \in Nat
  <2> DEFINE S == {k \in Nat : k \in 0..Len(s) => H[k] \in Nat}
  <2>1. 0 \in S
    BY <1>4
  <2>2. ASSUME NEW k \in S PROVE k + 1 \in S
    <3> SUFFICES ASSUME k + 1 \in 0..Len(s) PROVE H[k + 1] \in Nat
      BY <2>2
    <3>1. k \in Nat /\ k + 1 \in 1..Len(s) /\ k \in 0..Len(s) /\ (k + 1) - 1 = k
      BY <1>1, <2>2
    <3>2. H[k] \in Nat /\ s[k + 1].bytes \in Nat
      <4>1. s[k + 1] \in Lines
        BY <3>1, ElementOfSeq
      <4> QED
        BY <2>2, <3>1, <4>1 DEF Lines
    <3>3. H[k + 1] = H[k] + s[k + 1].bytes
      BY <3>1, <1>5
    <3> QED
      BY <3>2, <3>3
  <2> HIDE DEF S
  <2>3. S = Nat
    <3>1. S \in SUBSET Nat
      BY DEF S
    <3> QED
      BY <3>1, <2>1, <2>2, Inductive
  <2> QED
    BY <2>3, <1>1 DEF S
<1>7. Running(H, s)
  BY <1>4, <1>5, <1>6 DEF Running, H
<1>8. BytesOf(s) = H[Len(s)]
  BY <1>1, <1>3 DEF H
<1> QED
  BY <1>7, <1>8

\* Two sequences that agree as far as n have the same bytes as far as n.
LEMMA RunningAgree ==
  ASSUME NEW s \in Seq(Lines), NEW t \in Seq(Lines), NEW G, NEW H,
         Running(G, s), Running(H, t), NEW n \in Nat, n <= Len(s), n <= Len(t),
         \A k \in 1..n : s[k] = t[k]
  PROVE  G[n] = H[n]
<1> DEFINE S == {k \in Nat : k <= n => G[k] = H[k]}
<1>1. 0 \in S
  BY DEF Running
<1>2. ASSUME NEW k \in S PROVE k + 1 \in S
  <2> SUFFICES ASSUME k + 1 <= n PROVE G[k + 1] = H[k + 1]
    BY <1>2
  <2>1. k + 1 \in 1..n /\ k + 1 \in 1..Len(s) /\ k + 1 \in 1..Len(t) /\ (k + 1) - 1 = k
    BY <1>2
  <2>2. G[k] = H[k]
    BY <1>2, <2>1
  <2> QED
    BY <2>1, <2>2 DEF Running
<1> HIDE DEF S
<1>3. S = Nat
  <2>1. S \in SUBSET Nat
    BY DEF S
  <2> QED
    BY <2>1, <1>1, <1>2, Inductive
<1> QED
  BY <1>3 DEF S

\* The bytes of a file are a number; an empty file has none.
LEMMA BytesOfType ==
  ASSUME NEW s \in Seq(Lines)
  PROVE  /\ BytesOf(s) \in Nat
         /\ s = <<>> => BytesOf(s) = 0
<1>1. PICK H : Running(H, s) /\ BytesOf(s) = H[Len(s)]
  BY BytesAreRunning
<1>2. Len(s) \in 0..Len(s) /\ (s = <<>> => Len(s) = 0)
  OBVIOUS
<1> QED
  BY <1>1, <1>2 DEF Running

\* A line adds its bytes to the file it is appended to.
LEMMA BytesOfAppend ==
  ASSUME NEW s \in Seq(Lines), NEW l \in Lines
  PROVE  BytesOf(Append(s, l)) = BytesOf(s) + l.bytes
<1> DEFINE t == Append(s, l)
<1>1. /\ t \in Seq(Lines) /\ Len(t) = Len(s) + 1 /\ t[Len(s) + 1] = l
      /\ \A k \in 1..Len(s) : s[k] = t[k]
      /\ Len(s) \in Nat
  OBVIOUS
<1> HIDE DEF t
<1>2. PICK G : Running(G, s) /\ BytesOf(s) = G[Len(s)]
  BY BytesAreRunning
<1>3. PICK H : Running(H, t) /\ BytesOf(t) = H[Len(t)]
  BY <1>1, BytesAreRunning
<1>4. G[Len(s)] = H[Len(s)]
  BY <1>1, <1>2, <1>3, RunningAgree
<1>5. H[Len(t)] = H[Len(s)] + l.bytes
  <2>1. Len(t) \in 1..Len(t) /\ Len(t) - 1 = Len(s)
    BY <1>1
  <2> QED
    BY <1>1, <1>3, <2>1 DEF Running
<1> QED
  BY <1>2, <1>3, <1>4, <1>5 DEF t

\* Front takes the last element of a sequence away.
LEMMA FrontOf ==
  ASSUME NEW S, NEW s \in Seq(S), s # <<>>
  PROVE  /\ Len(s) \in Nat \ {0} /\ Front(s) \in Seq(S)
         /\ Len(Front(s)) = Len(s) - 1 /\ DOMAIN Front(s) = 1..(Len(s) - 1)
         /\ \A k \in 1..(Len(s) - 1) : Front(s)[k] = s[k]
         /\ Append(Front(s), Last(s)) = s /\ Last(s) \in S
<1> DEFINE f == Front(s)
<1>1. Len(s) \in Nat \ {0} /\ s[Len(s)] \in S /\ Last(s) = s[Len(s)]
  BY DEF Last
<1>2. 0 \in Nat /\ Len(s) - 1 \in Nat /\ 0 <= Len(s) - 1 /\ Len(s) - 1 <= Len(s)
  BY <1>1
<1>3. f = SubSeq(s, 0 + 1, Len(s) - 1)
  BY DEF Front
<1> HIDE DEF f
<1>4. /\ f \in Seq(S)
      /\ Len(f) = (Len(s) - 1) - 0
      /\ \A k \in 1..((Len(s) - 1) - 0) : f[k] = s[0 + k]
  <2> DEFINE zero == 0
             n == Len(s) - 1
  <2>1. zero \in Nat /\ n \in Nat /\ zero <= n /\ n <= Len(s) /\ f = SubSeq(s, zero + 1, n)
    BY <1>2, <1>3
  <2> HIDE DEF zero, n
  <2>2. /\ f \in Seq(S) /\ Len(f) = n - zero
        /\ \A k \in 1..(n - zero) : f[k] = s[zero + k]
    BY <2>1, SubSeqOf
  <2> QED
    BY <2>2 DEF zero, n
<1>5. Len(f) = Len(s) - 1 /\ \A k \in 1..(Len(s) - 1) : f[k] = s[k]
  <2>1. (Len(s) - 1) - 0 = Len(s) - 1
    BY <1>1
  <2>2. \A k \in 1..(Len(s) - 1) : 0 + k = k
    OBVIOUS
  <2> QED
    BY <1>4, <2>1, <2>2, Zenon
<1>6. Append(f, s[Len(s)]) = s
  <2> DEFINE g == Append(f, s[Len(s)])
  <2>1. g \in Seq(S) /\ Len(g) = Len(s)
    BY <1>1, <1>4, <1>5
  <2>2. \A k \in 1..Len(s) : g[k] = s[k]
    BY <1>1, <1>4, <1>5
  <2> QED
    BY <2>1, <2>2, SeqEqual
<1>7. DOMAIN f = 1..(Len(s) - 1)
  BY <1>4, <1>5
<1> QED
  BY <1>1, <1>4, <1>5, <1>6, <1>7 DEF f

\* Taking the last line away does not make a file longer.
LEMMA BytesOfFront ==
  ASSUME NEW s \in Seq(Lines), s # <<>>
  PROVE  Front(s) \in Seq(Lines) /\ BytesOf(Front(s)) <= BytesOf(s)
<1>1. /\ Front(s) \in Seq(Lines) /\ Last(s) \in Lines
      /\ Append(Front(s), Last(s)) = s
  BY FrontOf
<1>2. BytesOf(s) = BytesOf(Front(s)) + Last(s).bytes
  BY <1>1, BytesOfAppend
<1>3. BytesOf(Front(s)) \in Nat /\ Last(s).bytes \in Nat
  BY <1>1, BytesOfType DEF Lines
<1> QED
  BY <1>1, <1>2, <1>3

-----------------------------------------------------------------------------
(* The process that holds the lock, and the file it appends to             *)

Places == {"down", "ready", "remove", "shift", "rename", "reopen", "append"}

SinkTypeOK ==
  /\ disk \in [Files -> Seq(Lines) \cup {Absent}]
  /\ lock \in Procs \cup {Nobody}
  /\ pc \in [Procs -> Places]
  /\ size \in [Procs -> Nat]
  /\ line \in [Procs -> Lines \cup {NoLine}]
  /\ index \in [Procs -> Int]
  /\ landed \in Seq(Lines)
  /\ issued \in Nat /\ rotations \in Nat /\ cut \in Nat /\ failures \in Nat

\* A process beyond "down" holds the lock, has a line that fits in hand while
\* it writes, knows the size of the active file, and leaves the archive it
\* is about to move a free place.
OwnerOK(p) ==
  /\ pc[p] # "down" <=> lock = p
  /\ pc[p] \in {"remove", "shift", "rename", "reopen", "append"} =>
       line[p] \in Lines /\ line[p].whole /\ line[p].bytes <= max_bytes
  /\ pc[p] \in {"ready", "append", "remove", "shift", "rename"} => Exists(0)
  /\ pc[p] = "reopen" => ~Exists(0)
  /\ pc[p] = "shift" => index[p] \in 1..(max_files - 1) /\ ~Exists(index[p] + 1)
  /\ pc[p] = "rename" => ~Exists(1)
  /\ pc[p] \in {"ready", "append"} => size[p] = BytesOf(disk[0])
  /\ pc[p] = "append" => size[p] + line[p].bytes <= max_bytes

OwnerInv == \A p \in Procs : OwnerOK(p)

\* While the lock is held, the active file does not end in a torn line.
TailInv == lock # Nobody /\ Exists(0) => ~EndsTorn(disk[0])

SinkInv == SinkTypeOK /\ OwnerInv /\ TailInv

\* The files a process works on.
LEMMA FilesAreThere ==
  /\ 0 \in Files /\ 1 \in Files /\ max_files \in Files
  /\ \A i \in 1..(max_files - 1) : i \in Files /\ i + 1 \in Files
  /\ \A i \in Files : i \in 0..max_files /\ i \in Nat
  /\ Absent \notin Seq(Lines)
BY SinkAssumption DEF Files

\* One process at a time is beyond "down".
LEMMA OthersAreDown ==
  ASSUME SinkInv, NEW p \in Procs, pc[p] # "down"
  PROVE  lock = p /\ lock # Nobody /\ \A q \in Procs \ {p} : pc[q] = "down"
BY SinkAssumption DEF SinkInv, OwnerInv, OwnerOK

\* A step of the process that holds the lock, or takes it, concerns it alone.
LEMMA OneActs ==
  ASSUME SinkInv, NEW p \in Procs, lock \in {p, Nobody}, lock' = p,
         \A q \in Procs \ {p} : pc'[q] = pc[q], OwnerOK(p)'
  PROVE  OwnerInv'
<1> SUFFICES ASSUME NEW q \in Procs \ {p} PROVE OwnerOK(q)'
  BY DEF OwnerInv
<1>1. pc[q] = "down" /\ pc'[q] = pc[q]
  BY SinkAssumption DEF SinkInv, SinkTypeOK, OwnerInv, OwnerOK
<1> QED
  BY <1>1 DEF OwnerOK

\* Releasing the sink leaves nothing to keep, whatever happened to the files.
LEMMA ReleaseKeeps ==
  ASSUME SinkInv, NEW p \in Procs, pc[p] # "down", Release(p),
         disk' \in [Files -> Seq(Lines) \cup {Absent}],
         landed' \in Seq(Lines),
         issued' \in Nat, rotations' \in Nat, cut' \in Nat, failures' \in Nat
  PROVE  SinkInv'
<1>1. SinkTypeOK'
  BY DEF SinkInv, SinkTypeOK, Release, Places
<1>2. \A q \in Procs : pc'[q] = "down" /\ lock' # q
  BY OthersAreDown, SinkAssumption DEF Release, SinkInv, SinkTypeOK
<1>3. OwnerInv'
  BY <1>2 DEF OwnerInv, OwnerOK
<1>4. TailInv'
  BY DEF TailInv, Release
<1> QED
  BY <1>1, <1>3, <1>4 DEF SinkInv

\* The file-system effect of an operation keeps the types of the files.
LEMMA EffectType ==
  ASSUME SinkInv, NEW p \in Procs, Rotating(p) \/ pc[p] = "append"
  PROVE  Effect(p) \in [Files -> Seq(Lines) \cup {Absent}]
<1> USE FilesAreThere DEF SinkInv, SinkTypeOK
<1>1. CASE pc[p] = "remove"
  BY <1>1 DEF Effect
<1>2. CASE pc[p] = "shift"
  <2>1. index[p] \in Files /\ index[p] + 1 \in Files
    BY <1>2 DEF OwnerInv, OwnerOK
  <2> QED
    BY <1>2, <2>1 DEF Effect, Move
<1>3. CASE pc[p] = "rename"
  BY <1>3 DEF Effect, Move
<1>4. CASE pc[p] = "reopen"
  BY <1>4 DEF Effect
<1>5. CASE pc[p] = "append"
  <2>1. disk[0] \in Seq(Lines) /\ line[p] \in Lines
    BY <1>5 DEF OwnerInv, OwnerOK, Exists
  <2>2. Append(disk[0], line[p]) \in Seq(Lines)
    BY <2>1
  <2>3. Effect(p) = [disk EXCEPT ![0] = Append(disk[0], line[p])]
    BY <1>5 DEF Effect
  <2> QED
    BY <2>2, <2>3
<1> QED
  BY <1>1, <1>2, <1>3, <1>4, <1>5 DEF Rotating

\* A machine starts with no process and nothing torn.
LEMMA SinkInit == Init => SinkInv
BY FilesAreThere, SinkAssumption
   DEF Init, SinkInv, SinkTypeOK, OwnerInv, OwnerOK, TailInv, Places, NoLine

\* Opening the log takes the lock and learns the size of the file that is there.
LEMMA OpenKeeps ==
  ASSUME SinkInv, NEW p \in Procs, open(p)
  PROVE  SinkInv'
<1> USE FilesAreThere DEF open, acquire_lock, open_log
<1>1. disk' \in [Files -> Seq(Lines) \cup {Absent}] /\ disk'[0] \in Seq(Lines)
  BY DEF SinkInv, SinkTypeOK, Exists
<1>2. BytesOf(disk'[0]) \in Nat
  BY <1>1, BytesOfType
<1>3. SinkTypeOK'
  BY <1>1, <1>2 DEF SinkInv, SinkTypeOK, Places
<1>4. OwnerOK(p)'
  BY <1>1 DEF SinkInv, SinkTypeOK, OwnerOK, Exists
<1>5. OwnerInv'
  <2>1. lock \in {p, Nobody} /\ lock' = p /\ \A q \in Procs \ {p} : pc'[q] = pc[q]
    BY DEF SinkInv, SinkTypeOK
  <2> QED
    BY <1>4, <2>1, OneActs
<1>6. TailInv'
  BY <1>1 DEF SinkInv, SinkTypeOK, TailInv, Usable, Exists, EndsTorn
<1> QED
  BY <1>3, <1>5, <1>6 DEF SinkInv

\* A line that fits is taken in hand; the active file is there.
LEMMA WriteKeeps ==
  ASSUME SinkInv, NEW p \in Procs, NEW n \in Sizes, write(p, n)
  PROVE  SinkInv'
<1> USE FilesAreThere DEF write
<1>1. n \in Nat \ {0} /\ max_bytes \in Nat
  BY SinkAssumption
<1>2. issued' \in Nat
  BY DEF SinkInv, SinkTypeOK
<1>3. line'[p] \in Lines /\ line'[p].whole /\ line'[p].bytes = n
  BY <1>1, <1>2 DEF SinkInv, SinkTypeOK, Lines
<1>4. SinkTypeOK'
  BY <1>2, <1>3 DEF SinkInv, SinkTypeOK, Places
<1>5. lock = p /\ Exists(0) /\ size[p] = BytesOf(disk[0]) /\ size[p] \in Nat
  BY DEF SinkInv, SinkTypeOK, OwnerInv, OwnerOK
<1>6. pc'[p] = "append" => size[p] + n <= max_bytes
  BY <1>1, <1>5 DEF MustRotate, SinkInv, SinkTypeOK
<1>7. pc'[p] \in {"remove", "append"}
  BY DEF SinkInv, SinkTypeOK
<1>8. OwnerOK(p)'
  BY <1>3, <1>5, <1>6, <1>7 DEF OwnerOK, Exists
<1>9. OwnerInv'
  <2>1. lock \in {p, Nobody} /\ lock' = p /\ \A q \in Procs \ {p} : pc'[q] = pc[q]
    BY <1>5 DEF SinkInv, SinkTypeOK
  <2> QED
    BY <1>8, <2>1, OneActs
<1>10. TailInv'
  BY DEF SinkInv, TailInv, Exists
<1> QED
  BY <1>4, <1>9, <1>10 DEF SinkInv

\* The loop of rotate starts, or goes on, below a place that is free.
LEMMA ToShiftKeeps ==
  ASSUME SinkInv, NEW p \in Procs, Rotating(p), pc[p] # "reopen",
         NEW i \in 0..(max_files - 1), ToShift(p, i),
         disk' \in [Files -> Seq(Lines) \cup {Absent}],
         disk'[i + 1] = Absent, disk'[0] = disk[0],
         UNCHANGED <<lock, size, line, issued, landed, rotations, cut, failures>>
  PROVE  SinkInv'
<1>1. SinkTypeOK'
  BY SinkAssumption DEF SinkInv, SinkTypeOK, ToShift, Places
<1>2. /\ lock = p /\ Exists(0)
      /\ line[p] \in Lines /\ line[p].whole /\ line[p].bytes <= max_bytes
  BY DEF SinkInv, OwnerInv, OwnerOK, Rotating
<1>3. /\ index'[p] = i
      /\ pc'[p] = IF i >= 1 THEN "shift" ELSE "rename"
  BY DEF SinkInv, SinkTypeOK, ToShift
<1>4. OwnerOK(p)'
  <2>1. CASE i >= 1
    <3>1. i \in 1..(max_files - 1) /\ pc'[p] = "shift"
      BY <1>3, <2>1, SinkAssumption
    <3> QED
      BY <1>2, <1>3, <3>1 DEF OwnerOK, Exists
  <2>2. CASE ~(i >= 1)
    <3>1. i + 1 = 1 /\ pc'[p] = "rename"
      BY <1>3, <2>2, SinkAssumption
    <3> QED
      BY <1>2, <1>3, <3>1 DEF OwnerOK, Exists
  <2> QED
    BY <2>1, <2>2
<1>5. OwnerInv'
  <2>1. lock \in {p, Nobody} /\ lock' = p /\ \A q \in Procs \ {p} : pc'[q] = pc[q]
    BY <1>2 DEF SinkInv, SinkTypeOK, ToShift
  <2> QED
    BY <1>4, <2>1, OneActs
<1>6. TailInv'
  BY DEF SinkInv, TailInv, Exists
<1> QED
  BY <1>1, <1>5, <1>6 DEF SinkInv

\* The oldest archive goes, and with it the place of the last shift is free.
LEMMA RemoveKeeps ==
  ASSUME SinkInv, NEW p \in Procs, RemoveOldest(p)
  PROVE  SinkInv'
<1> USE FilesAreThere DEF RemoveOldest
<1>1. Rotating(p) /\ pc[p] # "reopen"
  BY DEF Rotating
<1>2. disk' \in [Files -> Seq(Lines) \cup {Absent}]
  BY <1>1, EffectType
<1>3. FirstShift \in 0..(max_files - 1) /\ FirstShift + 1 = max_files /\ max_files # 0
  BY SinkAssumption DEF FirstShift
<1>4. disk'[FirstShift + 1] = Absent /\ disk'[0] = disk[0]
  BY <1>3 DEF SinkInv, SinkTypeOK, Effect
<1> QED
  BY <1>1, <1>2, <1>3, <1>4, ToShiftKeeps

\* What the shift of archive i leaves: its place is free.
LEMMA ShiftFrees ==
  ASSUME SinkInv, NEW p \in Procs, pc[p] = "shift"
  PROVE  /\ index[p] \in 1..(max_files - 1)
         /\ Effect(p)[index[p]] = Absent
         /\ Effect(p)[0] = disk[0]
<1>1. index[p] \in 1..(max_files - 1) /\ ~Exists(index[p] + 1)
  BY DEF SinkInv, OwnerInv, OwnerOK
<1>2. /\ index[p] \in Files /\ index[p] + 1 \in Files
      /\ index[p] # 0 /\ index[p] + 1 # 0 /\ index[p] # index[p] + 1
  BY <1>1, FilesAreThere
<1>3. Effect(p) = IF Exists(index[p])
                    THEN [disk EXCEPT ![index[p] + 1] = disk[index[p]], ![index[p]] = Absent]
                    ELSE disk
  BY DEF Effect, Move
<1>4. Effect(p)[index[p]] = Absent
  BY <1>2, <1>3 DEF SinkInv, SinkTypeOK, Exists
<1>5. Effect(p)[0] = disk[0]
  BY <1>2, <1>3, FilesAreThere DEF SinkInv, SinkTypeOK
<1> QED
  BY <1>1, <1>4, <1>5

\* Shifting an archive keeps a place free below it.
LEMMA ShiftKeeps ==
  ASSUME SinkInv, NEW p \in Procs, ShiftArchive(p)
  PROVE  SinkInv'
<1> USE DEF ShiftArchive
<1>1. Rotating(p) /\ pc[p] # "reopen"
  BY DEF Rotating
<1>2. disk' \in [Files -> Seq(Lines) \cup {Absent}]
  BY <1>1, EffectType
<1>3. index[p] \in 1..(max_files - 1) /\ disk'[index[p]] = Absent /\ disk'[0] = disk[0]
  BY ShiftFrees
<1>4. index[p] - 1 \in 0..(max_files - 1) /\ (index[p] - 1) + 1 = index[p]
  BY <1>3, SinkAssumption
<1> QED
  BY <1>1, <1>2, <1>3, <1>4, ToShiftKeeps

\* The active file becomes the newest archive, whose place was free.
LEMMA RenameKeeps ==
  ASSUME SinkInv, NEW p \in Procs, RenameActive(p)
  PROVE  SinkInv'
<1> USE FilesAreThere DEF RenameActive
<1>1. disk' \in [Files -> Seq(Lines) \cup {Absent}]
  BY EffectType DEF Rotating
<1>2. disk'[0] = Absent
  BY DEF Effect, Move, SinkInv, SinkTypeOK
<1>3. SinkTypeOK'
  BY <1>1 DEF SinkInv, SinkTypeOK, Places
<1>4. lock = p /\ line[p] \in Lines /\ line[p].whole /\ line[p].bytes <= max_bytes
  BY DEF SinkInv, OwnerInv, OwnerOK
<1>5. pc'[p] = "reopen"
  BY DEF SinkInv, SinkTypeOK
<1>6. OwnerOK(p)'
  BY <1>2, <1>4, <1>5 DEF OwnerOK, Exists
<1>7. OwnerInv'
  <2>1. lock \in {p, Nobody} /\ lock' = p /\ \A q \in Procs \ {p} : pc'[q] = pc[q]
    BY <1>4 DEF SinkInv, SinkTypeOK
  <2> QED
    BY <1>6, <2>1, OneActs
<1>8. TailInv'
  BY <1>2 DEF TailInv, Exists
<1> QED
  BY <1>3, <1>7, <1>8 DEF SinkInv

\* A new active file is empty, and the line in hand fits.
LEMMA ReopenKeeps ==
  ASSUME SinkInv, NEW p \in Procs, Reopen(p)
  PROVE  SinkInv'
<1> USE FilesAreThere DEF Reopen
<1>1. disk' \in [Files -> Seq(Lines) \cup {Absent}]
  BY EffectType DEF Rotating
<1>2. disk'[0] = <<>> /\ disk'[0] # Absent
  <2>1. disk'[0] = <<>>
    BY DEF Effect, SinkInv, SinkTypeOK
  <2>2. <<>> \in Seq(Lines)
    OBVIOUS
  <2> QED
    BY <2>1, <2>2
<1>3. SinkTypeOK'
  BY <1>1 DEF SinkInv, SinkTypeOK, Places
<1>4. lock = p /\ line[p] \in Lines /\ line[p].whole /\ line[p].bytes <= max_bytes
  BY DEF SinkInv, OwnerInv, OwnerOK
<1>5. pc'[p] = "append" /\ size'[p] = 0
  BY DEF SinkInv, SinkTypeOK
<1>6. BytesOf(disk'[0]) = 0
  <2>1. <<>> \in Seq(Lines)
    OBVIOUS
  <2>2. BytesOf(<<>>) = 0
    BY <2>1, BytesOfType
  <2> QED
    BY <1>2, <2>2
<1>7. line[p].bytes \in Nat
  BY <1>4 DEF Lines
<1>8. OwnerOK(p)'
  BY <1>2, <1>4, <1>5, <1>6, <1>7 DEF OwnerOK, Exists
<1>9. OwnerInv'
  <2>1. lock \in {p, Nobody} /\ lock' = p /\ \A q \in Procs \ {p} : pc'[q] = pc[q]
    BY <1>4 DEF SinkInv, SinkTypeOK
  <2> QED
    BY <1>8, <2>1, OneActs
<1>10. TailInv'
  BY <1>2 DEF TailInv, EndsTorn
<1> QED
  BY <1>3, <1>9, <1>10 DEF SinkInv

\* The line lands whole, and its bytes are counted.
LEMMA AppendKeeps ==
  ASSUME SinkInv, NEW p \in Procs, AppendLine(p)
  PROVE  SinkInv'
<1> USE FilesAreThere DEF AppendLine
<1>1. disk' \in [Files -> Seq(Lines) \cup {Absent}]
  BY EffectType
<1>2. /\ lock = p /\ line[p] \in Lines /\ line[p].whole
      /\ disk[0] \in Seq(Lines) /\ size[p] = BytesOf(disk[0])
  BY DEF SinkInv, SinkTypeOK, OwnerInv, OwnerOK, Exists
<1>3. disk'[0] = Append(disk[0], line[p]) /\ landed' = Append(landed, line[p])
  BY DEF Effect, SinkInv, SinkTypeOK
<1>4. disk'[0] \in Seq(Lines) /\ landed' \in Seq(Lines)
  BY <1>2, <1>3 DEF SinkInv, SinkTypeOK
<1>5. size'[p] = BytesOf(disk'[0])
  <2>1. size'[p] = size[p] + line[p].bytes
    BY DEF SinkInv, SinkTypeOK
  <2> QED
    BY <1>2, <1>3, <2>1, BytesOfAppend
<1>6. SinkTypeOK'
  <2>1. size[p] + line[p].bytes \in Nat
    BY <1>2 DEF SinkInv, SinkTypeOK, Lines
  <2> QED
    BY <1>1, <1>4, <2>1 DEF SinkInv, SinkTypeOK, Places
<1>7. OwnerOK(p)'
  <2>1. pc'[p] = "ready"
    BY DEF SinkInv, SinkTypeOK
  <2> QED
    BY <1>2, <1>4, <1>5, <2>1 DEF OwnerOK, Exists
<1>8. OwnerInv'
  <2>1. lock \in {p, Nobody} /\ lock' = p /\ \A q \in Procs \ {p} : pc'[q] = pc[q]
    BY <1>2 DEF SinkInv, SinkTypeOK
  <2> QED
    BY <1>7, <2>1, OneActs
<1>9. TailInv'
  <2>1. Append(disk[0], line[p])[Len(Append(disk[0], line[p]))] = line[p]
    BY <1>2
  <2> QED
    BY <1>2, <1>3, <2>1 DEF TailInv, EndsTorn, Last
<1> QED
  BY <1>6, <1>8, <1>9 DEF SinkInv

\* A failure, before, in or after the operation under way, releases the sink.
LEMMA FailureKeeps ==
  ASSUME SinkInv, NEW p \in Procs, FailBefore(p) \/ FailAfter(p) \/ FailTorn(p)
  PROVE  SinkInv'
<1> USE FilesAreThere
<1>1. pc[p] # "down" /\ Release(p)
  BY DEF FailBefore, FailAfter, FailTorn, Fails, Rotating
<1>2. cut' \in Nat /\ failures' \in Nat /\ issued' \in Nat /\ rotations' \in Nat
  <2>1. cut \in Nat /\ failures \in Nat /\ issued \in Nat /\ rotations \in Nat
    BY DEF SinkInv, SinkTypeOK
  <2>2. cut' \in {cut, cut + 1} /\ failures' = failures + 1
    BY DEF FailBefore, FailAfter, FailTorn, Fails
  <2>3. issued' = issued /\ rotations' \in {rotations, rotations + 1}
    BY DEF FailBefore, FailAfter, FailTorn
  <2> QED
    BY <2>1, <2>2, <2>3
<1>3. disk' \in [Files -> Seq(Lines) \cup {Absent}]
  <2>1. CASE FailBefore(p)
    BY <2>1 DEF FailBefore, SinkInv, SinkTypeOK
  <2>2. CASE FailAfter(p)
    BY <2>2, EffectType DEF FailAfter
  <2>3. CASE FailTorn(p)
    <3>1. PICK n \in 1..(line[p].bytes - 1) :
            disk' = [disk EXCEPT ![0] =
                       Append(disk[0], [line[p] EXCEPT !.bytes = n, !.whole = FALSE])]
      BY <2>3 DEF FailTorn
    <3>2. disk[0] \in Seq(Lines) /\ line[p] \in Lines
      BY <2>3 DEF FailTorn, SinkInv, SinkTypeOK, OwnerInv, OwnerOK, Exists
    <3>3. [line[p] EXCEPT !.bytes = n, !.whole = FALSE] \in Lines
      <4>1. n \in Nat \ {0}
        BY <3>2 DEF Lines
      <4> QED
        BY <3>2, <4>1 DEF Lines
    <3>4. Append(disk[0], [line[p] EXCEPT !.bytes = n, !.whole = FALSE]) \in Seq(Lines)
      BY <3>2, <3>3
    <3> QED
      BY <3>1, <3>4 DEF SinkInv, SinkTypeOK
  <2> QED
    BY <2>1, <2>2, <2>3
<1>4. landed' \in Seq(Lines)
  <2>1. pc[p] = "append" => Append(landed, line[p]) \in Seq(Lines)
    BY DEF SinkInv, SinkTypeOK, OwnerInv, OwnerOK
  <2> QED
    BY <2>1 DEF FailBefore, FailAfter, FailTorn, SinkInv, SinkTypeOK
<1> QED
  BY <1>1, <1>2, <1>3, <1>4, ReleaseKeeps

\* The operator works on a log that no process has open.
LEMMA RepairKeeps ==
  ASSUME SinkInv, Repair
  PROVE  SinkInv'
<1> USE FilesAreThere DEF Repair
<1>1. disk' \in [Files -> Seq(Lines) \cup {Absent}]
  <2>1. disk[0] \in Seq(Lines) /\ disk[0] # <<>>
    BY DEF SinkInv, SinkTypeOK, Exists, EndsTorn
  <2>2. Front(disk[0]) \in Seq(Lines)
    BY <2>1, BytesOfFront
  <2> QED
    BY <2>2 DEF SinkInv, SinkTypeOK
<1>2. \A q \in Procs : pc[q] = "down"
  BY SinkAssumption DEF SinkInv, OwnerInv, OwnerOK
<1>3. SinkTypeOK'
  BY <1>1 DEF SinkInv, SinkTypeOK
<1>4. OwnerInv'
  BY <1>2, SinkAssumption DEF OwnerInv, OwnerOK
<1> QED
  BY <1>3, <1>4 DEF SinkInv, TailInv

\* Types, owners and the torn tail are kept by every step.
LEMMA SinkKept ==
  ASSUME SinkInv, [Next]_vars
  PROVE  SinkInv'
<1>1. CASE UNCHANGED vars
  BY <1>1 DEF vars, SinkInv, SinkTypeOK, OwnerInv, OwnerOK, TailInv, Exists
<1>2. ASSUME NEW p \in Procs, Close(p)
      PROVE  SinkInv'
  BY <1>2, ReleaseKeeps DEF Close, SinkInv, SinkTypeOK
<1>3. ASSUME NEW p \in Procs, NEW n \in Sizes, TooLong(p, n)
      PROVE  SinkInv'
  <2>1. pc[p] # "down" /\ Release(p)
    BY <1>3 DEF TooLong
  <2>2. disk' = disk /\ landed' = landed /\ issued' = issued + 1
        /\ rotations' = rotations /\ cut' = cut /\ failures' = failures
    BY <1>3 DEF TooLong
  <2> QED
    BY <2>1, <2>2, ReleaseKeeps DEF SinkInv, SinkTypeOK
<1>4. ASSUME NEW p \in Procs, RemoveOldest(p) \/ ShiftArchive(p) \/ RenameActive(p)
             \/ Reopen(p) \/ AppendLine(p)
      PROVE  SinkInv'
  BY <1>4, RemoveKeeps, ShiftKeeps, RenameKeeps, ReopenKeeps, AppendKeeps
<1>5. ASSUME NEW p \in Procs, open(p) \/ \E n \in Sizes : write(p, n)
      PROVE  SinkInv'
  BY <1>5, OpenKeeps, WriteKeeps
<1>6. ASSUME NEW p \in Procs, FailBefore(p) \/ FailAfter(p) \/ FailTorn(p)
      PROVE  SinkInv'
  BY <1>6, FailureKeeps
<1>7. CASE Repair
  BY <1>7, RepairKeeps
<1> QED
  BY <1>1, <1>2, <1>3, <1>4, <1>5, <1>6, <1>7 DEF Next

-----------------------------------------------------------------------------
(* What a step does to the files                                           *)

Stays == disk' = disk /\ landed' = landed

Creates == ~Exists(0) /\ disk' = [disk EXCEPT ![0] = <<>>] /\ landed' = landed

Drops == disk' = [disk EXCEPT ![max_files] = Absent] /\ landed' = landed

\* A file moves to a free place, and not with a torn line.
Moves(i) ==
  /\ Exists(i) /\ ~Exists(i + 1)
  /\ i = 0 => ~EndsTorn(disk[0])
  /\ disk' = Move(i, i + 1)
  /\ landed' = landed

\* A line, or a part of one, is written after a whole one, and fits.
Adds(l) ==
  /\ Exists(0) /\ ~EndsTorn(disk[0])
  /\ l \in Lines /\ BytesOf(disk[0]) + l.bytes <= max_bytes
  /\ disk' = [disk EXCEPT ![0] = Append(disk[0], l)]

Grows(l) == Adds(l) /\ l.whole /\ landed' = Append(landed, l)

Tears(l) == Adds(l) /\ ~l.whole /\ landed' = landed

Repairs ==
  /\ Exists(0) /\ EndsTorn(disk[0])
  /\ disk' = [disk EXCEPT ![0] = Front(disk[0])]
  /\ landed' = landed

FileStep ==
  \/ Stays
  \/ Creates
  \/ Drops
  \/ \E i \in 0..(max_files - 1) : Moves(i)
  \/ \E l \in Lines : Grows(l) \/ Tears(l)
  \/ Repairs

\* The operation under way, whether or not its caller sees its end.
LEMMA EffectIsFileStep ==
  ASSUME SinkInv, NEW p \in Procs, Rotating(p) \/ pc[p] = "append", disk' = Effect(p),
         landed' = IF pc[p] = "append" THEN Append(landed, line[p]) ELSE landed
  PROVE  FileStep
<1> USE FilesAreThere
<1>1. CASE pc[p] = "remove"
  BY <1>1 DEF Effect, FileStep, Drops
<1>2. CASE pc[p] = "shift"
  <2>1. index[p] \in 1..(max_files - 1) /\ ~Exists(index[p] + 1)
    BY <1>2 DEF SinkInv, OwnerInv, OwnerOK
  <2>2. index[p] # 0 /\ index[p] \in 0..(max_files - 1)
    BY <2>1, SinkAssumption
  <2>3. CASE Exists(index[p])
    <3>1. Moves(index[p])
      BY <1>2, <2>1, <2>2, <2>3 DEF Effect, Moves
    <3> QED
      BY <2>2, <3>1 DEF FileStep
  <2>4. CASE ~Exists(index[p])
    BY <1>2, <2>4 DEF Effect, FileStep, Stays
  <2> QED
    BY <2>3, <2>4
<1>3. CASE pc[p] = "rename"
  <2>1. Exists(0) /\ ~Exists(1) /\ ~EndsTorn(disk[0])
    BY <1>3, SinkAssumption DEF SinkInv, OwnerInv, OwnerOK, TailInv
  <2>2. 0 + 1 = 1 /\ 0 \in 0..(max_files - 1)
    BY SinkAssumption
  <2>3. Moves(0)
    BY <1>3, <2>1, <2>2 DEF Effect, Moves
  <2> QED
    BY <2>2, <2>3 DEF FileStep
<1>4. CASE pc[p] = "reopen"
  <2>1. ~Exists(0)
    BY <1>4 DEF SinkInv, OwnerInv, OwnerOK
  <2> QED
    BY <1>4, <2>1 DEF Effect, FileStep, Creates
<1>5. CASE pc[p] = "append"
  <2>1. /\ Exists(0) /\ ~EndsTorn(disk[0])
        /\ line[p] \in Lines /\ line[p].whole
        /\ BytesOf(disk[0]) + line[p].bytes <= max_bytes
    BY <1>5, SinkAssumption DEF SinkInv, OwnerInv, OwnerOK, TailInv
  <2>2. Grows(line[p])
    BY <1>5, <2>1 DEF Effect, Grows, Adds
  <2> QED
    BY <2>1, <2>2 DEF FileStep
<1> QED
  BY <1>1, <1>2, <1>3, <1>4, <1>5 DEF Rotating

\* Part of the line in hand fits as well.
LEMMA TornIsFileStep ==
  ASSUME SinkInv, NEW p \in Procs, FailTorn(p)
  PROVE  FileStep
<1>1. /\ Exists(0) /\ ~EndsTorn(disk[0])
      /\ line[p] \in Lines /\ line[p].whole
      /\ disk[0] \in Seq(Lines)
      /\ BytesOf(disk[0]) + line[p].bytes <= max_bytes
  BY SinkAssumption, FilesAreThere
     DEF FailTorn, SinkInv, SinkTypeOK, OwnerInv, OwnerOK, TailInv, Exists
<1>2. PICK n \in 1..(line[p].bytes - 1) :
        disk' = [disk EXCEPT ![0] =
                   Append(disk[0], [line[p] EXCEPT !.bytes = n, !.whole = FALSE])]
  BY DEF FailTorn
<1> DEFINE l == [line[p] EXCEPT !.bytes = n, !.whole = FALSE]
<1>3. n \in Nat \ {0} /\ n < line[p].bytes /\ line[p].bytes \in Nat
  BY <1>1 DEF Lines
<1>4. l \in Lines /\ ~l.whole /\ l.bytes = n
  BY <1>1, <1>3 DEF Lines
<1>5. BytesOf(disk[0]) + l.bytes <= max_bytes
  BY <1>1, <1>3, <1>4, BytesOfType, SinkAssumption
<1>6. disk' = [disk EXCEPT ![0] = Append(disk[0], l)] /\ landed' = landed
  BY <1>2 DEF FailTorn
<1> HIDE DEF l
<1>7. Tears(l)
  BY <1>1, <1>4, <1>5, <1>6 DEF Tears, Adds
<1> QED
  BY <1>4, <1>7 DEF FileStep

\* What a step can do to the files, whichever process takes it.
LEMMA FileSteps ==
  ASSUME SinkInv, [Next]_vars
  PROVE  FileStep
<1>1. CASE UNCHANGED vars
  BY <1>1 DEF vars, FileStep, Stays
<1>2. ASSUME NEW p \in Procs, open(p)
      PROVE  FileStep
  BY <1>2 DEF open, open_log, FileStep, Stays, Creates
<1>3. ASSUME NEW p \in Procs, Close(p) \/ FailBefore(p)
      PROVE  FileStep
  BY <1>3 DEF Close, FailBefore, FileStep, Stays
<1>4. ASSUME NEW p \in Procs, NEW n \in Sizes, write(p, n) \/ TooLong(p, n)
      PROVE  FileStep
  BY <1>4 DEF write, TooLong, FileStep, Stays
<1>5. ASSUME NEW p \in Procs, RemoveOldest(p) \/ ShiftArchive(p) \/ RenameActive(p)
             \/ Reopen(p) \/ AppendLine(p)
      PROVE  FileStep
  <2>1. Rotating(p) \/ pc[p] = "append"
    BY <1>5 DEF RemoveOldest, ShiftArchive, RenameActive, Reopen, AppendLine, Rotating
  <2>2. disk' = Effect(p)
    BY <1>5 DEF RemoveOldest, ShiftArchive, RenameActive, Reopen, AppendLine
  <2>3. landed' = IF pc[p] = "append" THEN Append(landed, line[p]) ELSE landed
    BY <1>5 DEF RemoveOldest, ShiftArchive, RenameActive, Reopen, AppendLine
  <2> QED
    BY <2>1, <2>2, <2>3, EffectIsFileStep
<1>6. ASSUME NEW p \in Procs, FailAfter(p)
      PROVE  FileStep
  BY <1>6, EffectIsFileStep DEF FailAfter
<1>7. CASE Repair
  BY <1>7 DEF Repair, FileStep, Repairs
<1> QED
  BY <1>1, <1>2, <1>3, <1>4, <1>5, <1>6, <1>7, TornIsFileStep DEF Next

-----------------------------------------------------------------------------
(* The size of every file, and where a line may be torn                    *)

FilesInv ==
  /\ \A i \in Files : Exists(i) => BytesOf(disk[i]) <= max_bytes
  /\ TornOnlyAtEnd

\* Every such step keeps the size of the files and tears only the active one.
LEMMA FilesKept ==
  ASSUME SinkTypeOK, FilesInv, FileStep
  PROVE  FilesInv'
<1> USE FilesAreThere
<1>1. CASE Stays
  BY <1>1 DEF Stays, FilesInv, TornOnlyAtEnd, Exists
<1>2. CASE Creates
  <2>1. /\ disk'[0] = <<>>
        /\ \A i \in Files \ {0} : disk'[i] = disk[i]
    BY <1>2 DEF Creates, SinkTypeOK
  <2>2. <<>> \in Seq(Lines) /\ BytesOf(<<>>) <= max_bytes /\ DOMAIN <<>> = {}
    <3>1. <<>> \in Seq(Lines) /\ DOMAIN <<>> = {}
      OBVIOUS
    <3>2. BytesOf(<<>>) = 0
      BY <3>1, BytesOfType
    <3> QED
      BY <3>1, <3>2, SinkAssumption
  <2> QED
    BY <2>1, <2>2 DEF FilesInv, TornOnlyAtEnd, Exists
<1>3. CASE Drops
  BY <1>3 DEF Drops, SinkTypeOK, FilesInv, TornOnlyAtEnd, Exists
<1>4. ASSUME NEW i \in 0..(max_files - 1), Moves(i) PROVE FilesInv'
  <2>1. i \in Files /\ i + 1 \in Files /\ i # i + 1 /\ i + 1 # 0
    BY SinkAssumption DEF Files
  <2>2. /\ disk'[i] = Absent /\ disk'[i + 1] = disk[i]
        /\ \A j \in Files \ {i, i + 1} : disk'[j] = disk[j]
    BY <1>4, <2>1 DEF Moves, Move, SinkTypeOK
  <2>3. disk[i] \in Seq(Lines) /\ \A k \in DOMAIN disk[i] : disk[i][k].whole
    <3>1. disk[i] \in Seq(Lines)
      BY <1>4, <2>1 DEF Moves, Exists, SinkTypeOK
    <3>2. ASSUME NEW k \in DOMAIN disk[i], ~disk[i][k].whole PROVE FALSE
      <4>1. i = 0 /\ k = Len(disk[0])
        BY <1>4, <2>1, <3>2 DEF FilesInv, TornOnlyAtEnd, Moves
      <4>2. disk[0] # <<>>
        BY <3>1, <3>2, <4>1
      <4> QED
        BY <1>4, <3>2, <4>1, <4>2 DEF Moves, EndsTorn, Last
    <3> QED
      BY <3>1, <3>2
  <2>4. \A j \in Files : Exists(j)' => BytesOf(disk'[j]) <= max_bytes
    BY <1>4, <2>1, <2>2 DEF FilesInv, Exists, Moves
  <2>5. TornOnlyAtEnd'
    BY <2>1, <2>2, <2>3 DEF FilesInv, TornOnlyAtEnd, Exists
  <2> QED
    BY <2>4, <2>5 DEF FilesInv
<1>5. ASSUME NEW l \in Lines, Adds(l) PROVE FilesInv'
  <2>1. /\ disk'[0] = Append(disk[0], l)
        /\ \A j \in Files \ {0} : disk'[j] = disk[j]
    BY <1>5 DEF Adds, SinkTypeOK
  <2>2. disk[0] \in Seq(Lines) /\ \A k \in DOMAIN disk[0] : disk[0][k].whole
    <3>1. disk[0] \in Seq(Lines)
      BY <1>5 DEF Adds, Exists, SinkTypeOK
    <3>2. ASSUME NEW k \in DOMAIN disk[0], ~disk[0][k].whole PROVE FALSE
      <4>1. k = Len(disk[0])
        BY <1>5, <3>2 DEF FilesInv, TornOnlyAtEnd, Adds
      <4>2. disk[0] # <<>>
        BY <3>1, <3>2, <4>1
      <4> QED
        BY <1>5, <3>2, <4>1, <4>2 DEF Adds, EndsTorn, Last
    <3> QED
      BY <3>1, <3>2
  <2>3. BytesOf(disk'[0]) <= max_bytes
    BY <1>5, <2>1, <2>2, BytesOfAppend DEF Adds
  <2>4. \A k \in DOMAIN disk'[0] : ~disk'[0][k].whole => k = Len(disk'[0])
    <3>1. /\ DOMAIN disk'[0] = 1..(Len(disk[0]) + 1)
          /\ Len(disk'[0]) = Len(disk[0]) + 1
          /\ DOMAIN disk[0] = 1..Len(disk[0]) /\ Len(disk[0]) \in Nat
          /\ \A k \in 1..Len(disk[0]) : disk'[0][k] = disk[0][k]
      <4> DEFINE d == disk[0]
      <4>1. d \in Seq(Lines)
        BY <2>2
      <4> HIDE DEF d
      <4>2. /\ DOMAIN Append(d, l) = 1..(Len(d) + 1) /\ Len(Append(d, l)) = Len(d) + 1
            /\ DOMAIN d = 1..Len(d) /\ Len(d) \in Nat
            /\ \A k \in 1..Len(d) : Append(d, l)[k] = d[k]
        BY <4>1
      <4> QED
        BY <2>1, <4>2 DEF d
    <3>2. ASSUME NEW k \in 1..(Len(disk[0]) + 1), ~disk'[0][k].whole
          PROVE  k = Len(disk[0]) + 1
      <4>1. k \notin 1..Len(disk[0])
        BY <2>2, <3>1, <3>2
      <4> QED
        BY <3>1, <4>1
    <3> QED
      BY <3>1, <3>2
  <2> QED
    BY <2>1, <2>3, <2>4 DEF FilesInv, TornOnlyAtEnd, Exists
<1>6. CASE Repairs
  <2>1. /\ disk'[0] = Front(disk[0])
        /\ \A j \in Files \ {0} : disk'[j] = disk[j]
        /\ disk[0] \in Seq(Lines) /\ disk[0] # <<>> /\ Exists(0)
    BY <1>6 DEF Repairs, Exists, EndsTorn, SinkTypeOK
  <2>2. /\ Front(disk[0]) \in Seq(Lines)
        /\ BytesOf(Front(disk[0])) <= BytesOf(disk[0])
        /\ BytesOf(Front(disk[0])) \in Nat /\ BytesOf(disk[0]) \in Nat
    <3>1. Front(disk[0]) \in Seq(Lines) /\ BytesOf(Front(disk[0])) <= BytesOf(disk[0])
      BY <2>1, BytesOfFront
    <3> QED
      BY <2>1, <3>1, BytesOfType
  <2>3. BytesOf(disk'[0]) <= max_bytes
    <3>1. BytesOf(disk[0]) <= max_bytes
      BY <2>1 DEF FilesInv
    <3> QED
      BY <2>1, <2>2, <3>1, SinkAssumption
  <2>4. \A k \in DOMAIN disk'[0] : disk'[0][k].whole
    <3>1. /\ Len(disk[0]) \in Nat \ {0}
          /\ DOMAIN disk'[0] = 1..(Len(disk[0]) - 1)
          /\ \A k \in 1..(Len(disk[0]) - 1) : disk'[0][k] = disk[0][k]
      <4> DEFINE s == disk[0]
      <4>1. s \in Seq(Lines) /\ s # <<>>
        BY <2>1
      <4> HIDE DEF s
      <4>2. /\ Len(s) \in Nat \ {0}
            /\ DOMAIN Front(s) = 1..(Len(s) - 1)
            /\ \A k \in 1..(Len(s) - 1) : Front(s)[k] = s[k]
        BY <4>1, FrontOf
      <4>3. disk'[0] = Front(s)
        BY <2>1 DEF s
      <4> QED
        BY <4>2, <4>3 DEF s
    <3>2. \A k \in 1..(Len(disk[0]) - 1) : k \in DOMAIN disk[0] /\ k # Len(disk[0])
      BY <2>1, <3>1
    <3> QED
      BY <2>1, <3>1, <3>2 DEF FilesInv, TornOnlyAtEnd
  <2> QED
    BY <2>1, <2>3, <2>4 DEF FilesInv, TornOnlyAtEnd, Exists
<1> QED
  BY <1>1, <1>2, <1>3, <1>4, <1>5, <1>6 DEF FileStep, Grows, Tears

-----------------------------------------------------------------------------
(* What is on disk is a run of the lines that landed, up to the last       *)

Bounds == 0..(max_files + 1)

\* File i holds the landed lines from b[i + 1] + 1 to b[i].
Cuts(b) ==
  /\ b \in [Bounds -> 0..Len(landed)]
  /\ b[0] = Len(landed)
  /\ \A i, j \in Bounds : i <= j => b[j] <= b[i]
  /\ \A i \in Files : Content(i) = SubSeq(landed, b[i + 1] + 1, b[i])

Chain == \E b : Cuts(b)

\* Files and bounds.
LEMMA BoundsOfFiles ==
  /\ \A i \in Files : i \in Bounds /\ i + 1 \in Bounds
  /\ 0 \in Bounds /\ max_files + 1 \in Bounds
  /\ \A j \in Bounds : j \in Nat /\ j <= max_files + 1
BY SinkAssumption DEF Files, Bounds

\* What each step on the files does to what they hold.
LEMMA ContentSteps ==
  ASSUME SinkTypeOK, FilesInv
  PROVE  /\ Stays \/ Creates \/ Repairs \/ (\E l \in Lines : Tears(l)) =>
              (\A j \in Files : Content(j)' = Content(j)) /\ landed' = landed
         /\ Drops =>
              /\ Content(max_files)' = <<>> /\ landed' = landed
              /\ \A j \in Files \ {max_files} : Content(j)' = Content(j)
         /\ \A i \in 0..(max_files - 1) : Moves(i) =>
              /\ Content(i + 1) = <<>> /\ Content(i)' = <<>>
              /\ Content(i + 1)' = Content(i) /\ landed' = landed
              /\ \A j \in Files \ {i, i + 1} : Content(j)' = Content(j)
         /\ \A l \in Lines : Grows(l) =>
              /\ Content(0)' = Append(Content(0), l) /\ landed' = Append(landed, l)
              /\ \A j \in Files \ {0} : Content(j)' = Content(j)
<1> USE FilesAreThere
<1>0. <<>> \in Seq(Lines)
  OBVIOUS
<1>1. ASSUME Stays PROVE (\A j \in Files : Content(j)' = Content(j)) /\ landed' = landed
  BY <1>1 DEF Stays, Content, Exists
<1>2. ASSUME Creates PROVE (\A j \in Files : Content(j)' = Content(j)) /\ landed' = landed
  <2>1. disk'[0] = <<>> /\ \A j \in Files \ {0} : disk'[j] = disk[j]
    BY <1>2 DEF Creates, SinkTypeOK
  <2>2. Content(0) = <<>>
    BY <1>2 DEF Creates, Content
  <2>3. Content(0)' = <<>>
    BY <1>0, <2>1 DEF Content, Exists, EndsTorn
  <2>4. \A j \in Files \ {0} : Content(j)' = Content(j)
    BY <2>1 DEF Content, Exists
  <2> QED
    BY <1>2, <2>2, <2>3, <2>4 DEF Creates
<1>3. ASSUME Repairs PROVE (\A j \in Files : Content(j)' = Content(j)) /\ landed' = landed
  <2> DEFINE s == disk[0]
  <2>1. /\ disk'[0] = Front(s) /\ \A j \in Files \ {0} : disk'[j] = disk[j]
        /\ s \in Seq(Lines) /\ s # <<>> /\ Exists(0) /\ EndsTorn(s)
    BY <1>3 DEF Repairs, SinkTypeOK, Exists, EndsTorn
  <2>2. Content(0) = Front(s)
    BY <2>1 DEF Content
  <2>3. \A k \in DOMAIN s : ~s[k].whole => k = Len(s)
    BY <2>1 DEF FilesInv, TornOnlyAtEnd
  <2> HIDE DEF s
  <2>4. /\ Front(s) \in Seq(Lines) /\ Len(s) \in Nat \ {0} /\ Len(Front(s)) = Len(s) - 1
        /\ \A k \in 1..(Len(s) - 1) : Front(s)[k] = s[k]
    BY <2>1, FrontOf
  <2>5. ~EndsTorn(Front(s))
    <3> SUFFICES ASSUME Front(s) # <<>> PROVE Last(Front(s)).whole
      BY DEF EndsTorn
    <3>1. Len(s) - 1 \in 1..(Len(s) - 1) /\ Len(s) - 1 \in DOMAIN s /\ Len(s) - 1 # Len(s)
      BY <2>1, <2>4
    <3> QED
      BY <2>3, <2>4, <3>1 DEF Last
  <2>6. Content(0)' = Front(s)
    BY <2>1, <2>4, <2>5 DEF Content, Exists
  <2>7. \A j \in Files \ {0} : Content(j)' = Content(j)
    BY <2>1 DEF Content, Exists
  <2> QED
    BY <1>3, <2>2, <2>6, <2>7 DEF Repairs
<1>4. ASSUME NEW l \in Lines, Adds(l)
      PROVE  /\ \A j \in Files \ {0} : Content(j)' = Content(j)
             /\ Content(0)' = IF l.whole THEN Append(Content(0), l) ELSE Content(0)
  <2> DEFINE s == disk[0]
             t == Append(s, l)
  <2>1. /\ disk'[0] = t /\ \A j \in Files \ {0} : disk'[j] = disk[j]
        /\ s \in Seq(Lines) /\ Exists(0) /\ ~EndsTorn(s)
    BY <1>4 DEF Adds, SinkTypeOK, Exists
  <2>2. /\ t \in Seq(Lines) /\ t # <<>> /\ Last(t) = l
    BY <2>1 DEF Last
  <2>3. Front(t) = s
    <3>1. /\ Front(t) \in Seq(Lines) /\ Len(Front(t)) = Len(t) - 1
          /\ \A k \in 1..(Len(t) - 1) : Front(t)[k] = t[k]
      <4> HIDE DEF t
      <4> QED
        BY <2>2, FrontOf
    <3>2. Len(t) = Len(s) + 1 /\ Len(s) \in Nat /\ \A k \in 1..Len(s) : t[k] = s[k]
      BY <2>1
    <3> HIDE DEF t
    <3>3. Len(Front(t)) = Len(s) /\ \A k \in 1..Len(s) : Front(t)[k] = s[k]
      BY <3>1, <3>2
    <3> QED
      BY <2>1, <3>1, <3>3, SeqEqual
  <2>4. Content(0) = s
    BY <2>1 DEF Content
  <2>5. Content(0)' = IF l.whole THEN t ELSE Front(t)
    BY <2>1, <2>2 DEF Content, Exists, EndsTorn
  <2>6. \A j \in Files \ {0} : Content(j)' = Content(j)
    BY <2>1 DEF Content, Exists
  <2> QED
    BY <2>3, <2>4, <2>5, <2>6
<1>5. ASSUME Drops
      PROVE  /\ Content(max_files)' = <<>>
             /\ \A j \in Files \ {max_files} : Content(j)' = Content(j)
  <2>1. disk'[max_files] = Absent /\ \A j \in Files \ {max_files} : disk'[j] = disk[j]
    BY <1>5 DEF Drops, SinkTypeOK
  <2> QED
    BY <2>1 DEF Content, Exists
<1>6. ASSUME NEW i \in 0..(max_files - 1), Moves(i)
      PROVE  /\ Content(i + 1) = <<>> /\ Content(i)' = <<>>
             /\ Content(i + 1)' = Content(i)
             /\ \A j \in Files \ {i, i + 1} : Content(j)' = Content(j)
  <2>1. i \in Files /\ i + 1 \in Files /\ i # i + 1 /\ i + 1 # 0
    BY SinkAssumption DEF Files
  <2>2. /\ disk'[i] = Absent /\ disk'[i + 1] = disk[i]
        /\ \A j \in Files \ {i, i + 1} : disk'[j] = disk[j]
    BY <1>6, <2>1 DEF Moves, Move, SinkTypeOK
  <2> QED
    BY <1>6, <2>1, <2>2 DEF Content, Exists, Moves
<1> QED
  BY <1>1, <1>2, <1>3, <1>4, <1>5, <1>6 DEF Grows, Tears, Drops, Moves

\* What a run of landed lines is when another line lands.
LEMMA SubSeqOfAppend ==
  ASSUME NEW s \in Seq(Lines), NEW l \in Lines, NEW m \in Nat, NEW n \in Nat,
         m <= n, n <= Len(s)
  PROVE  /\ SubSeq(Append(s, l), m + 1, n) = SubSeq(s, m + 1, n)
         /\ SubSeq(Append(s, l), m + 1, Len(s) + 1) = Append(SubSeq(s, m + 1, Len(s)), l)
<1> DEFINE t == Append(s, l)
<1>1. /\ t \in Seq(Lines) /\ Len(t) = Len(s) + 1 /\ t[Len(s) + 1] = l
      /\ \A k \in 1..Len(s) : t[k] = s[k]
      /\ Len(s) \in Nat
  OBVIOUS
<1> HIDE DEF t
<1>2. SubSeq(t, m + 1, n) = SubSeq(s, m + 1, n)
  <2> DEFINE a == SubSeq(t, m + 1, n)
             c == SubSeq(s, m + 1, n)
  <2>1. a \in Seq(Lines) /\ Len(a) = n - m /\ \A k \in 1..(n - m) : a[k] = t[m + k]
    BY <1>1, SubSeqOf
  <2>2. c \in Seq(Lines) /\ Len(c) = n - m /\ \A k \in 1..(n - m) : c[k] = s[m + k]
    BY <1>1, SubSeqOf
  <2> HIDE DEF a, c
  <2>3. \A k \in 1..(n - m) : a[k] = c[k]
    <3> TAKE k \in 1..(n - m)
    <3>1. m + k \in 1..Len(s)
      BY <1>1
    <3> QED
      BY <1>1, <2>1, <2>2, <3>1
  <2>4. a = c
    BY <2>1, <2>2, <2>3, SeqEqual
  <2> QED
    BY <2>4 DEF a, c
<1>3. SubSeq(t, m + 1, Len(s) + 1) = Append(SubSeq(s, m + 1, Len(s)), l)
  <2> DEFINE a == SubSeq(t, m + 1, Len(s) + 1)
             c == SubSeq(s, m + 1, Len(s))
             d == Append(c, l)
  <2>0. m <= Len(s) /\ m <= Len(s) + 1 /\ Len(s) + 1 \in Nat /\ Len(s) + 1 <= Len(t)
    BY <1>1
  <2>1. /\ a \in Seq(Lines) /\ Len(a) = (Len(s) + 1) - m
        /\ \A k \in 1..((Len(s) + 1) - m) : a[k] = t[m + k]
    <3> DEFINE n1 == Len(s) + 1
    <3>1. n1 \in Nat /\ m <= n1 /\ n1 <= Len(t)
      BY <2>0
    <3> HIDE DEF n1
    <3>2. /\ SubSeq(t, m + 1, n1) \in Seq(Lines)
          /\ Len(SubSeq(t, m + 1, n1)) = n1 - m
          /\ \A k \in 1..(n1 - m) : SubSeq(t, m + 1, n1)[k] = t[m + k]
      BY <1>1, <3>1, SubSeqOf
    <3> QED
      BY <3>2 DEF n1
  <2>2. c \in Seq(Lines) /\ Len(c) = Len(s) - m /\ \A k \in 1..(Len(s) - m) : c[k] = s[m + k]
    BY <1>1, <2>0, SubSeqOf
  <2> HIDE DEF a, c
  <2>3. d \in Seq(Lines) /\ Len(d) = Len(a)
    BY <1>1, <2>0, <2>1, <2>2
  <2>4. \A k \in 1..Len(a) : a[k] = d[k]
    <3> TAKE k \in 1..Len(a)
    <3>1. CASE k = Len(a)
      BY <1>1, <2>0, <2>1, <2>2, <3>1
    <3>2. CASE k # Len(a)
      <4>0. Len(a) = (Len(s) + 1) - m
        BY <2>1
      <4>1. k \in 1..(Len(s) - m) /\ m + k \in 1..Len(s)
        BY <1>1, <2>0, <3>2, <4>0
      <4>2. a[k] = t[m + k] /\ c[k] = s[m + k] /\ t[m + k] = s[m + k]
        BY <1>1, <2>1, <2>2, <4>0, <4>1
      <4>3. d[k] = c[k]
        BY <2>2, <4>1
      <4> QED
        BY <4>2, <4>3
    <3> QED
      BY <3>1, <3>2
  <2> HIDE DEF d
  <2>5. a = d
    BY <2>1, <2>3, <2>4, SeqEqual
  <2> QED
    BY <2>5 DEF a, c, d
<1> QED
  BY <1>2, <1>3 DEF t

\* Every such step keeps the files a chain of what has landed.
LEMMA ChainKept ==
  ASSUME SinkTypeOK, FilesInv, Chain, FileStep
  PROVE  Chain'
<1> USE FilesAreThere, BoundsOfFiles
<1>0. PICK b : Cuts(b)
  BY DEF Chain
<1>1. /\ landed \in Seq(Lines) /\ Len(landed) \in Nat
      /\ b \in [Bounds -> 0..Len(landed)] /\ b[0] = Len(landed)
      /\ \A i, j \in Bounds : i <= j => b[j] <= b[i]
      /\ \A i \in Files : Content(i) = SubSeq(landed, b[i + 1] + 1, b[i])
      /\ \A i \in Bounds : b[i] \in Nat /\ b[i] <= Len(landed)
  <2>1. landed \in Seq(Lines) /\ Len(landed) \in Nat
    BY DEF SinkTypeOK
  <2>2. \A i \in Bounds : b[i] \in 0..Len(landed)
    BY <1>0 DEF Cuts
  <2>3. \A i \in Bounds : b[i] \in Nat /\ b[i] <= Len(landed)
    BY <2>1, <2>2
  <2>4. /\ b \in [Bounds -> 0..Len(landed)] /\ b[0] = Len(landed)
        /\ \A i, j \in Bounds : i <= j => b[j] <= b[i]
        /\ \A i \in Files : Content(i) = SubSeq(landed, b[i + 1] + 1, b[i])
    BY <1>0, Zenon DEF Cuts
  <2> QED
    BY <2>1, <2>3, <2>4, Zenon
<1>2. CASE Stays \/ Creates \/ Repairs \/ \E l \in Lines : Tears(l)
  <2>1. (\A j \in Files : Content(j)' = Content(j)) /\ landed' = landed
    BY <1>2, ContentSteps
  <2>2. Cuts(b)'
    BY <1>0, <2>1 DEF Cuts
  <2> QED
    BY <2>2 DEF Chain
<1>3. CASE Drops
  <2> DEFINE c == [b EXCEPT ![max_files + 1] = b[max_files]]
  <2>1. /\ Content(max_files)' = <<>> /\ landed' = landed
        /\ \A j \in Files \ {max_files} : Content(j)' = Content(j)
    BY <1>3, ContentSteps
  <2>2. /\ max_files \in Nat /\ max_files + 1 # max_files /\ max_files + 1 # 0
        /\ \A j \in Files \ {max_files} : j + 1 # max_files + 1 /\ j # max_files + 1
        /\ \A i \in Bounds : i # max_files + 1 => i <= max_files
        /\ max_files \in Bounds
    BY SinkAssumption DEF Bounds
  <2>3. /\ c[max_files + 1] = b[max_files]
        /\ \A i \in Bounds : i # max_files + 1 => c[i] = b[i]
        /\ c \in [Bounds -> 0..Len(landed)]
    BY <1>1
  <2> HIDE DEF c
  <2>4. \A i, j \in Bounds : i <= j => c[j] <= c[i]
    <3> SUFFICES ASSUME NEW i \in Bounds, NEW j \in Bounds, i <= j PROVE c[j] <= c[i]
      OBVIOUS
    <3>1. CASE i = max_files + 1
      <4>1. j = max_files + 1
        BY <2>2, <3>1
      <4> QED
        BY <1>1, <2>2, <2>3, <3>1, <4>1
    <3>2. CASE i # max_files + 1 /\ j = max_files + 1
      BY <1>1, <2>2, <2>3, <3>2
    <3>3. CASE i # max_files + 1 /\ j # max_files + 1
      BY <1>1, <2>3, <3>3
    <3> QED
      BY <3>1, <3>2, <3>3
  <2>5. SubSeq(landed, b[max_files] + 1, b[max_files]) = <<>>
    BY <1>1, <2>2, SubSeqEmpty
  <2>6. \A i \in Files : Content(i)' = SubSeq(landed, c[i + 1] + 1, c[i])
    BY <1>1, <2>1, <2>2, <2>3, <2>5
  <2>7. Cuts(c)'
    BY <1>1, <2>1, <2>2, <2>3, <2>4, <2>6 DEF Cuts
  <2> QED
    BY <2>7 DEF Chain
<1>4. ASSUME NEW k \in 0..(max_files - 1), Moves(k) PROVE Chain'
  <2> DEFINE c == [b EXCEPT ![k + 1] = b[k]]
  <2>1. /\ Content(k + 1) = <<>> /\ Content(k)' = <<>>
        /\ Content(k + 1)' = Content(k) /\ landed' = landed
        /\ \A j \in Files \ {k, k + 1} : Content(j)' = Content(j)
    BY <1>4, ContentSteps
  <2>2. /\ k \in Files /\ k + 1 \in Files /\ k + 1 # 0 /\ k # k + 1
        /\ k \in Bounds /\ k + 1 \in Bounds /\ k + 2 \in Bounds
        /\ (k + 1) + 1 = k + 2 /\ k + 2 # k + 1
        /\ \A j \in Files \ {k, k + 1} : j # k + 1 /\ j + 1 # k + 1
        /\ \A j \in Bounds : j <= k + 1 /\ j # k + 1 => j <= k
        /\ k + 1 <= k + 2 /\ k <= k + 1
    BY SinkAssumption DEF Files, Bounds
  <2>3. /\ c[k + 1] = b[k]
        /\ \A i \in Bounds : i # k + 1 => c[i] = b[i]
        /\ c \in [Bounds -> 0..Len(landed)]
    BY <1>1, <2>2
  <2> HIDE DEF c
  <2>4. b[k + 2] = b[k + 1]
    <3>1. SubSeq(landed, b[k + 2] + 1, b[k + 1]) = <<>>
      BY <1>1, <2>1, <2>2
    <3> DEFINE m == b[k + 2]
               n == b[k + 1]
    <3>2. m <= n /\ n <= Len(landed) /\ m \in Nat /\ n \in Nat
      BY <1>1, <2>2
    <3>3. SubSeq(landed, m + 1, n) = <<>>
      BY <3>1
    <3> HIDE DEF m, n
    <3>4. Len(SubSeq(landed, m + 1, n)) = n - m
      BY <1>1, <3>2, SubSeqOf
    <3>5. m = n
      <4>1. Len(<<>>) = 0
        OBVIOUS
      <4>2. n - m = 0
        BY <3>3, <3>4, <4>1, Zenon
      <4> QED
        BY <3>2, <4>2
    <3> QED
      BY <3>5 DEF m, n
  <2>5. \A i, j \in Bounds : i <= j => c[j] <= c[i]
    <3> SUFFICES ASSUME NEW i \in Bounds, NEW j \in Bounds, i <= j PROVE c[j] <= c[i]
      OBVIOUS
    <3>1. CASE i = k + 1
      <4>1. j = k + 1 \/ (j # k + 1 /\ k <= j)
        BY <2>2, <3>1
      <4> QED
        BY <1>1, <2>2, <2>3, <3>1, <4>1
    <3>2. CASE i # k + 1 /\ j = k + 1
      BY <1>1, <2>2, <2>3, <3>2
    <3>3. CASE i # k + 1 /\ j # k + 1
      BY <1>1, <2>3, <3>3
    <3> QED
      BY <3>1, <3>2, <3>3
  <2>6. SubSeq(landed, b[k] + 1, b[k]) = <<>>
    <3>0. b[k] \in Nat
      BY <1>1, <2>2
    <3> HIDE FilesAreThere, BoundsOfFiles
    <3>1. b[k] + 1 \in Int /\ b[k] \in Int /\ b[k] < b[k] + 1
      BY <3>0
    <3> QED
      BY <3>1, SubSeqEmpty
  <2>7. Content(k)' = SubSeq(landed, c[k + 1] + 1, c[k])
    BY <2>1, <2>2, <2>3, <2>6
  <2>8. Content(k + 1)' = SubSeq(landed, c[(k + 1) + 1] + 1, c[k + 1])
    BY <1>1, <2>1, <2>2, <2>3, <2>4
  <2>9. \A i \in Files : Content(i)' = SubSeq(landed, c[i + 1] + 1, c[i])
    <3> TAKE i \in Files
    <3>1. CASE i \in {k, k + 1}
      BY <2>7, <2>8, <3>1
    <3>2. CASE i \notin {k, k + 1}
      BY <1>1, <2>1, <2>2, <2>3, <3>2
    <3> QED
      BY <3>1, <3>2
  <2>10. c[0] = Len(landed)
    BY <1>1, <2>2, <2>3
  <2>11. Cuts(c)'
    BY <2>1, <2>3, <2>5, <2>9, <2>10 DEF Cuts
  <2> QED
    BY <2>11 DEF Chain
<1>5. ASSUME NEW l \in Lines, Grows(l) PROVE Chain'
  <2>0. PICK n \in Nat : n = Len(landed) + 1
    BY <1>1
  <2> DEFINE c == [b EXCEPT ![0] = n]
  <2>1. /\ Content(0)' = Append(Content(0), l) /\ landed' = Append(landed, l)
        /\ \A j \in Files \ {0} : Content(j)' = Content(j)
    BY <1>5, ContentSteps
  <2>2. Len(landed') = Len(landed) + 1
    BY <1>1, <2>1
  <2>3. /\ c[0] = Len(landed) + 1
        /\ \A i \in Bounds : i # 0 => c[i] = b[i]
        /\ c \in [Bounds -> 0..Len(landed')]
    BY <1>1, <2>0, <2>2
  <2> HIDE DEF c
  <2>4. \A i, j \in Bounds : i <= j => c[j] <= c[i]
    <3> SUFFICES ASSUME NEW i \in Bounds, NEW j \in Bounds, i <= j PROVE c[j] <= c[i]
      OBVIOUS
    <3>0. i \in Nat /\ j \in Nat /\ (i # 0 => j # 0)
      <4>1. i \in Nat /\ j \in Nat
        OBVIOUS
      <4> QED
        BY <4>1
    <3>1. CASE i = 0
      <4>1. c[i] = Len(landed) + 1
        BY <2>3, <3>1
      <4>2. c[j] = Len(landed) + 1 \/ c[j] = b[j]
        BY <2>3
      <4>3. b[j] \in Nat /\ b[j] <= Len(landed)
        BY <1>1
      <4>4. Len(landed) \in Nat
        BY <1>1
      <4> HIDE FilesAreThere, BoundsOfFiles
      <4> QED
        BY <4>1, <4>2, <4>3, <4>4
    <3>2. CASE i # 0
      BY <1>1, <2>3, <3>0, <3>2
    <3> QED
      BY <3>1, <3>2
  <2>5. Content(0)' = SubSeq(landed', c[0 + 1] + 1, c[0])
    <3>1. 1 \in Bounds /\ 0 + 1 = 1 /\ 1 # 0
      BY SinkAssumption DEF Bounds
    <3>2. Content(0) = SubSeq(landed, b[1] + 1, Len(landed)) /\ c[1] = b[1]
      BY <1>1, <2>3, <3>1
    <3>3. b[1] \in Nat /\ b[1] <= Len(landed)
      BY <1>1, <3>1
    <3>4. SubSeq(Append(landed, l), b[1] + 1, Len(landed) + 1)
            = Append(SubSeq(landed, b[1] + 1, Len(landed)), l)
      <4> DEFINE m == b[1]
      <4>1. m \in Nat /\ m <= Len(landed) /\ Len(landed) <= Len(landed)
        BY <1>1, <3>3
      <4> HIDE DEF m
      <4>2. SubSeq(Append(landed, l), m + 1, Len(landed) + 1)
              = Append(SubSeq(landed, m + 1, Len(landed)), l)
        BY <1>1, <4>1, SubSeqOfAppend
      <4> QED
        BY <4>2 DEF m
    <3> QED
      BY <2>1, <2>3, <3>1, <3>2, <3>4
  <2>6. ASSUME NEW i \in Files \ {0}
        PROVE  Content(i)' = SubSeq(landed', c[i + 1] + 1, c[i])
    <3>0. i \in Nat /\ i \in Bounds /\ i + 1 \in Bounds /\ i # 0
      BY <2>6
    <3>1. i \in Bounds /\ i + 1 \in Bounds /\ i # 0 /\ i + 1 # 0 /\ i <= i + 1
      BY <3>0
    <3>2. b[i] \in Nat /\ b[i + 1] \in Nat /\ b[i + 1] <= b[i] /\ b[i] <= Len(landed)
      BY <1>1, <3>1
    <3>3. SubSeq(Append(landed, l), b[i + 1] + 1, b[i]) = SubSeq(landed, b[i + 1] + 1, b[i])
      <4> DEFINE m == b[i + 1]
                 k == b[i]
      <4>1. m \in Nat /\ k \in Nat /\ m <= k /\ k <= Len(landed)
        BY <3>2
      <4> HIDE DEF m, k
      <4>2. landed \in Seq(Lines) /\ l \in Lines
        BY <1>1
      <4> HIDE FilesAreThere, BoundsOfFiles
      <4>3. SubSeq(Append(landed, l), m + 1, k) = SubSeq(landed, m + 1, k)
        BY <4>1, <4>2, SubSeqOfAppend
      <4> QED
        BY <4>3 DEF m, k
    <3> QED
      BY <1>1, <2>1, <2>3, <3>1, <3>3
  <2>7. \A i \in Files : Content(i)' = SubSeq(landed', c[i + 1] + 1, c[i])
    <3> TAKE i \in Files
    <3>1. CASE i = 0
      BY <2>5, <3>1
    <3>2. CASE i # 0
      BY <2>6, <3>2
    <3> QED
      BY <3>1, <3>2
  <2>8. c[0] = Len(landed')
    BY <2>2, <2>3
  <2> HIDE FilesAreThere, BoundsOfFiles
  <2>9. Cuts(c)'
    BY <2>3, <2>4, <2>7, <2>8 DEF Cuts
  <2> QED
    BY <2>9 DEF Chain
<1> QED
  BY <1>2, <1>3, <1>4, <1>5 DEF FileStep

\* Two adjacent runs make one.
LEMMA RunsJoin ==
  ASSUME NEW S, NEW s \in Seq(S), NEW m \in Nat, NEW n \in Nat, NEW o \in Nat,
         m <= n, n <= o, o <= Len(s)
  PROVE  SubSeq(s, m + 1, n) \o SubSeq(s, n + 1, o) = SubSeq(s, m + 1, o)
<1> DEFINE a == SubSeq(s, m + 1, n)
           c == SubSeq(s, n + 1, o)
           d == SubSeq(s, m + 1, o)
           e == a \o c
<1>0. n <= Len(s) /\ m <= o
  OBVIOUS
<1>1. a \in Seq(S) /\ Len(a) = n - m /\ \A k \in 1..(n - m) : a[k] = s[m + k]
  BY <1>0, SubSeqOf
<1>2. c \in Seq(S) /\ Len(c) = o - n /\ \A k \in 1..(o - n) : c[k] = s[n + k]
  BY <1>0, SubSeqOf
<1>3. d \in Seq(S) /\ Len(d) = o - m /\ \A k \in 1..(o - m) : d[k] = s[m + k]
  BY <1>0, SubSeqOf
<1> HIDE DEF a, c, d
<1>4. /\ e \in Seq(S) /\ Len(e) = Len(a) + Len(c)
      /\ \A k \in 1..(Len(a) + Len(c)) :
           e[k] = IF k <= Len(a) THEN a[k] ELSE c[k - Len(a)]
  BY <1>1, <1>2, ConcatProperties
<1> HIDE DEF e
<1>5. Len(e) = o - m
  BY <1>1, <1>2, <1>4
<1>6. \A k \in 1..(o - m) : e[k] = d[k]
  <2> TAKE k \in 1..(o - m)
  <2>1. k \in 1..(Len(a) + Len(c))
    BY <1>1, <1>2
  <2>2. d[k] = s[m + k]
    BY <1>3
  <2>3. CASE k <= n - m
    <3>1. k \in 1..(n - m) /\ k <= Len(a)
      BY <1>1, <2>3
    <3> QED
      BY <1>1, <1>4, <2>1, <2>2, <3>1
  <2>4. CASE ~(k <= n - m)
    <3>1. k - (n - m) \in 1..(o - n) /\ n + (k - (n - m)) = m + k
      BY <2>4
    <3>2. ~(k <= Len(a)) /\ k - Len(a) = k - (n - m)
      BY <1>1, <2>4
    <3>3. e[k] = c[k - (n - m)]
      BY <1>4, <2>1, <3>2
    <3>4. c[k - (n - m)] = s[n + (k - (n - m))]
      BY <1>2, <3>1
    <3> QED
      BY <2>2, <3>1, <3>3, <3>4
  <2> QED
    BY <2>3, <2>4
<1>7. e = d
  BY <1>3, <1>4, <1>5, <1>6, SeqEqual
<1> QED
  BY <1>7 DEF a, c, d, e

\* A run as far as the end is a suffix.
LEMMA RunIsSuffix ==
  ASSUME NEW S, NEW s \in Seq(S), NEW m \in Nat, m <= Len(s)
  PROVE  IsSuffix(SubSeq(s, m + 1, Len(s)), s)
<1> DEFINE n == Len(s)
           r == SubSeq(s, m + 1, n)
           p == Reverse(r)
           q == Reverse(s)
<1>1. n \in Nat /\ n <= Len(s)
  OBVIOUS
<1>2. /\ r \in Seq(S) /\ Len(r) = n - m
      /\ \A k \in 1..(n - m) : r[k] = s[m + k]
  BY <1>1, SubSeqOf
<1>3. p \in Seq(S) /\ Len(p) = n - m /\ \A k \in 1..(n - m) : p[k] = r[(n - m) - k + 1]
  <2> HIDE DEF r
  <2>1. n - m \in Nat
    BY <1>1
  <2>2. p = [i \in 1..(n - m) |-> r[(n - m) - i + 1]]
    BY <1>2 DEF Reverse
  <2>3. \A i \in 1..(n - m) : (n - m) - i + 1 \in 1..(n - m)
    BY <1>1
  <2>4. \A i \in 1..(n - m) : r[(n - m) - i + 1] \in S
    BY <1>2, <2>3, ElementOfSeq
  <2> HIDE DEF p
  <2> QED
    BY <2>1, <2>2, <2>4, IsASeq
<1>4. q \in Seq(S) /\ Len(q) = n /\ \A k \in 1..n : q[k] = s[n - k + 1]
  <2>2. q = [i \in 1..n |-> s[n - i + 1]]
    BY DEF Reverse
  <2>3. \A i \in 1..n : n - i + 1 \in 1..n
    BY <1>1
  <2>4. \A i \in 1..n : s[n - i + 1] \in S
    BY <2>3, ElementOfSeq
  <2> HIDE DEF q
  <2> QED
    BY <1>1, <2>2, <2>4, IsASeq
<1> HIDE DEF r, p, q
<1> DEFINE a == SubSeq(p, 0 + 1, n - m)
           c == SubSeq(q, 0 + 1, n - m)
<1>5. n - m \in Nat /\ 0 <= n - m /\ n - m <= Len(p) /\ n - m <= Len(q) /\ 0 \in Nat
  BY <1>1, <1>3, <1>4
<1>6. a \in Seq(S) /\ Len(a) = (n - m) - 0 /\ \A k \in 1..((n - m) - 0) : a[k] = p[0 + k]
  <2> DEFINE x == n - m
  <2>1. x \in Nat /\ 0 <= x /\ x <= Len(p)
    BY <1>5
  <2> HIDE DEF x
  <2>2. /\ SubSeq(p, 0 + 1, x) \in Seq(S) /\ Len(SubSeq(p, 0 + 1, x)) = x - 0
        /\ \A k \in 1..(x - 0) : SubSeq(p, 0 + 1, x)[k] = p[0 + k]
    BY <1>3, <1>5, <2>1, SubSeqOf
  <2> QED
    BY <2>2 DEF x
<1>7. c \in Seq(S) /\ Len(c) = (n - m) - 0 /\ \A k \in 1..((n - m) - 0) : c[k] = q[0 + k]
  <2> DEFINE x == n - m
  <2>1. x \in Nat /\ 0 <= x /\ x <= Len(q)
    BY <1>5
  <2> HIDE DEF x
  <2>2. /\ SubSeq(q, 0 + 1, x) \in Seq(S) /\ Len(SubSeq(q, 0 + 1, x)) = x - 0
        /\ \A k \in 1..(x - 0) : SubSeq(q, 0 + 1, x)[k] = q[0 + k]
    BY <1>4, <1>5, <2>1, SubSeqOf
  <2> QED
    BY <2>2 DEF x
<1> HIDE DEF a, c
<1>8. \A k \in 1..(n - m) : a[k] = c[k]
  <2> TAKE k \in 1..(n - m)
  <2>1. a[k] = p[k] /\ c[k] = q[k]
    BY <1>1, <1>6, <1>7
  <2>2. (n - m) - k + 1 \in 1..(n - m) /\ k \in 1..n /\ m + ((n - m) - k + 1) = n - k + 1
    BY <1>1
  <2> QED
    BY <1>2, <1>3, <1>4, <2>1, <2>2
<1>9. a = c
  <2>1. Len(a) = n - m /\ Len(c) = n - m
    BY <1>1, <1>6, <1>7
  <2> QED
    BY <1>6, <1>7, <1>8, <2>1, SeqEqual
<1>10. IsPrefix(p, q)
  <2>1. Len(p) = n - m /\ Len(p) <= Len(q) /\ 0 + 1 = 1
    BY <1>1, <1>3, <1>5
  <2> QED
    BY <1>9, <2>1 DEF IsPrefix, a, c
<1> QED
  BY <1>10 DEF IsSuffix, p, q, r

\* F is the recursion that FlattenSeq makes.
Flattens(F, s) ==
  F = [i \in 1..Len(s) |-> IF i = 1 THEN s[i] ELSE F[i - 1] \o s[i]]

\* FlattenSeq is what any solution of its recursion says.
LEMMA FlattenIs ==
  ASSUME NEW s, Len(s) \in Nat \ {0}, NEW G, Flattens(G, s)
  PROVE  FlattenSeq(s) = G[Len(s)]
<1>1. PICK F : Flattens(F, s) /\ FlattenSeq(s) = F[Len(s)]
  BY DEF FlattenSeq, Flattens
<1> DEFINE S == {k \in Nat : k \in 1..Len(s) => F[k] = G[k]}
<1>2. 0 \in S
  OBVIOUS
<1>3. ASSUME NEW k \in S PROVE k + 1 \in S
  <2> SUFFICES ASSUME k + 1 \in 1..Len(s) PROVE F[k + 1] = G[k + 1]
    BY <1>3
  <2>1. k \in Nat /\ (k + 1) - 1 = k
    BY <1>3
  <2>2. CASE k = 0
    <3>1. 1 \in 1..Len(s) /\ k + 1 = 1
      BY <2>2
    <3>2. F[1] = s[1] /\ G[1] = s[1]
      BY <1>1, <3>1, Zenon DEF Flattens
    <3> QED
      BY <3>1, <3>2
  <2>3. CASE k # 0
    <3>1. k \in 1..Len(s) /\ k + 1 # 1
      BY <2>1, <2>3
    <3>2. F[k] = G[k]
      BY <1>3, <3>1
    <3>3. F[k + 1] = F[k] \o s[k + 1] /\ G[k + 1] = G[k] \o s[k + 1]
      BY <1>1, <2>1, <3>1 DEF Flattens
    <3> QED
      BY <3>2, <3>3
  <2> QED
    BY <2>2, <2>3
<1> HIDE DEF S
<1>4. S = Nat
  <2>1. S \in SUBSET Nat
    BY DEF S
  <2> QED
    BY <2>1, <1>2, <1>3, Inductive
<1>5. F[Len(s)] = G[Len(s)]
  <2>1. Len(s) \in S /\ Len(s) \in 1..Len(s)
    BY <1>4
  <2> QED
    BY <2>1 DEF S
<1> QED
  BY <1>1, <1>5

\* Files that are a chain read, oldest first, as a suffix of what has landed.
LEMMA ChainIsSuffix ==
  ASSUME SinkTypeOK, Chain
  PROVE  RetainedIsSuffix
<1>0. PICK b : Cuts(b)
  BY DEF Chain
<1> DEFINE M == max_files + 1
           s == [k \in 1..M |-> Content(M - k)]
           G == [j \in 1..M |-> SubSeq(landed, b[M] + 1, b[M - j])]
<1>1. /\ landed \in Seq(Lines) /\ Len(landed) \in Nat
      /\ \A i \in Bounds : b[i] \in Nat /\ b[i] <= Len(landed)
      /\ b[0] = Len(landed)
  <2>1. landed \in Seq(Lines) /\ Len(landed) \in Nat
    BY DEF SinkTypeOK
  <2>2. \A i \in Bounds : b[i] \in 0..Len(landed)
    BY <1>0 DEF Cuts
  <2>3. \A i \in Bounds : b[i] \in Nat /\ b[i] <= Len(landed)
    BY <2>1, <2>2
  <2> QED
    BY <1>0, <2>1, <2>3 DEF Cuts
<1>2. M \in Nat \ {0} /\ Len(s) = M
  BY SinkAssumption
<1>3. \A j \in 1..M :
        /\ M - j \in Files /\ M - j \in Bounds /\ (M - j) + 1 \in Bounds /\ M \in Bounds
        /\ M - (j - 1) = (M - j) + 1 /\ (j = 1 => (M - j) + 1 = M)
        /\ j # 1 => j - 1 \in 1..M
  BY SinkAssumption DEF Files, Bounds
<1>4. \A j \in 1..M : s[j] = SubSeq(landed, b[(M - j) + 1] + 1, b[M - j])
  BY <1>0, <1>3 DEF Cuts
<1>5. \A j \in 1..M : G[j] = IF j = 1 THEN s[j] ELSE G[j - 1] \o s[j]
  <2> TAKE j \in 1..M
  <2>1. CASE j = 1
    BY <1>3, <1>4, <2>1
  <2>2. CASE j # 1
    <3> DEFINE x == b[M]
               y == b[(M - j) + 1]
               z == b[M - j]
    <3>1. x \in Nat /\ y \in Nat /\ z \in Nat /\ x <= y /\ y <= z /\ z <= Len(landed)
      <4>1. M - j <= (M - j) + 1 /\ (M - j) + 1 <= M
        BY <1>2
      <4> QED
        BY <1>0, <1>1, <1>3, <4>1 DEF Cuts
    <3>2. G[j - 1] = SubSeq(landed, x + 1, y) /\ G[j] = SubSeq(landed, x + 1, z)
      BY <1>3, <2>2
    <3>3. s[j] = SubSeq(landed, y + 1, z)
      BY <1>4
    <3> HIDE DEF x, y, z, s, G, M
    <3>4. SubSeq(landed, x + 1, y) \o SubSeq(landed, y + 1, z) = SubSeq(landed, x + 1, z)
      BY <1>1, <3>1, RunsJoin
    <3> QED
      BY <2>2, <3>2, <3>3, <3>4
  <2> QED
    BY <2>1, <2>2
<1>6. Flattens(G, s)
  <2>1. G = [i \in 1..M |-> IF i = 1 THEN s[i] ELSE G[i - 1] \o s[i]]
    BY <1>5
  <2> HIDE DEF G, s, M
  <2> QED
    BY <1>2, <2>1 DEF Flattens
<1>7. FlattenSeq(s) = G[M]
  <2> HIDE DEF G, s
  <2> QED
    BY <1>2, <1>6, FlattenIs
<1>8. G[M] = SubSeq(landed, b[M] + 1, Len(landed))
  <2>1. M \in 1..M /\ M - M = 0
    BY <1>2
  <2> QED
    BY <1>1, <2>1
<1>9. IsSuffix(SubSeq(landed, b[M] + 1, Len(landed)), landed)
  <2> DEFINE x == b[M]
  <2>1. x \in Nat /\ x <= Len(landed)
    <3>1. M \in Bounds
      BY BoundsOfFiles
    <3> QED
      BY <1>1, <3>1
  <2> HIDE DEF x
  <2>2. IsSuffix(SubSeq(landed, x + 1, Len(landed)), landed)
    BY <1>1, <2>1, RunIsSuffix
  <2> QED
    BY <2>2 DEF x
<1>10. Retained = FlattenSeq(s)
  <2>0. \A k \in 1..(max_files + 1) : (max_files + 1) - k = max_files + 1 - k
    BY SinkAssumption
  <2>1. s = [k \in 1..(max_files + 1) |-> Content(max_files + 1 - k)]
    BY <2>0
  <2> HIDE DEF s, M
  <2> QED
    BY <2>1, Zenon DEF Retained
<1> HIDE DEF G, s, M
<1> QED
  BY <1>7, <1>8, <1>9, <1>10 DEF RetainedIsSuffix

-----------------------------------------------------------------------------
(* How many archives are kept, and how many places below one are empty     *)

KeptIn(d) == {i \in Archives : d[i] # Absent}

HolesIn(d, k) == {j \in 1..(k - 1) : d[j] = Absent}

Least(a, b) == IF a < b THEN a ELSE b

\* Between rotations: r archives were made, c rotations were cut short.
Full(d, r, c) ==
  /\ Cardinality(KeptIn(d)) + c >= Least(r, max_files)
  /\ \A k \in KeptIn(d) : Cardinality(HolesIn(d, k)) <= c

\* Within one, which has freed place o: one archive more is on its way.
Room(d, o, r, c) ==
  /\ Cardinality(KeptIn(d)) + 1 + c >= Least(r + 1, max_files)
  /\ \A k \in KeptIn(d) :
       Cardinality(HolesIn(d, k)) <= IF k < o THEN c ELSE c + 1

Disks == [Files -> Seq(Lines) \cup {Absent}]

\* There are finitely many archives to keep, and finitely many holes below one.
LEMMA KeptIsFinite ==
  ASSUME NEW d
  PROVE  /\ IsFiniteSet(KeptIn(d)) /\ Cardinality(KeptIn(d)) \in Nat
         /\ \A k \in Nat : IsFiniteSet(HolesIn(d, k)) /\ Cardinality(HolesIn(d, k)) \in Nat
         /\ \A k \in KeptIn(d) : k \in Nat /\ Cardinality(HolesIn(d, k)) \in Nat
<1>1. 1 \in Int /\ max_files \in Int
  BY SinkAssumption
<1>2. IsFiniteSet(Archives)
  BY <1>1, FS_Interval DEF Archives
<1>3. IsFiniteSet(KeptIn(d))
  BY <1>2, FS_Subset DEF KeptIn
<1>4. ASSUME NEW k \in Nat PROVE IsFiniteSet(HolesIn(d, k))
  <2>1. k - 1 \in Int
    OBVIOUS
  <2>2. IsFiniteSet(1..(k - 1))
    BY <1>1, <2>1, FS_Interval
  <2> QED
    BY <2>2, FS_Subset DEF HolesIn
<1>5. \A k \in KeptIn(d) : k \in Nat
  BY SinkAssumption DEF KeptIn, Archives
<1> QED
  BY <1>3, <1>4, <1>5, FS_CardinalityType

\* Only the archives matter.
LEMMA SameArchives ==
  ASSUME NEW d, NEW e, \A i \in Archives : (e[i] = Absent) <=> (d[i] = Absent)
  PROVE  KeptIn(e) = KeptIn(d) /\ \A k \in KeptIn(d) : HolesIn(e, k) = HolesIn(d, k)
<1>1. \A k \in KeptIn(d) : 1..(k - 1) \subseteq Archives
  BY SinkAssumption DEF KeptIn, Archives
<1> QED
  BY <1>1 DEF KeptIn, HolesIn

\* Removing the oldest archive makes room, and loses one only when all
\* places but those of cut rotations are taken.
LEMMA DropMakesRoom ==
  ASSUME NEW d \in Disks, NEW r \in Nat, NEW c \in Nat, Full(d, r, c)
  PROVE  Room([d EXCEPT ![max_files] = Absent], max_files, r, c)
<1> DEFINE e == [d EXCEPT ![max_files] = Absent]
<1>0. max_files \in Nat \ {0} /\ max_files \in Files /\ max_files \in Archives
  BY SinkAssumption DEF Files, Archives
<1>1. /\ e[max_files] = Absent
      /\ \A i \in Archives : i # max_files => e[i] = d[i]
  BY <1>0 DEF Disks, Files, Archives
<1> HIDE DEF e
<1>2. KeptIn(e) = KeptIn(d) \ {max_files}
  BY <1>0, <1>1 DEF KeptIn
<1>3. \A k \in KeptIn(e) : k < max_files /\ HolesIn(e, k) = HolesIn(d, k)
  <2> TAKE k \in KeptIn(e)
  <2>1. k \in Archives /\ k # max_files
    BY <1>2 DEF KeptIn
  <2>2. k \in 1..max_files /\ k < max_files
    BY <1>0, <2>1 DEF Archives
  <2>3. \A j \in 1..(k - 1) : j \in Archives /\ j # max_files
    BY <1>0, <2>2 DEF Archives
  <2> QED
    BY <1>1, <2>2, <2>3 DEF HolesIn
<1>4. \A k \in KeptIn(e) :
        Cardinality(HolesIn(e, k)) <= IF k < max_files THEN c ELSE c + 1
  BY <1>2, <1>3 DEF Full
<1>5. Cardinality(KeptIn(e)) + 1 + c >= Least(r + 1, max_files)
  <2>1. CASE max_files \notin KeptIn(d)
    <3>1. KeptIn(e) = KeptIn(d)
      BY <1>2, <2>1
    <3>2. Cardinality(KeptIn(d)) \in Nat
      BY KeptIsFinite
    <3>3. Least(r + 1, max_files) <= Least(r, max_files) + 1 /\ Least(r, max_files) \in Nat
          /\ Least(r + 1, max_files) \in Nat
      BY <1>0 DEF Least
    <3> QED
      BY <3>1, <3>2, <3>3 DEF Full
  <2>2. CASE max_files \in KeptIn(d)
    <3> DEFINE K == KeptIn(e)
               H == HolesIn(d, max_files)
    <3>1. IsFiniteSet(K) /\ IsFiniteSet(H) /\ Cardinality(K) \in Nat /\ Cardinality(H) \in Nat
      BY <1>0, KeptIsFinite
    <3>2. K \cap H = {} /\ K \cup H = 1..(max_files - 1)
      <4>1. Archives = 1..max_files
        BY DEF Archives
      <4>2. \A x : x \in 1..(max_files - 1) <=> x \in 1..max_files /\ x # max_files
        BY <1>0
      <4> QED
        BY <1>2, <4>1, <4>2 DEF KeptIn, HolesIn
    <3> HIDE DEF K, H
    <3>3. Cardinality(K \cup H) = Cardinality(K) + Cardinality(H)
      BY <3>1, <3>2, FS_Union, FS_EmptySet
    <3>4. Cardinality(1..(max_files - 1)) = max_files - 1
      <4>1. 1 \in Int /\ max_files - 1 \in Int /\ (max_files - 1) - 1 + 1 = max_files - 1
            /\ (1 > max_files - 1 => max_files - 1 = 0)
        BY <1>0
      <4>2. Cardinality(1..(max_files - 1)) =
              IF 1 > max_files - 1 THEN 0 ELSE (max_files - 1) - 1 + 1
        BY <4>1, FS_Interval
      <4> QED
        BY <4>1, <4>2
    <3>5. Cardinality(H) <= c
      BY <2>2 DEF Full, H
    <3>6. Least(r + 1, max_files) <= max_files /\ Least(r + 1, max_files) \in Nat
      BY <1>0 DEF Least
    <3>7. Cardinality(K) + Cardinality(H) = max_files - 1
      BY <3>2, <3>3, <3>4
    <3> QED
      BY <1>0, <3>1, <3>5, <3>6, <3>7 DEF K
  <2> QED
    BY <2>1, <2>2
<1> QED
  BY <1>4, <1>5 DEF Room, e

\* Moving archive i to the free place above it frees place i.
LEMMA ShiftKeepsRoom ==
  ASSUME NEW d \in Disks, NEW r \in Nat, NEW c \in Nat, NEW i \in 1..(max_files - 1),
         d[i + 1] = Absent, Room(d, i + 1, r, c)
  PROVE  Room(IF d[i] # Absent THEN [d EXCEPT ![i + 1] = d[i], ![i] = Absent] ELSE d, i, r, c)
<1>0. /\ i \in Nat \ {0} /\ i + 1 \in Nat /\ i # i + 1
      /\ i \in Archives /\ i + 1 \in Archives /\ i \in Files /\ i + 1 \in Files
  BY SinkAssumption DEF Archives, Files
<1>1. \A k \in KeptIn(d) : k \in Nat /\ Cardinality(HolesIn(d, k)) \in Nat
  BY KeptIsFinite
<1>2. CASE d[i] = Absent
  <2>1. \A k \in KeptIn(d) : k # i /\ k # i + 1
    BY <1>0, <1>2 DEF KeptIn
  <2>2. \A k \in KeptIn(d) : k < i \/ ~(k < i + 1)
    BY <1>0, <1>1, <2>1
  <2>3. \A k \in KeptIn(d) :
          Cardinality(HolesIn(d, k)) <= IF k < i THEN c ELSE c + 1
    BY <1>0, <1>1, <2>2 DEF Room
  <2> QED
    BY <1>2, <2>3 DEF Room
<1>3. CASE d[i] # Absent
  <2> DEFINE e == [d EXCEPT ![i + 1] = d[i], ![i] = Absent]
  <2>1. /\ e[i] = Absent /\ e[i + 1] # Absent
        /\ \A j \in Archives : j # i /\ j # i + 1 => e[j] = d[j]
    BY <1>0, <1>3 DEF Disks, Files, Archives
  <2> HIDE DEF e
  <2>2. KeptIn(e) = (KeptIn(d) \ {i}) \cup {i + 1}
    BY <1>0, <1>3, <2>1 DEF KeptIn
  <2>3. Cardinality(KeptIn(e)) = Cardinality(KeptIn(d))
    <3>1. i \in KeptIn(d) /\ i + 1 \notin KeptIn(d)
      BY <1>0, <1>3 DEF KeptIn
    <3>2. IsFiniteSet(KeptIn(d)) /\ Cardinality(KeptIn(d)) \in Nat
      BY KeptIsFinite
    <3>3. IsFiniteSet(KeptIn(d) \ {i}) /\ Cardinality(KeptIn(d) \ {i}) = Cardinality(KeptIn(d)) - 1
      BY <3>1, <3>2, FS_RemoveElement
    <3>4. Cardinality((KeptIn(d) \ {i}) \cup {i + 1}) = Cardinality(KeptIn(d) \ {i}) + 1
      BY <3>1, <3>3, FS_AddElement
    <3> QED
      BY <2>2, <3>2, <3>3, <3>4
  <2>4. ASSUME NEW k \in KeptIn(e)
        PROVE  Cardinality(HolesIn(e, k)) <= IF k < i THEN c ELSE c + 1
    <3>1. k \in Archives /\ k \in Nat \ {0} /\ k <= max_files /\ k # i
      BY <2>1 DEF KeptIn, Archives
    <3>2. \A j \in 1..(k - 1) : j \in Archives /\ j < k
      BY <3>1, SinkAssumption DEF Archives
    <3>3. IsFiniteSet(HolesIn(d, k)) /\ Cardinality(HolesIn(d, k)) \in Nat
          /\ IsFiniteSet(HolesIn(d, i)) /\ Cardinality(HolesIn(d, i)) \in Nat
      BY <1>0, <3>1, KeptIsFinite
    <3>4. CASE k < i
      <4>1. \A j \in 1..(k - 1) : j # i /\ j # i + 1
        BY <1>0, <3>1, <3>4
      <4>2. HolesIn(e, k) = HolesIn(d, k)
        BY <2>1, <3>2, <4>1 DEF HolesIn
      <4>3. k \in KeptIn(d) /\ k < i + 1
        BY <1>0, <2>2, <3>1, <3>4
      <4> QED
        BY <3>4, <4>2, <4>3 DEF Room
    <3>5. CASE k = i + 1
      <4>1. \A j : j \in 1..(k - 1) <=> j \in 1..(i - 1) \/ j = i
        BY <1>0, <3>5
      <4>2. \A j \in 1..(i - 1) : j \in Archives /\ j # i /\ j # i + 1
        BY <1>0, <3>2, <3>5
      <4>3. HolesIn(e, k) = HolesIn(d, i) \cup {i}
        BY <2>1, <4>1, <4>2 DEF HolesIn
      <4>4. Cardinality(HolesIn(e, k)) <= Cardinality(HolesIn(d, i)) + 1
        <5>1. Cardinality(HolesIn(d, i) \cup {i}) =
                IF i \in HolesIn(d, i) THEN Cardinality(HolesIn(d, i))
                                       ELSE Cardinality(HolesIn(d, i)) + 1
          BY <3>3, FS_AddElement
        <5> QED
          BY <3>3, <4>3, <5>1
      <4>5. i \in KeptIn(d) /\ i < i + 1
        BY <1>0, <1>3 DEF KeptIn
      <4>6. Cardinality(HolesIn(d, i)) <= c
        BY <4>5 DEF Room
      <4>7. Cardinality(HolesIn(e, k)) \in Nat
        BY <3>1, KeptIsFinite
      <4>8. ~(k < i)
        BY <1>0, <3>5
      <4> QED
        BY <3>3, <4>4, <4>6, <4>7, <4>8
    <3>6. CASE k > i + 1
      <4>1. i \in 1..(k - 1) /\ i + 1 \in 1..(k - 1)
        BY <1>0, <3>1, <3>6
      <4>2. HolesIn(e, k) = (HolesIn(d, k) \ {i + 1}) \cup {i}
        BY <1>0, <2>1, <3>2, <4>1 DEF HolesIn
      <4>3. i + 1 \in HolesIn(d, k) /\ i \notin HolesIn(d, k)
        BY <1>3, <4>1 DEF HolesIn
      <4>4. /\ IsFiniteSet(HolesIn(d, k) \ {i + 1})
            /\ Cardinality(HolesIn(d, k) \ {i + 1}) = Cardinality(HolesIn(d, k)) - 1
        BY <3>3, <4>3, FS_RemoveElement
      <4>5. Cardinality((HolesIn(d, k) \ {i + 1}) \cup {i})
              = Cardinality(HolesIn(d, k) \ {i + 1}) + 1
        BY <4>3, <4>4, FS_AddElement
      <4>6. k \in KeptIn(d) /\ ~(k < i + 1) /\ ~(k < i)
        BY <1>0, <2>2, <3>1, <3>6
      <4>7. Cardinality(HolesIn(d, k)) <= c + 1
        BY <4>6 DEF Room
      <4> QED
        BY <3>3, <4>2, <4>4, <4>5, <4>6, <4>7
    <3> QED
      BY <1>0, <3>1, <3>4, <3>5, <3>6
  <2>5. Room(e, i, r, c)
    BY <2>3, <2>4 DEF Room
  <2> QED
    BY <1>3, <2>5 DEF e
<1> QED
  BY <1>2, <1>3

\* The active file becomes archive 1.
LEMMA RenameFills ==
  ASSUME NEW d \in Disks, NEW r \in Nat, NEW c \in Nat,
         d[0] # Absent, d[1] = Absent, Room(d, 1, r, c)
  PROVE  Full([d EXCEPT ![1] = d[0], ![0] = Absent], r + 1, c)
<1> DEFINE e == [d EXCEPT ![1] = d[0], ![0] = Absent]
<1>0. 1 \in Archives /\ 0 \in Files /\ 1 \in Files
  BY SinkAssumption DEF Archives, Files
<1>1. /\ e[1] # Absent /\ \A j \in Archives : j # 1 => e[j] = d[j]
  BY <1>0 DEF Disks, Files, Archives
<1> HIDE DEF e
<1>2. KeptIn(e) = KeptIn(d) \cup {1} /\ 1 \notin KeptIn(d)
  BY <1>0, <1>1 DEF KeptIn
<1>3. Cardinality(KeptIn(e)) = Cardinality(KeptIn(d)) + 1 /\ Cardinality(KeptIn(d)) \in Nat
  BY <1>2, KeptIsFinite, FS_AddElement
<1>4. ASSUME NEW k \in KeptIn(e) PROVE Cardinality(HolesIn(e, k)) <= c
  <2>1. k \in Archives /\ k \in Nat \ {0} /\ k <= max_files
    BY DEF KeptIn, Archives
  <2>2. CASE k = 1
    <3>1. HolesIn(e, k) = {}
      BY <2>2 DEF HolesIn
    <3> QED
      BY <3>1, FS_EmptySet
  <2>3. CASE k # 1
    <3>1. k \in KeptIn(d) /\ ~(k < 1) /\ 1 \in 1..(k - 1)
      BY <1>2, <2>1, <2>3
    <3>2. \A j \in 1..(k - 1) : j \in Archives
      BY <2>1, SinkAssumption DEF Archives
    <3>3. HolesIn(e, k) = HolesIn(d, k) \ {1} /\ 1 \in HolesIn(d, k)
      BY <1>1, <3>1, <3>2 DEF HolesIn
    <3>4. IsFiniteSet(HolesIn(d, k)) /\ Cardinality(HolesIn(d, k)) \in Nat
      BY <2>1, KeptIsFinite
    <3>5. Cardinality(HolesIn(e, k)) = Cardinality(HolesIn(d, k)) - 1
      BY <3>3, <3>4, FS_RemoveElement
    <3>6. Cardinality(HolesIn(d, k)) <= c + 1
      BY <3>1 DEF Room
    <3> QED
      BY <3>4, <3>5, <3>6
  <2> QED
    BY <2>2, <2>3
<1>5. Cardinality(KeptIn(e)) + c >= Least(r + 1, max_files)
  <2>1. Least(r + 1, max_files) \in Nat
    BY SinkAssumption DEF Least
  <2> QED
    BY <1>3, <2>1 DEF Room
<1> QED
  BY <1>4, <1>5 DEF Full, e

\* A rotation cut short costs at most one archive.
LEMMA CutIsFull ==
  ASSUME NEW d, NEW r \in Nat, NEW c \in Nat
  PROVE  /\ Full(d, r, c) => Full(d, r, c + 1)
         /\ \A o : Room(d, o, r, c) => Full(d, r, c + 1)
<1>1. Cardinality(KeptIn(d)) \in Nat
  BY KeptIsFinite
<1>2. \A k \in KeptIn(d) : Cardinality(HolesIn(d, k)) \in Nat
  BY KeptIsFinite
<1>3. /\ Least(r, max_files) \in Nat /\ Least(r + 1, max_files) \in Nat
      /\ Least(r, max_files) <= Least(r + 1, max_files)
  BY SinkAssumption DEF Least
<1>4. ASSUME Full(d, r, c) PROVE Full(d, r, c + 1)
  <2>1. Cardinality(KeptIn(d)) + (c + 1) >= Least(r, max_files)
    BY <1>1, <1>3, <1>4 DEF Full
  <2>2. \A k \in KeptIn(d) : Cardinality(HolesIn(d, k)) <= c + 1
    BY <1>2, <1>4 DEF Full
  <2> QED
    BY <2>1, <2>2 DEF Full
<1>5. ASSUME NEW o, Room(d, o, r, c) PROVE Full(d, r, c + 1)
  <2>1. Cardinality(KeptIn(d)) + (c + 1) >= Least(r, max_files)
    BY <1>1, <1>3, <1>5 DEF Room
  <2>2. \A k \in KeptIn(d) : Cardinality(HolesIn(d, k)) <= c + 1
    <3> TAKE k \in KeptIn(d)
    <3>1. CASE k < o
      BY <1>2, <1>5, <3>1 DEF Room
    <3>2. CASE ~(k < o)
      BY <1>5, <3>2 DEF Room
    <3> QED
      BY <3>1, <3>2
  <2> QED
    BY <2>1, <2>2 DEF Full
<1> QED
  BY <1>4, <1>5

KeptInv ==
  /\ (\A p \in Procs : pc[p] \notin {"shift", "rename"}) => Full(disk, rotations, cut)
  /\ \A p \in Procs :
       /\ pc[p] = "shift" => Room(disk, index[p] + 1, rotations, cut)
       /\ pc[p] = "rename" => Room(disk, 1, rotations, cut)

\* A step outside the renames that leaves the archives keeps the count.
LEMMA QuietKeeps ==
  ASSUME KeptInv, rotations' = rotations, cut' = cut,
         \A i \in Archives : (disk'[i] = Absent) <=> (disk[i] = Absent),
         \A q \in Procs : pc[q] \notin {"shift", "rename"} /\ pc'[q] \notin {"shift", "rename"}
  PROVE  KeptInv'
<1>1. Full(disk, rotations, cut)
  BY DEF KeptInv
<1>2. KeptIn(disk') = KeptIn(disk) /\ \A k \in KeptIn(disk) : HolesIn(disk', k) = HolesIn(disk, k)
  BY SameArchives
<1>3. Full(disk', rotations', cut')
  BY <1>1, <1>2 DEF Full
<1> QED
  BY <1>3 DEF KeptInv

\* The loop of rotate goes on with room at the place it has freed.
LEMMA ToShiftRoom ==
  ASSUME SinkInv, NEW p \in Procs, pc[p] # "down", NEW i \in Nat, ToShift(p, i),
         Room(disk', i + 1, rotations', cut')
  PROVE  KeptInv'
<1>1. \A q \in Procs \ {p} : pc'[q] = "down"
  BY OthersAreDown DEF ToShift, SinkInv, SinkTypeOK
<1>2. index'[p] = i /\ pc'[p] = IF i >= 1 THEN "shift" ELSE "rename"
  BY DEF ToShift, SinkInv, SinkTypeOK
<1>3. pc'[p] = "rename" => i + 1 = 1
  BY <1>2
<1>4. pc'[p] \in {"shift", "rename"}
  BY <1>2
<1> QED
  BY <1>1, <1>2, <1>3, <1>4 DEF KeptInv

\* After a failure every process is down.
LEMMA ReleaseFull ==
  ASSUME SinkInv, NEW p \in Procs, pc[p] # "down", Release(p),
         Full(disk', rotations', cut')
  PROVE  KeptInv'
<1>1. \A q \in Procs : pc'[q] = "down"
  BY OthersAreDown DEF Release, SinkInv, SinkTypeOK
<1> QED
  BY <1>1 DEF KeptInv

\* What the operation under way of a rotation leaves.
LEMMA EffectCounts ==
  ASSUME SinkInv, KeptInv, NEW p \in Procs
  PROVE  /\ pc[p] \notin {"shift", "rename", "down"} => Full(disk, rotations, cut)
         /\ pc[p] = "remove" => Room(Effect(p), max_files, rotations, cut)
         /\ pc[p] = "shift" => Room(Effect(p), index[p], rotations, cut)
         /\ pc[p] = "rename" => Full(Effect(p), rotations + 1, cut)
         /\ pc[p] \in {"reopen", "append"} => Full(Effect(p), rotations, cut)
<1>0. disk \in Disks /\ rotations \in Nat /\ cut \in Nat
  BY DEF SinkInv, SinkTypeOK, Disks
<1>1. ASSUME pc[p] \notin {"shift", "rename", "down"} PROVE Full(disk, rotations, cut)
  <2>1. \A q \in Procs : pc[q] \notin {"shift", "rename"}
    <3>1. \A q \in Procs \ {p} : pc[q] = "down"
      BY <1>1, OthersAreDown
    <3> QED
      BY <1>1, <3>1
  <2> QED
    BY <2>1 DEF KeptInv
<1>2. ASSUME pc[p] = "remove" PROVE Room(Effect(p), max_files, rotations, cut)
  <2>1. Full(disk, rotations, cut)
    BY <1>1, <1>2
  <2>2. Effect(p) = [disk EXCEPT ![max_files] = Absent]
    BY <1>2 DEF Effect
  <2> QED
    BY <1>0, <2>1, <2>2, DropMakesRoom
<1>3. ASSUME pc[p] = "shift" PROVE Room(Effect(p), index[p], rotations, cut)
  <2>1. index[p] \in 1..(max_files - 1) /\ disk[index[p] + 1] = Absent
    BY <1>3 DEF SinkInv, OwnerInv, OwnerOK, Exists
  <2>2. Room(disk, index[p] + 1, rotations, cut)
    BY <1>3 DEF KeptInv
  <2>3. Effect(p) = IF disk[index[p]] # Absent
                      THEN [disk EXCEPT ![index[p] + 1] = disk[index[p]], ![index[p]] = Absent]
                      ELSE disk
    BY <1>3 DEF Effect, Move, Exists
  <2> QED
    BY <1>0, <2>1, <2>2, <2>3, ShiftKeepsRoom
<1>4. ASSUME pc[p] = "rename" PROVE Full(Effect(p), rotations + 1, cut)
  <2>1. disk[0] # Absent /\ disk[1] = Absent
    BY <1>4 DEF SinkInv, OwnerInv, OwnerOK, Exists
  <2>2. Room(disk, 1, rotations, cut)
    BY <1>4 DEF KeptInv
  <2>3. Effect(p) = [disk EXCEPT ![1] = disk[0], ![0] = Absent]
    BY <1>4 DEF Effect, Move
  <2>4. Full([disk EXCEPT ![1] = disk[0], ![0] = Absent], rotations + 1, cut)
    BY <1>0, <2>1, <2>2, RenameFills
  <2> QED
    BY <2>3, <2>4, Zenon
<1>5. ASSUME pc[p] \in {"reopen", "append"} PROVE Full(Effect(p), rotations, cut)
  <2>1. Full(disk, rotations, cut)
    BY <1>1, <1>5
  <2>2. \A i \in Archives : i \in Files /\ i # 0
    BY SinkAssumption DEF Archives, Files
  <2>3. \A i \in Archives : Effect(p)[i] = disk[i]
    BY <1>0, <1>5, <2>2 DEF Effect, Disks
  <2>4. /\ KeptIn(Effect(p)) = KeptIn(disk)
        /\ \A k \in KeptIn(disk) : HolesIn(Effect(p), k) = HolesIn(disk, k)
    <3> DEFINE e == Effect(p)
    <3>1. \A i \in Archives : (e[i] = Absent) <=> (disk[i] = Absent)
      BY <2>3
    <3> HIDE DEF e
    <3>2. KeptIn(e) = KeptIn(disk) /\ \A k \in KeptIn(disk) : HolesIn(e, k) = HolesIn(disk, k)
      BY <3>1, SameArchives
    <3> QED
      BY <3>2 DEF e
  <2> QED
    BY <2>1, <2>4 DEF Full
<1> QED
  BY <1>1, <1>2, <1>3, <1>4, <1>5

\* The steps that leave the archives alone.
LEMMA QuietStepsCount ==
  ASSUME SinkInv, KeptInv, NEW p \in Procs,
         \/ open(p) \/ Close(p) \/ Reopen(p) \/ AppendLine(p)
         \/ \E n \in Sizes : write(p, n) \/ TooLong(p, n)
  PROVE  KeptInv'
<1>1. rotations' = rotations /\ cut' = cut
  BY DEF open, Close, Reopen, AppendLine, write, TooLong
<1>2. \A i \in Archives : i \in Files /\ i # 0
  BY SinkAssumption DEF Archives, Files
<1>3. \A i \in Archives : disk'[i] = disk[i]
  BY <1>2 DEF open, open_log, Close, Reopen, AppendLine, write, TooLong, Effect,
              SinkInv, SinkTypeOK
<1>4. lock \in {p, Nobody} /\ pc[p] \notin {"shift", "rename"}
  BY DEF open, acquire_lock, Close, Reopen, AppendLine, write, TooLong,
         SinkInv, OwnerInv, OwnerOK
<1>5. pc'[p] \notin {"shift", "rename"} /\ \A q \in Procs \ {p} : pc'[q] = pc[q]
  BY DEF open, Close, Reopen, AppendLine, write, TooLong, Release, SinkInv, SinkTypeOK
<1>6. \A q \in Procs \ {p} : pc[q] = "down"
  BY <1>4, SinkAssumption DEF SinkInv, OwnerInv, OwnerOK
<1> QED
  BY <1>1, <1>3, <1>4, <1>5, <1>6, QuietKeeps

\* The steps of a rotation.
LEMMA RotationCounts ==
  ASSUME SinkInv, KeptInv, NEW p \in Procs,
         RemoveOldest(p) \/ ShiftArchive(p) \/ RenameActive(p)
  PROVE  KeptInv'
<1>1. CASE RemoveOldest(p)
  <2>1. FirstShift \in Nat /\ FirstShift + 1 = max_files
    BY SinkAssumption DEF FirstShift
  <2>2. Room(disk', max_files, rotations', cut')
    BY <1>1, EffectCounts DEF RemoveOldest
  <2> QED
    BY <1>1, <2>1, <2>2, ToShiftRoom DEF RemoveOldest
<1>2. CASE ShiftArchive(p)
  <2>1. index[p] \in 1..(max_files - 1)
    BY <1>2 DEF ShiftArchive, SinkInv, OwnerInv, OwnerOK
  <2>2. index[p] - 1 \in Nat /\ (index[p] - 1) + 1 = index[p]
    BY <2>1, SinkAssumption
  <2>3. Room(disk', index[p], rotations', cut')
    BY <1>2, EffectCounts DEF ShiftArchive
  <2> QED
    BY <1>2, <2>2, <2>3, ToShiftRoom DEF ShiftArchive
<1>3. CASE RenameActive(p)
  <2>1. Full(disk', rotations', cut')
    BY <1>3, EffectCounts DEF RenameActive
  <2>2. \A q \in Procs : pc'[q] \notin {"shift", "rename"}
    BY <1>3, OthersAreDown DEF RenameActive, SinkInv, SinkTypeOK
  <2> QED
    BY <2>1, <2>2 DEF KeptInv
<1> QED
  BY <1>1, <1>2, <1>3

\* A failure costs at most the archive of the rotation it cuts short.
LEMMA FailureCounts ==
  ASSUME SinkInv, KeptInv, NEW p \in Procs, FailBefore(p) \/ FailAfter(p) \/ FailTorn(p)
  PROVE  KeptInv'
<1>0. /\ pc[p] # "down" /\ Release(p) /\ rotations \in Nat /\ cut \in Nat
      /\ cut' = IF pc[p] \in {"remove", "shift", "rename"} THEN cut + 1 ELSE cut
      /\ pc[p] \in Places
  BY DEF FailBefore, FailAfter, FailTorn, Fails, Rotating, SinkInv, SinkTypeOK
<1>1. CASE FailBefore(p)
  <2>1. disk' = disk /\ rotations' = rotations
    BY <1>1 DEF FailBefore
  <2>2. CASE pc[p] \notin {"remove", "shift", "rename"}
    BY <1>0, <2>1, <2>2, EffectCounts, ReleaseFull
  <2>3. CASE pc[p] = "remove"
    <3>1. Full(disk, rotations, cut)
      BY <2>3, EffectCounts
    <3>2. Full(disk, rotations, cut + 1)
      BY <1>0, <3>1, CutIsFull
    <3> QED
      BY <1>0, <2>1, <2>3, <3>2, ReleaseFull
  <2>4. CASE pc[p] \in {"shift", "rename"}
    <3>1. \E o : Room(disk, o, rotations, cut)
      BY <2>4 DEF KeptInv
    <3>2. Full(disk, rotations, cut + 1)
      BY <1>0, <3>1, CutIsFull
    <3> QED
      BY <1>0, <2>1, <2>4, <3>2, ReleaseFull
  <2> QED
    BY <2>2, <2>3, <2>4
<1>2. CASE FailAfter(p)
  <2>1. /\ disk' = Effect(p)
        /\ rotations' = IF pc[p] = "rename" THEN rotations + 1 ELSE rotations
        /\ pc[p] \in {"remove", "shift", "rename", "reopen", "append"}
    BY <1>2 DEF FailAfter, Rotating
  <2>2. CASE pc[p] \in {"remove", "shift"}
    <3>1. \E o : Room(disk', o, rotations, cut)
      BY <2>1, <2>2, EffectCounts
    <3>2. Full(disk', rotations, cut + 1)
      BY <1>0, <3>1, CutIsFull
    <3>3. rotations' = rotations /\ cut' = cut + 1
      BY <1>0, <2>1, <2>2
    <3> QED
      BY <1>0, <3>2, <3>3, ReleaseFull
  <2>3. CASE pc[p] = "rename"
    <3>1. Full(disk', rotations + 1, cut)
      BY <2>1, <2>3, EffectCounts
    <3>2. Full(disk', rotations + 1, cut + 1)
      BY <1>0, <3>1, CutIsFull
    <3>3. rotations' = rotations + 1 /\ cut' = cut + 1
      BY <1>0, <2>1, <2>3
    <3> QED
      BY <1>0, <3>2, <3>3, ReleaseFull
  <2>4. CASE pc[p] \in {"reopen", "append"}
    <3>1. Full(disk', rotations', cut')
      BY <1>0, <2>1, <2>4, EffectCounts
    <3> QED
      BY <1>0, <3>1, ReleaseFull
  <2> QED
    BY <2>1, <2>2, <2>3, <2>4
<1>3. CASE FailTorn(p)
  <2>1. pc[p] = "append" /\ rotations' = rotations /\ cut' = cut
    BY <1>0, <1>3 DEF FailTorn
  <2>2. \A i \in Archives : i \in Files /\ i # 0
    BY SinkAssumption DEF Archives, Files
  <2>3. \A i \in Archives : disk'[i] = disk[i]
    BY <1>3, <2>2 DEF FailTorn, SinkInv, SinkTypeOK
  <2>4. \A q \in Procs : pc[q] \notin {"shift", "rename"} /\ pc'[q] \notin {"shift", "rename"}
    BY <1>0, <2>1, OthersAreDown DEF Release, SinkInv, SinkTypeOK
  <2> QED
    BY <2>1, <2>3, <2>4, QuietKeeps
<1> QED
  BY <1>1, <1>2, <1>3

\* Every step keeps the archives that retention promises, or makes room for one more.
LEMMA KeptKept ==
  ASSUME SinkInv, KeptInv, [Next]_vars
  PROVE  KeptInv'
<1>1. CASE UNCHANGED vars
  BY <1>1 DEF vars, KeptInv
<1>2. CASE Repair
  <2>1. \A i \in Archives : i \in Files /\ i # 0
    BY SinkAssumption DEF Archives, Files
  <2>2. \A i \in Archives : disk'[i] = disk[i]
    BY <1>2, <2>1 DEF Repair, SinkInv, SinkTypeOK
  <2>3. \A q \in Procs : pc[q] = "down"
    BY <1>2, SinkAssumption DEF Repair, SinkInv, OwnerInv, OwnerOK
  <2> QED
    BY <1>2, <2>2, <2>3, QuietKeeps DEF Repair
<1> QED
  BY <1>1, <1>2, QuietStepsCount, RotationCounts, FailureCounts DEF Next

-----------------------------------------------------------------------------
(* The theorems                                                            *)

IInv == SinkInv /\ FilesInv /\ Chain /\ KeptInv

\* The inductive invariant holds initially.
LEMMA InitHolds == Init => IInv
<1> SUFFICES ASSUME Init PROVE IInv
  OBVIOUS
<1>1. SinkInv
  BY SinkInit
<1>2. \A i \in Files : disk[i] = Absent
  BY DEF Init
<1>3. FilesInv
  BY <1>2 DEF FilesInv, TornOnlyAtEnd, Exists
<1>4. Chain
  <2> DEFINE b == [i \in Bounds |-> 0]
  <2>1. landed = <<>> /\ Len(landed) = 0 /\ landed \in Seq(Lines)
    BY DEF Init
  <2>2. \A i \in Files : Content(i) = <<>>
    BY <1>2 DEF Content, Exists
  <2>3. \A i \in Bounds : b[i] = 0
    OBVIOUS
  <2>4. b \in [Bounds -> 0..Len(landed)]
    BY <2>1
  <2>5. SubSeq(landed, 0 + 1, 0) = <<>>
    BY SubSeqEmpty
  <2> HIDE DEF b
  <2>6. \A i \in Files : Content(i) = SubSeq(landed, b[i + 1] + 1, b[i])
    BY <2>2, <2>3, <2>5, BoundsOfFiles
  <2>7. Cuts(b)
    BY <2>1, <2>3, <2>4, <2>6, BoundsOfFiles DEF Cuts
  <2> QED
    BY <2>7 DEF Chain
<1>5. KeptInv
  <2>1. KeptIn(disk) = {}
    BY <1>2, SinkAssumption DEF KeptIn, Archives, Files
  <2>2. Cardinality({}) = 0
    BY FS_EmptySet
  <2>3. Least(0, max_files) = 0
    BY SinkAssumption DEF Least
  <2>4. Full(disk, 0, 0)
    BY <2>1, <2>2, <2>3 DEF Full
  <2> QED
    BY <2>4 DEF KeptInv, Init
<1> QED
  BY <1>1, <1>3, <1>4, <1>5 DEF IInv

\* The inductive invariant is kept by every step.
LEMMA StepKeeps == IInv /\ [Next]_vars => IInv'
<1> SUFFICES ASSUME IInv, [Next]_vars PROVE IInv'
  OBVIOUS
<1>1. SinkInv /\ SinkTypeOK /\ FilesInv /\ Chain /\ KeptInv
  BY DEF IInv, SinkInv
<1>2. FileStep
  BY <1>1, FileSteps
<1> QED
  BY <1>1, <1>2, SinkKept, FilesKept, ChainKept, KeptKept DEF IInv

\* Of every reachable state: one process at a time has the log open, it knows
\* the size of the file it appends to, no archive it moves takes the place of
\* another, and the files hold consecutive runs of the lines that landed.
THEOREM SinkInvariant == Spec => []IInv
<1> QED
  BY InitHolds, StepKeeps, PTL DEF Spec

\* Rotation, interrupted anywhere by a failure and resumed by any process,
\* keeps a contiguous run of the newest lines, in order and without repetition.
THEOREM LogHasNoHole == Spec => []RetainedIsSuffix
<1>1. IInv => RetainedIsSuffix
  BY ChainIsSuffix DEF IInv, SinkInv
<1> QED
  BY SinkInvariant, <1>1, PTL

\* No process writes after a torn line or rotates it away: it stays the last
\* of the active file until it is repaired.
THEOREM TornStaysLast == Spec => []TornOnlyAtEnd
<1>1. IInv => TornOnlyAtEnd
  BY DEF IInv, FilesInv
<1> QED
  BY SinkInvariant, <1>1, PTL

\* No file outgrows max_bytes, whatever failures and restarts; the size held
\* in memory is that of the file.
THEOREM FilesStaySmall == Spec => []SizeBound
<1>1. IInv => SizeBound
  BY DEF IInv, SinkInv, OwnerInv, OwnerOK, FilesInv, SizeBound
<1> QED
  BY SinkInvariant, <1>1, PTL

\* Outside a rotation max_files archives are kept, or as many as were made,
\* less one for each rotation that was cut short.
THEOREM ArchivesAreKept == Spec => []RetentionFloor
<1>1. ASSUME IInv PROVE RetentionFloor
  <2> SUFFICES ASSUME \A p \in Procs : ~Rotating(p)
               PROVE  Cardinality(KeptIn(disk)) >= Least(rotations, max_files) - cut
    BY DEF RetentionFloor, KeptIn, Exists, Least
  <2>1. \A p \in Procs : pc[p] \notin {"shift", "rename"}
    BY DEF Rotating
  <2>2. Cardinality(KeptIn(disk)) + cut >= Least(rotations, max_files)
    BY <1>1, <2>1 DEF IInv, KeptInv, Full
  <2>3. Cardinality(KeptIn(disk)) \in Nat /\ cut \in Nat /\ Least(rotations, max_files) \in Nat
    BY <1>1, KeptIsFinite, SinkAssumption DEF IInv, SinkInv, SinkTypeOK, Least
  <2> QED
    BY <2>2, <2>3
<1> QED
  BY SinkInvariant, <1>1, PTL

=============================================================================
