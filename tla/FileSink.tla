------------------------------ MODULE FileSink ------------------------------
(***************************************************************************)
(* The rotating log file of src/logger.rs (struct FileSink): the active    *)
(* file and its archives on disk, the lock that keeps a second process     *)
(* out, and the processes that open it, write lines, rotate, fail, crash   *)
(* and start again.  Every file-system operation is a step of its own, so  *)
(* an I/O error, the write deadline or a crash can fall between any two;   *)
(* the operation under way may then have taken effect or not.              *)
(*                                                                         *)
(* Operations that land after the lock is free are in LateWrites.          *)
(*                                                                         *)
(* Crashes are of the process: what reached the operating system stays     *)
(* (the code flushes every line and never calls fsync).                    *)
(***************************************************************************)
EXTENDS Integers, Sequences, FiniteSets, SequencesExt

CONSTANTS Procs,       \* processes that use the same log path
          Nobody,      \* the lock is free
          Absent,      \* there is no such file
          max_bytes,   \* rotation threshold of the active file
          max_files,   \* number of archives besides the active file
          Sizes,       \* sizes of lines, newline included
          MaxLines,    \* bound on lines issued
          MaxFailures  \* bound on failures and crashes

\* A line of a file: its bytes, newline included, and whether all of it is there.
Lines == [id : Nat, bytes : Nat \ {0}, whole : BOOLEAN]

ASSUME SinkAssumption ==
  /\ Nobody \notin Procs
  /\ Absent \notin Seq(Lines)
  /\ max_bytes \in Nat \ {0}
  /\ max_files \in Nat \ {0}
  /\ Sizes \subseteq Nat \ {0}
  /\ MaxLines \in Nat
  /\ MaxFailures \in Nat

VARIABLES
  disk,        \* file index -> its lines, or Absent; 0 is the active file
  lock,        \* the process that holds the lock file
  pc,          \* where each process is
  size,        \* FileSink.size: bytes of the active file, in memory
  line,        \* the line each process is writing
  index,       \* the loop index of rotate
  issued,      \* number of lines issued so far
  landed,      \* history: the whole lines that reached the disk, in order
  rotations,   \* history: times the active file became an archive
  cut,         \* history: rotations that were begun and not finished
  failures     \* failures and crashes so far

vars == <<disk, lock, pc, size, line, index, issued, landed, rotations, cut, failures>>

NoLine == [id |-> 0, bytes |-> 0, whole |-> TRUE]
Files == 0..max_files
Archives == 1..max_files

BytesOf(lines) == FoldLeft(LAMBDA sum, l : sum + l.bytes, 0, lines)

Exists(i) == disk[i] # Absent

EndsTorn(lines) == lines # <<>> /\ ~Last(lines).whole

Rotating(p) == pc[p] \in {"remove", "shift", "rename", "reopen"}

Init ==
  /\ disk = [i \in Files |-> Absent]
  /\ lock = Nobody
  /\ pc = [p \in Procs |-> "down"]
  /\ size = [p \in Procs |-> 0]
  /\ line = [p \in Procs |-> NoLine]
  /\ index = [p \in Procs |-> 0]
  /\ issued = 0
  /\ landed = <<>>
  /\ rotations = 0
  /\ cut = 0
  /\ failures = 0

-----------------------------------------------------------------------------

\* (mutant) the lock file is opened but not locked
acquire_lock_unlocked(p) == lock' = p

\* try_lock: a second process is refused, it does not wait.
acquire_lock(p) ==
  /\ lock = Nobody
  /\ lock' = p

\* (mutant) a torn tail is not noticed
Usable_trusting == TRUE

Usable == Exists(0) => ~EndsTorn(disk[0])

\* The active file is created if need be; an incomplete last line is refused.
open_log ==
  /\ Usable
  /\ disk' = IF Exists(0) THEN disk ELSE [disk EXCEPT ![0] = <<>>]

open(p) ==
  /\ pc[p] = "down"
  /\ acquire_lock(p)
  /\ open_log
  /\ size' = [size EXCEPT ![p] = BytesOf(disk'[0])]
  /\ pc' = [pc EXCEPT ![p] = "ready"]
  /\ UNCHANGED <<line, index, issued, landed, rotations, cut, failures>>

\* Releasing the sink: by a clean end, an error returned to run_writer, or
\* the death of the process.
Release(p) ==
  /\ lock' = Nobody
  /\ pc' = [pc EXCEPT ![p] = "down"]
  /\ size' = [size EXCEPT ![p] = 0]
  /\ line' = [line EXCEPT ![p] = NoLine]
  /\ index' = [index EXCEPT ![p] = 0]

Close(p) ==
  /\ pc[p] = "ready"
  /\ Release(p)
  /\ UNCHANGED <<disk, issued, landed, rotations, cut, failures>>

-----------------------------------------------------------------------------
(* FileSink::write and FileSink::rotate                                    *)

MustRotate(p, n) == size[p] + n > max_bytes

write(p, n) ==
  /\ pc[p] = "ready"
  /\ issued < MaxLines
  /\ n <= max_bytes
  /\ issued' = issued + 1
  /\ line' = [line EXCEPT ![p] = [id |-> issued', bytes |-> n, whole |-> TRUE]]
  /\ pc' = [pc EXCEPT ![p] = IF MustRotate(p, n) THEN "remove" ELSE "append"]
  /\ UNCHANGED <<disk, lock, size, index, landed, rotations, cut, failures>>

\* A line longer than max_bytes is an error, and the writer gives up.
TooLong(p, n) ==
  /\ pc[p] = "ready"
  /\ issued < MaxLines
  /\ n > max_bytes
  /\ issued' = issued + 1
  /\ Release(p)
  /\ UNCHANGED <<disk, landed, rotations, cut, failures>>

\* (mutant) a file is copied, and left for the next step to overwrite
Move_copy(i, j) == [disk EXCEPT ![j] = disk[i]]

\* fs::rename: what was at the target is gone.
Move(i, j) == [disk EXCEPT ![j] = disk[i], ![i] = Absent]

\* The file-system effect of the operation process p is about to make.
Effect(p) ==
  CASE pc[p] = "remove" -> [disk EXCEPT ![max_files] = Absent]
    [] pc[p] = "shift"  -> IF Exists(index[p]) THEN Move(index[p], index[p] + 1) ELSE disk
    [] pc[p] = "rename" -> Move(0, 1)
    [] pc[p] = "reopen" -> [disk EXCEPT ![0] = <<>>]
    [] pc[p] = "append" -> [disk EXCEPT ![0] = Append(@, line[p])]

\* (mutant) the second oldest archive is not moved
FirstShift_skip == max_files - 2

FirstShift == max_files - 1

ToShift(p, i) ==
  /\ index' = [index EXCEPT ![p] = i]
  /\ pc' = [pc EXCEPT ![p] = IF i >= 1 THEN "shift" ELSE "rename"]

RemoveOldest(p) ==
  /\ pc[p] = "remove"
  /\ disk' = Effect(p)
  /\ ToShift(p, FirstShift)
  /\ UNCHANGED <<lock, size, line, issued, landed, rotations, cut, failures>>

\* From the oldest to the newest, so that no archive is overwritten.
ShiftArchive(p) ==
  /\ pc[p] = "shift"
  /\ disk' = Effect(p)
  /\ ToShift(p, index[p] - 1)
  /\ UNCHANGED <<lock, size, line, issued, landed, rotations, cut, failures>>

RenameActive(p) ==
  /\ pc[p] = "rename"
  /\ Exists(0)
  /\ disk' = Effect(p)
  /\ rotations' = rotations + 1
  /\ pc' = [pc EXCEPT ![p] = "reopen"]
  /\ UNCHANGED <<lock, size, line, index, issued, landed, cut, failures>>

Reopen(p) ==
  /\ pc[p] = "reopen"
  /\ disk' = Effect(p)
  /\ size' = [size EXCEPT ![p] = 0]
  /\ pc' = [pc EXCEPT ![p] = "append"]
  /\ UNCHANGED <<lock, line, index, issued, landed, rotations, cut, failures>>

AppendLine(p) ==
  /\ pc[p] = "append"
  /\ disk' = Effect(p)
  /\ landed' = Append(landed, line[p])
  /\ size' = [size EXCEPT ![p] = @ + line[p].bytes]
  /\ line' = [line EXCEPT ![p] = NoLine]
  /\ pc' = [pc EXCEPT ![p] = "ready"]
  /\ UNCHANGED <<lock, index, issued, rotations, cut, failures>>

-----------------------------------------------------------------------------
(* Failures                                                                *)

Fails(p) ==
  /\ failures < MaxFailures
  /\ failures' = failures + 1
  /\ Release(p)
  /\ cut' = IF pc[p] \in {"remove", "shift", "rename"} THEN cut + 1 ELSE cut

\* The operation under way has no effect.
FailBefore(p) ==
  /\ pc[p] # "down"
  /\ Fails(p)
  /\ UNCHANGED <<disk, issued, landed, rotations>>

\* The operation takes effect, but its caller does not live to see it.
FailAfter(p) ==
  /\ Rotating(p) \/ pc[p] = "append"
  /\ Fails(p)
  /\ disk' = Effect(p)
  /\ landed' = IF pc[p] = "append" THEN Append(landed, line[p]) ELSE landed
  /\ rotations' = IF pc[p] = "rename" THEN rotations + 1 ELSE rotations
  /\ UNCHANGED issued

\* Part of the line reaches the file.
FailTorn(p) ==
  /\ pc[p] = "append"
  /\ Fails(p)
  /\ \E n \in 1..(line[p].bytes - 1) :
       disk' = [disk EXCEPT ![0] = Append(@, [line[p] EXCEPT !.bytes = n, !.whole = FALSE])]
  /\ UNCHANGED <<issued, landed, rotations>>

\* The operator takes an incomplete last line away (external).
Repair ==
  /\ lock = Nobody
  /\ Exists(0)
  /\ EndsTorn(disk[0])
  /\ disk' = [disk EXCEPT ![0] = Front(@)]
  /\ UNCHANGED <<lock, pc, size, line, index, issued, landed, rotations, cut, failures>>

-----------------------------------------------------------------------------

Next ==
  \/ \E p \in Procs :
       \/ open(p)
       \/ Close(p)
       \/ \E n \in Sizes : write(p, n) \/ TooLong(p, n)
       \/ RemoveOldest(p)
       \/ ShiftArchive(p)
       \/ RenameActive(p)
       \/ Reopen(p)
       \/ AppendLine(p)
       \/ FailBefore(p)
       \/ FailAfter(p)
       \/ FailTorn(p)
  \/ Repair

Spec == Init /\ [][Next]_vars

-----------------------------------------------------------------------------
(* Properties                                                              *)

\* A file as Repair leaves it.
Content(i) ==
  CASE ~Exists(i) -> <<>>
    [] Exists(i) /\ EndsTorn(disk[i]) -> Front(disk[i])
    [] OTHER -> disk[i]

\* Everything on disk, oldest archive first.
Retained == FlattenSeq([k \in 1..(max_files + 1) |-> Content(max_files + 1 - k)])

\* The rename chain of rotate, interrupted anywhere and resumed by another
\* process, keeps a contiguous run of the newest lines: read from the oldest
\* archive to the active file, the log never has a hole, a repetition or two
\* lines out of order.
RetainedIsSuffix == IsSuffix(Retained, landed)

\* A torn line exists only at the very end of the active file: open_log's
\* check keeps every process from writing after it or rotating it away.
TornOnlyAtEnd ==
  \A i \in Files : Exists(i) =>
    \A k \in DOMAIN disk[i] :
      ~disk[i][k].whole => i = 0 /\ k = Len(disk[i])

\* No file outgrows max_file_bytes, across restarts: the size each process
\* keeps in memory is the size of the active file it appends to.
SizeBound ==
  /\ \A i \in Files : Exists(i) => BytesOf(disk[i]) <= max_bytes
  /\ \A p \in Procs : pc[p] \in {"ready", "append"} => size[p] = BytesOf(disk[0])

\* max_files archives are really kept ("number of rotated archives, in
\* addition to the active file", config.rs:75): an archive is removed only
\* to make room for a newer one, and each interrupted rotation costs at most
\* one archive.
RetentionFloor ==
  LET kept == Cardinality({i \in Archives : Exists(i)})
      due == IF rotations < max_files THEN rotations ELSE max_files
  IN  (\A p \in Procs : ~Rotating(p)) => kept >= due - cut

=============================================================================
