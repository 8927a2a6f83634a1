----------------------------- MODULE LateWrites -----------------------------
(***************************************************************************)
(* FileSink with file operations that outlive their sink.  The deadline of *)
(* run_writer (src/logger.rs) drops the future of a write and then the     *)
(* sink, and with it the lock, but not the blocking thread that makes the  *)
(* operation under way: it may land while the process drains its sessions, *)
(* and another process may have opened the log by then.                    *)
(*                                                                         *)
(* Two landings are left out: of an append whose file was rotated away     *)
(* meanwhile, and of a rename that would take the active file from under a *)
(* process that has it open.                                               *)
(***************************************************************************)
EXTENDS FileSink

VARIABLE given_up  \* operations that no task waits for any more

lateVars == <<vars, given_up>>

LateInit == Init /\ given_up = {}

\* The deadline passes: the lock is free, the operation is still under way.
Deadline(p) ==
  /\ Rotating(p) \/ pc[p] = "append"
  /\ Fails(p)
  /\ given_up' = given_up \cup
       {[owner |-> p, op |-> pc[p], index |-> index[p], line |-> line[p], rotations |-> rotations]}
  /\ UNCHANGED <<disk, issued, landed, rotations>>

\* The blocking thread makes the operation.
Land(o) ==
  /\ \/ /\ o.op = "append"
        /\ o.rotations = rotations
        /\ disk' = [disk EXCEPT ![0] = Append(@, o.line)]
        /\ landed' = Append(landed, o.line)
        /\ UNCHANGED rotations
     \/ /\ o.op = "remove"
        /\ disk' = [disk EXCEPT ![max_files] = Absent]
        /\ UNCHANGED <<landed, rotations>>
     \/ /\ o.op = "shift"
        /\ Exists(o.index)
        /\ disk' = Move(o.index, o.index + 1)
        /\ UNCHANGED <<landed, rotations>>
     \/ /\ o.op = "rename"
        /\ lock = Nobody
        /\ Exists(0)
        /\ disk' = Move(0, 1)
        /\ rotations' = rotations + 1
        /\ UNCHANGED landed
     \/ /\ o.op = "reopen"
        /\ disk' = IF Exists(0) THEN disk ELSE [disk EXCEPT ![0] = <<>>]
        /\ UNCHANGED <<landed, rotations>>
  /\ given_up' = given_up \ {o}
  /\ UNCHANGED <<lock, pc, size, line, index, issued, cut, failures>>

\* The process ends, at the latest when main's shutdown_timeout does, and its
\* blocking threads with it.
ProcessEnds(p) ==
  /\ pc[p] = "down"
  /\ given_up' = {o \in given_up : o.owner # p}
  /\ UNCHANGED vars

\* A process has one sink in its life.
LateNext ==
  \/ /\ Next
     /\ \A o \in given_up : pc'[o.owner] = "down"
     /\ UNCHANGED given_up
  \/ \E p \in Procs : Deadline(p) \/ ProcessEnds(p)
  \/ \E o \in given_up : Land(o)

LateSpec == LateInit /\ [][LateNext]_lateVars

-----------------------------------------------------------------------------
(* Properties                                                              *)

\* "The size of the current file is limited by max_file_bytes"
\* (docs/ARCHITECTURE.md:97), as each sink counts the bytes it writes.
CurrentFileBounded == Exists(0) => BytesOf(disk[0]) <= max_bytes

=============================================================================
