----------------------------- MODULE MCFileSink -----------------------------
(* Small instances of FileSink.                                            *)
EXTENDS FileSink, TLC

ProcSymmetry == Permutations(Procs)

=============================================================================
