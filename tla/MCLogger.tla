------------------------------ MODULE MCLogger ------------------------------
(* Small instances of Logger.                                              *)
EXTENDS Logger, TLC

SenderSymmetry == Permutations(Senders)

=============================================================================
