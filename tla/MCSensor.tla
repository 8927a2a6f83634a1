------------------------------ MODULE MCSensor ------------------------------
(* Small instances of Sensor.                                              *)
EXTENDS Sensor, TLC

ConnSymmetry == Permutations(Conns)

=============================================================================
