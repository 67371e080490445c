----------------------------- MODULE MCSupervisor -----------------------------
(* The supervisor on three calls; no symmetry, for the liveness.           *)
EXTENDS Supervisor, TLC

CallSymmetry == Permutations(Calls)
===============================================================================
