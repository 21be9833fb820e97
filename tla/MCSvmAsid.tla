------------------------------ MODULE MCSvmAsid ------------------------------
(* Constants of SvmAsid for TLC.                                           *)
EXTENDS SvmAsid, TLC

(* Vcpus and CPUs are interchangeable.                                     *)
Symmetry == Permutations(Vcpus) \cup Permutations(Cpus)
=============================================================================
