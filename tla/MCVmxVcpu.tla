----------------------------- MODULE MCVmxVcpu -------------------------------
(* Constants of VmxVcpu for TLC.                                           *)
EXTENDS VmxVcpu, TLC

(* Vcpus, CPUs and instances are interchangeable.                          *)
Symmetry == Permutations(Vcpus) \cup Permutations(Cpus) \cup Permutations(Insts)
=============================================================================
