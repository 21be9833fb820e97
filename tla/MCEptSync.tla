----------------------------- MODULE MCEptSync -----------------------------
(* Model checking EptSync: small sets of model values.                     *)
EXTENDS EptSyncInv, TLC

Perms == Permutations(Pages) \cup Permutations(Frames)
           \cup Permutations(Vcpus) \cup Permutations(Cpus)
           \cup Permutations(Threads)
=============================================================================
