------------------------------ MODULE Hardware -------------------------------
(***************************************************************************)
(* Loading and unloading the module (core.c: slimvm_init, slimvm_exit),    *)
(* and switching virtualisation on and off on every CPU                    *)
(* (vmx_hardware_enable_all and svm_hardware_enable_all, with their        *)
(* disabling counterparts).  The hardware has one user per CPU, and the    *)
(* other candidate is KVM, which comes and goes by itself.                 *)
(*                                                                         *)
(* The loader allocates an area per CPU, then sends each CPU a callback,   *)
(* which run in any order; one CPU that is taken undoes the whole load.    *)
(***************************************************************************)
EXTENDS Integers

CONSTANT Cpus

VARIABLES
  engine,      \* slimvm_ops, from the CPU's vendor
  phase,       \* where the loader stands
  pending,     \* on_each_cpu: the CPUs whose callback has not run
  failed,      \* vmx_enable_failed, svm_enable_failed: not zero
  svme,        \* hardware: CR4.VMXE or EFER.SVME of each CPU
  kvm,         \* external: the CPUs KVM believes it has
  enabled,     \* per CPU: vmx_enabled, svm_enabled
  area,        \* per CPU: vmxarea, svm_cpu_data with its save_area
  msr_bitmap   \* the MSR bitmap (and the SVM I/O bitmap) is allocated

hardwareVars == <<engine, phase, pending, failed, svme, kvm, enabled, area, msr_bitmap>>

Phases == {"out", "alloc", "enable", "up", "in", "disable"}

HardwareTypeOK ==
  /\ engine \in {"vmx", "svm"} /\ phase \in Phases
  /\ pending \subseteq Cpus /\ failed \in BOOLEAN
  /\ svme \in [Cpus -> BOOLEAN] /\ kvm \in [Cpus -> BOOLEAN]
  /\ enabled \in [Cpus -> BOOLEAN] /\ area \in [Cpus -> BOOLEAN]
  /\ msr_bitmap \in BOOLEAN

HardwareInit ==
  /\ engine \in {"vmx", "svm"} /\ phase = "out"
  /\ pending = {} /\ failed = FALSE
  /\ kvm \in [Cpus -> BOOLEAN] /\ svme = kvm
  /\ enabled = [c \in Cpus |-> FALSE] /\ area = [c \in Cpus |-> FALSE]
  /\ msr_bitmap = FALSE

(* slimvm_init up to the bitmaps; what fails before leaves nothing.        *)
slimvm_init ==
  /\ phase = "out"
  /\ phase' = "alloc" /\ msr_bitmap' = TRUE
  /\ UNCHANGED <<engine, pending, failed, svme, kvm, enabled, area>>

(* The loop over the possible CPUs, and its kmalloc.                       *)
AllocArea(c) ==
  /\ phase = "alloc" /\ ~area[c]
  /\ area' = [area EXCEPT ![c] = TRUE]
  /\ UNCHANGED <<engine, phase, pending, failed, svme, kvm, enabled, msr_bitmap>>

FreeAreas ==
  /\ phase' = "out" /\ pending' = {} /\ msr_bitmap' = FALSE
  /\ area' = [c \in Cpus |-> FALSE]

(* on_each_cpu(vmx_disable) or on_each_cpu(svm_hardware_disable) begins.   *)
StartDisable == phase' = "disable" /\ pending' = Cpus /\ UNCHANGED <<area, msr_bitmap>>

(* No memory for an area: VMX frees what it has (failed1); SVM first sends *)
(* every CPU its disabling callback (failed).                              *)
AllocFails ==
  /\ phase = "alloc" /\ \E c \in Cpus : ~area[c]
  /\ IF engine = "vmx" THEN FreeAreas ELSE StartDisable
  /\ UNCHANGED <<engine, failed, svme, kvm, enabled>>

StartEnable ==
  /\ phase = "alloc" /\ \A c \in Cpus : area[c]
  /\ phase' = "enable" /\ pending' = Cpus /\ failed' = FALSE
  /\ UNCHANGED <<engine, svme, kvm, enabled, area, msr_bitmap>>

(* vmx_enable, svm_hardware_enable: the callback on CPU c finds the        *)
(* hardware free, or counts a failure.                                     *)
EnableCpu(c) ==
  LET free == ~svme[c]
  IN /\ phase = "enable" /\ c \in pending
     /\ pending' = pending \ {c}
     /\ svme' = [svme EXCEPT ![c] = TRUE]
     /\ enabled' = [enabled EXCEPT ![c] = free \/ @]
     /\ failed' = (failed \/ ~free)
     /\ UNCHANGED <<engine, phase, kvm, area, msr_bitmap>>

(* All callbacks have run; one that failed undoes the others (failed2).    *)
EnabledAll ==
  /\ phase = "enable" /\ pending = {}
  /\ IF failed THEN StartDisable
     ELSE phase' = "up" /\ UNCHANGED <<pending, area, msr_bitmap>>
  /\ UNCHANGED <<engine, failed, svme, kvm, enabled>>

(* misc_register: the device appears, or slimvm_engine_exit undoes all.    *)
misc_register(ok) ==
  /\ phase = "up"
  /\ IF ok THEN phase' = "in" /\ UNCHANGED <<pending, area, msr_bitmap>>
     ELSE StartDisable
  /\ UNCHANGED <<engine, failed, svme, kvm, enabled>>

(* rmmod; the kernel lets it start only when no file of the device is open *)
(* (.owner = THIS_MODULE).                                                 *)
slimvm_exit ==
  /\ phase = "in"
  /\ StartDisable
  /\ UNCHANGED <<engine, failed, svme, kvm, enabled>>

(* Mutant: VMXOFF wherever the callback runs.                              *)
DisableCpu_Unasked(c) ==
  /\ phase = "disable" /\ c \in pending
  /\ pending' = pending \ {c}
  /\ svme' = [svme EXCEPT ![c] = FALSE]
  /\ enabled' = [enabled EXCEPT ![c] = FALSE]
  /\ UNCHANGED <<engine, phase, failed, kvm, area, msr_bitmap>>

(* vmx_disable, svm_hardware_disable: only where this module switched on.  *)
DisableCpu(c) ==
  /\ phase = "disable" /\ c \in pending
  /\ pending' = pending \ {c}
  /\ svme' = [svme EXCEPT ![c] = @ /\ ~enabled[c]]
  /\ enabled' = [enabled EXCEPT ![c] = FALSE]
  /\ UNCHANGED <<engine, phase, failed, kvm, area, msr_bitmap>>

DisabledAll ==
  /\ phase = "disable" /\ pending = {}
  /\ FreeAreas
  /\ UNCHANGED <<engine, failed, svme, kvm, enabled>>

(* External: KVM takes a CPU that nobody has, or gives its own back.       *)
KvmTakes(c) ==
  /\ ~svme[c]
  /\ svme' = [svme EXCEPT ![c] = TRUE] /\ kvm' = [kvm EXCEPT ![c] = TRUE]
  /\ UNCHANGED <<engine, phase, pending, failed, enabled, area, msr_bitmap>>

KvmLeaves(c) ==
  /\ kvm[c]
  /\ svme' = [svme EXCEPT ![c] = FALSE] /\ kvm' = [kvm EXCEPT ![c] = FALSE]
  /\ UNCHANGED <<engine, phase, pending, failed, enabled, area, msr_bitmap>>

(* The loader's steps other than the one that may not run while the device *)
(* is in use.                                                              *)
LoaderStep ==
  \/ slimvm_init \/ AllocFails \/ StartEnable \/ EnabledAll \/ DisabledAll
  \/ \E ok \in BOOLEAN : misc_register(ok)
  \/ \E c \in Cpus : AllocArea(c) \/ DisableCpu(c)

KvmStep == \E c \in Cpus : KvmTakes(c) \/ KvmLeaves(c)

(* A load that fails halfway and an unload give back exactly the CPUs this *)
(* module took, and the areas outlive their use: a CPU's hardware is on    *)
(* just when KVM or this module has it, never both; while this module has  *)
(* it its area is there; the device exists only with every CPU on; and     *)
(* afterwards nothing is on or allocated, however the callbacks interleave *)
(* with KVM (vmx_hardware_enable_all, svm_hardware_enable_all).            *)
HardwareBalanced ==
  /\ \A c \in Cpus : (svme[c] <=> enabled[c] \/ kvm[c]) /\ ~(enabled[c] /\ kvm[c])
  /\ \A c \in Cpus : enabled[c] => area[c] /\ msr_bitmap
  /\ phase \in {"up", "in"} => \A c \in Cpus : enabled[c]
  /\ phase = "out" => ~msr_bitmap /\ \A c \in Cpus : ~enabled[c] /\ ~area[c]

(* The inductive invariant behind it: what each phase of the loader has    *)
(* done and has still to do.                                               *)
HardwareInv ==
  /\ HardwareBalanced
  /\ phase = "alloc" => \A c \in Cpus : ~enabled[c]
  /\ phase # "out" => msr_bitmap
  /\ phase \in {"enable", "up", "in"} => \A c \in Cpus : area[c]
  /\ phase = "enable" => \A c \in Cpus \ pending : failed \/ enabled[c]
  /\ phase = "disable" => \A c \in Cpus \ pending : ~enabled[c]
=============================================================================
