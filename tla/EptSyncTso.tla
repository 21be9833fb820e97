----------------------------- MODULE EptSyncTso -----------------------------
(***************************************************************************)
(* EptSync with the store buffer of an x86 CPU.  Between its store to      *)
(* vcpu->mode and its load of vcpu->requests, vmx_launch has only the      *)
(* smp_wmb of vmx_set_vcpu_mode, a compiler barrier on x86: the load may   *)
(* complete while the store is still buffered.                             *)
(***************************************************************************)
EXTENDS EptSync

(* local_irq_disable; the store of IN_GUEST_MODE stays in the buffer; the  *)
(* CPU reads its own store (not EXITING) and no request.                   *)
EarlyCheck(v) ==
  /\ vpc[v] = "ready" /\ ~req[v]
  /\ Goto(v, "drain")
  /\ UNCHANGED <<memVars, mode, req, vcpu_cpu, local, owner, tlb, fltVars,
                 threadVars>>

(* External: the buffer drains, at the latest by the VM entry.             *)
Drain(v) ==
  /\ vpc[v] = "drain"
  /\ SetMode(v, IN_GUEST_MODE)
  /\ Goto(v, "guest")
  /\ UNCHANGED <<memVars, req, vcpu_cpu, local, owner, tlb, fltVars, threadVars>>

TsoNext == Next \/ \E v \in Vcpus : EarlyCheck(v) \/ Drain(v)

TsoSpec == Init /\ [][TsoNext]_vars
=============================================================================
