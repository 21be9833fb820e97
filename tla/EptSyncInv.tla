---------------------------- MODULE EptSyncInv ----------------------------
(***************************************************************************)
(* The inductive invariant of EptSync: why EptMatchesHost and              *)
(* GuestNeverStale hold.  Model-checked by MCEptSync, proved inductive in  *)
(* EptSyncProofs.                                                          *)
(***************************************************************************)
EXTENDS EptSync

(* The open invalidations are the ones mmu_notifier_count counts.          *)
Open == {t \in Threads : Invalidating(t)}
CountInv == count = Cardinality(Open)

(* A fault that has its frame and has seen no invalidation end since       *)
(* ReadSeq holds what the host page table holds, unless one is open.       *)
FaultInv ==
  \A v \in Vcpus :
    /\ vpc[v] \in {"violation", "pin", "set"} => flt_page[v] \in Pages
    /\ vpc[v] \in {"pin", "set"} => flt_seq[v] <= seq
    /\ vpc[v] = "set" => flt_frame[v] \in Frames
    /\ vpc[v] = "set" /\ flt_seq[v] = seq /\ Open = {}
         => flt_frame[v] = hpt[flt_page[v]]

(* A pinned vcpu owns the CPU it is recorded on; one not yet published     *)
(* will flush before it first runs.                                        *)
CpuInv ==
  \A v \in Vcpus :
    /\ vpc[v] \in PinnedPc => vcpu_cpu[v] # None /\ owner[vcpu_cpu[v]] = v
    /\ vpc[v] = "none" => vcpu_cpu[v] = None
    /\ vpc[v] = "new" => req[v]
    /\ vpc[v] \in {"armed", "guest"}
         => mode[v] \in {IN_GUEST_MODE, EXITING_GUEST_MODE}

(* A flush without a CPU mask will interrupt every CPU but its own.        *)
FlushInv ==
  \A t \in Threads :
    /\ tpc[t] \in {"requested", "kick"} => cur[t] \in Vcpus
    /\ nomask[t] /\ tpc[t] \in LockedPc
         => \A c \in Cpus : c \in targets[t] \/ owner[c] = t

(* Thread t's flush has still to visit vcpu v.                             *)
Unvisited(t, v) ==
  tpc[t] = "unlocked" \/ (tpc[t] \in LockedPc /\ v \in todo[t])

(* Thread t will not return before vcpu v has left the guest.              *)
Reaching(t, v) ==
  \/ tpc[t] = "requested" /\ cur[t] = v
  \/ tpc[t] = "kick" /\ cur[t] = v /\ seen_cpu[t] = vcpu_cpu[v]
  \/ tpc[t] \in LockedPc \cup {"wait"} /\ vcpu_cpu[v] \in targets[t]

(* What vcpu v's CPU has cached is right and no flush that has passed v    *)
(* by is about to let the host change it.                                  *)
CleanTlb(v) ==
  \A e \in tlb[vcpu_cpu[v]] :
    /\ hpt[e[1]] = e[2]
    /\ \A t \in Open : e[1] \in range[t] => Unvisited(t, v)

(* The same for a vcpu in the guest, which may also have been reached.     *)
SafeTlb(v) ==
  \A e \in tlb[vcpu_cpu[v]] :
    /\ hpt[e[1]] = e[2]
    /\ \A t \in Open : e[1] \in range[t]
         => Unvisited(t, v) \/ Reaching(t, v)

TlbInv ==
  \A v \in Vcpus : vcpu_cpu[v] # None =>
    /\ req[v] \/ vpc[v] = "flush" \/ CleanTlb(v)
    /\ vpc[v] = "guest" => SafeTlb(v)

(* EptSync's inductive invariant: the host never changes a page that an    *)
(* entry of the EPT maps or that a CPU running the guest has cached.       *)
IInv ==
  /\ TypeOK
  /\ CountInv
  /\ RangeStaysClear
  /\ EptMatchesHost
  /\ FaultInv
  /\ CpuInv
  /\ LoadedWhereRecorded
  /\ FlushInv
  /\ TlbInv

(* What a vcpu's guest may translate with: the TLB of its CPU while it is  *)
(* in the guest.  (The EPT adds only entries GuestAccess brings there.)    *)
GuestView == [v \in Vcpus |-> IF vpc[v] = "guest" THEN tlb[vcpu_cpu[v]] ELSE {}]

Mmu == INSTANCE GuestMmu WITH view <- GuestView

(* EptSync implements GuestMmu: every step of vcpus, notifier callbacks    *)
(* and hardware translates as the host does or leaves the guest's view     *)
(* alone, and the host changes a page only when no running vcpu uses it.   *)
ImplementsGuestMmu == Mmu!Spec
=============================================================================
