--------------------------- MODULE EptSyncProofs ---------------------------
(***************************************************************************)
(* TLAPS proofs about EptSync, for any sets of pages, frames, vcpus, CPUs  *)
(* and (finitely many) host threads and without regard to the bounds.      *)
(***************************************************************************)
EXTENDS EptSyncInv, FiniteSetTheorems, TLAPS

(* What __load_vcpu does to the records of the loaded vcpu and of the      *)
(* others.                                                                 *)
LEMMA LoadVcpuFacts ==
  ASSUME TypeOK, LoadedWhereRecorded, NEW v \in Vcpus, NEW c \in Cpus,
         LoadVcpu(v, c)
  PROVE  /\ vcpu_cpu' = [vcpu_cpu EXCEPT ![v] = c]
         /\ req' \in [Vcpus -> BOOLEAN]
         /\ \A w \in Vcpus : w # v => req'[w] = req[w]
         /\ req[v] => req'[v]
         /\ vcpu_cpu[v] # c => req'[v]
         /\ vcpu_cpu[v] = c => req'[v] = req[v]
         /\ local' \in [Cpus -> Vcpus \cup {None}]
         /\ LoadedWhereRecorded'
<1> USE NoneAssumption
<1>1. CASE local[c] = v
  <2>1. vcpu_cpu[v] = c
    BY Zenon, <1>1 DEF LoadedWhereRecorded, TypeOK
  <2> QED BY <1>1, <2>1 DEF LoadVcpu, LoadedWhereRecorded, TypeOK
<1>2. CASE local[c] # v /\ vcpu_cpu[v] = c
  <2>1. local' = [local EXCEPT ![c] = v] /\ req' = req /\ vcpu_cpu' = vcpu_cpu
    BY Zenon, <1>2 DEF LoadVcpu
  <2>2. vcpu_cpu' = [vcpu_cpu EXCEPT ![v] = c]
    BY Zenon, <1>2, <2>1 DEF TypeOK
  <2>3. local' \in [Cpus -> Vcpus \cup {None}] /\ LoadedWhereRecorded'
    BY Zenon, <1>2, <2>1 DEF LoadedWhereRecorded, TypeOK
  <2>4. req' \in [Vcpus -> BOOLEAN]
    BY Zenon, <2>1 DEF TypeOK
  <2>5. \A w \in Vcpus : req'[w] = req[w]
    BY Zenon, <2>1
  <2> QED BY Zenon, <1>2, <2>2, <2>3, <2>4, <2>5
<1>3. CASE local[c] # v /\ vcpu_cpu[v] # c
  <2>1. /\ local' = [d \in Cpus |-> IF d = c THEN v
                        ELSE IF d = vcpu_cpu[v] /\ local[d] = v THEN None
                        ELSE local[d]]
        /\ req' = [req EXCEPT ![v] = TRUE]
        /\ vcpu_cpu' = [vcpu_cpu EXCEPT ![v] = c]
    BY Zenon, <1>3 DEF LoadVcpu
  <2>2. local' \in [Cpus -> Vcpus \cup {None}]
    BY Zenon, <2>1 DEF TypeOK
  <2>3. LoadedWhereRecorded'
    BY <2>1 DEF LoadedWhereRecorded, TypeOK
  <2>4. req' \in [Vcpus -> BOOLEAN]
    BY Zenon, <2>1 DEF TypeOK
  <2>5. req'[v] /\ \A w \in Vcpus : w # v => req'[w] = req[w]
    BY Zenon, <2>1 DEF TypeOK
  <2>6. vcpu_cpu' = [vcpu_cpu EXCEPT ![v] = c]
    BY Zenon, <2>1
  <2> QED BY Zenon, <1>3, <2>2, <2>3, <2>4, <2>5, <2>6
<1> QED BY Zenon, <1>1, <1>2, <1>3

(* Every step keeps the state well typed.                                  *)
LEMMA TypeStep ==
  ASSUME TypeOK, LoadedWhereRecorded, FlushInv, [Next]_vars
  PROVE  TypeOK'
<1> USE NoneAssumption, BoundAssumption
<1>1. ASSUME NEW v \in Vcpus, VcpuStep(v)
      PROVE  TypeOK'
  <2>1. ASSUME NEW c \in Cpus,
               CreateVcpu(v, c) \/ EnterRun(v, c) \/ SchedIn(v, c)
                 \/ PreemptDisable(v, c)
        PROVE  TypeOK'
    <3>1. LoadVcpu(v, c)
      BY Zenon, <2>1 DEF CreateVcpu, EnterRun, SchedIn, PreemptDisable
    <3>2. /\ vcpu_cpu' = [vcpu_cpu EXCEPT ![v] = c]
          /\ req' \in [Vcpus -> BOOLEAN]
          /\ local' \in [Cpus -> Vcpus \cup {None}]
      BY Zenon, <3>1, LoadVcpuFacts
    <3>3. vcpu_cpu' \in [Vcpus -> Cpus \cup {None}]
      BY Zenon, <3>2 DEF TypeOK
    <3>4. vpc' \in [Vcpus -> VcpuPc]
      <4>1. \/ vpc' = vpc
            \/ \E l \in {"new", "loop", "loaded"} : vpc' = [vpc EXCEPT ![v] = l]
        BY Zenon, <2>1 DEF CreateVcpu, EnterRun, SchedIn, PreemptDisable, Goto
      <4>2. {"new", "loop", "loaded"} \subseteq VcpuPc
        BY Zenon DEF VcpuPc, PinnedPc, PreemptiblePc
      <4>3. vpc \in [Vcpus -> VcpuPc]
        BY Zenon DEF TypeOK
      <4> QED BY Zenon, <4>1, <4>2, <4>3
    <3>5. mode' \in [Vcpus -> Modes]
      BY Zenon, <2>1 DEF TypeOK, CreateVcpu, EnterRun, SchedIn, PreemptDisable,
          SetMode, Modes
    <3>6. owner' \in [Cpus -> Vcpus \cup Threads \cup {None}]
      BY <2>1 DEF TypeOK, CreateVcpu, EnterRun, SchedIn, PreemptDisable
    <3>7. UNCHANGED <<memVars, tlb, fltVars, threadVars>>
      BY Zenon, <2>1 DEF CreateVcpu, EnterRun, SchedIn, PreemptDisable
    <3> QED
      BY Zenon, <3>2, <3>3, <3>4, <3>5, <3>6, <3>7
      DEF TypeOK, memVars, fltVars, threadVars, flushVars
  <2>2. CASE PublishVcpu(v)
    BY Zenon, <2>2 DEF TypeOK, PublishVcpu, Goto, memVars, fltVars, threadVars,
        flushVars, VcpuPc
  <2>13. CASE LeaveRun(v)
    BY Zenon, <2>13 DEF TypeOK, LeaveRun, Goto, SetMode, memVars, fltVars,
        threadVars, flushVars, VcpuPc, Modes
  <2>14. CASE ArmEntry(v)
    BY Zenon, <2>14 DEF TypeOK, ArmEntry, Goto, SetMode, memVars, fltVars,
        threadVars, flushVars, VcpuPc, PinnedPc, IrqOffPc, Modes
  <2>15. CASE EnterGuest(v)
    BY Zenon, <2>15 DEF TypeOK, EnterGuest, Goto, memVars, fltVars, threadVars,
        flushVars, VcpuPc, PinnedPc, IrqOffPc
  <2>10. CASE CheckRequest(v)
    BY Zenon, <2>10 DEF TypeOK, CheckRequest, Goto, memVars, fltVars, threadVars,
        flushVars, VcpuPc, PinnedPc
  <2>11. CASE AbortEntry(v)
    BY Zenon, <2>11 DEF TypeOK, AbortEntry, ReleaseCpu, Goto, SetMode, memVars,
        fltVars, threadVars, flushVars, VcpuPc, PreemptiblePc, Modes
  <2>3. CASE FlushTlb(v)
    BY Zenon, <2>3 DEF TypeOK, FlushTlb, Goto, memVars, fltVars, threadVars,
        flushVars, VcpuPc, PinnedPc
  <2>4. ASSUME NEW p \in Pages, GuestAccess(v, p)
        PROVE  TypeOK'
    <3>1. <<p, ept[p]>> \in Pages \X Frames
      BY <2>4 DEF TypeOK, GuestAccess
    <3>2. tlb' \in [Cpus -> SUBSET (Pages \X Frames)]
      BY Zenon, <2>4, <3>1 DEF TypeOK, GuestAccess
    <3> QED BY Zenon, <2>4, <3>2 DEF TypeOK, GuestAccess, memVars, fltVars,
            threadVars, flushVars
  <2>5. ASSUME NEW p \in Pages \cup {None}, NEW nmi \in BOOLEAN,
               ExitGuest(v, p, nmi)
        PROVE  TypeOK'
    BY Zenon, <2>5 DEF TypeOK, ExitGuest, Goto, SetMode, memVars, threadVars,
        flushVars, VcpuPc, PinnedPc, IrqOffPc, Modes
  <2>6. CASE EnableIrqs(v)
    BY Zenon, <2>6 DEF TypeOK, EnableIrqs, ReleaseCpu, Goto, memVars, fltVars,
        threadVars, flushVars, VcpuPc, PreemptiblePc
  <2>7. CASE ReadSeq(v)
    BY Zenon, <2>7 DEF TypeOK, ReadSeq, Goto, memVars, threadVars, flushVars, VcpuPc,
        PreemptiblePc
  <2>12. CASE PinFails(v)
    BY Zenon, <2>12 DEF TypeOK, PinFails, FaultOver, Goto, memVars, threadVars,
        flushVars, VcpuPc, PreemptiblePc
  <2>8. ASSUME NEW f \in Frames, PinPage(v, f)
        PROVE  TypeOK'
    BY Zenon, <2>8 DEF TypeOK, PinPage, Goto, threadVars, flushVars, VcpuPc,
        PreemptiblePc
  <2>9. CASE SetEpte(v)
    <3>1. vpc' = [vpc EXCEPT ![v] = "loop"] /\ "loop" \in VcpuPc
      BY Zenon, <2>9 DEF SetEpte, Goto, VcpuPc, PreemptiblePc
    <3>2. ept' \in [Pages -> Frames \cup {None}]
      <4>1. /\ ept \in [Pages -> Frames \cup {None}]
            /\ flt_frame[v] \in Frames \cup {None}
        BY Zenon DEF TypeOK
      <4>2. ept' = ept \/ ept' = [ept EXCEPT ![flt_page[v]] = flt_frame[v]]
        BY Zenon, <2>9 DEF SetEpte
      <4> QED BY Zenon, <4>1, <4>2
    <3>3. /\ flt_page' = [flt_page EXCEPT ![v] = None]
          /\ flt_seq' = [flt_seq EXCEPT ![v] = 0]
          /\ flt_frame' = [flt_frame EXCEPT ![v] = None]
      BY Zenon, <2>9 DEF SetEpte, FaultOver
    <3>4. /\ flt_page' \in [Vcpus -> Pages \cup {None}]
          /\ flt_seq' \in [Vcpus -> Nat]
          /\ flt_frame' \in [Vcpus -> Frames \cup {None}]
      BY Zenon, <3>3 DEF TypeOK
    <3>5. vpc' \in [Vcpus -> VcpuPc]
      BY Zenon, <3>1 DEF TypeOK
    <3>6. UNCHANGED <<hpt, seq, count, invl_count, mode, req, vcpu_cpu, local,
                      owner, tlb, threadVars>>
      BY Zenon, <2>9 DEF SetEpte
    <3> QED BY Zenon, <3>2, <3>4, <3>5, <3>6 DEF TypeOK, threadVars, flushVars
  <2> QED BY Zenon, <1>1, <2>1, <2>2, <2>3, <2>4, <2>5, <2>6, <2>7, <2>8, <2>9,
             <2>10, <2>11, <2>12, <2>13, <2>14, <2>15 DEF VcpuStep
<1>2. ASSUME NEW t \in Threads, ThreadStep(t)
      PROVE  TypeOK'
  <2>1. ASSUME NEW S \in SUBSET Pages, RangeStart(t, S)
        PROVE  TypeOK'
    BY <2>1 DEF TypeOK, RangeStart, TGoto, vcpuVars, fltVars, flushVars,
        ThreadPc, FlushPc
  <2>2. ASSUME NEW p \in Pages, InvalidatePage(t, p)
        PROVE  TypeOK'
    <3>1. tpc[t] \in {"idle", "open"}
      BY Zenon, <2>2 DEF InvalidatePage
    <3>2. back' \in [Threads -> {"idle", "open"}]
      BY Zenon, <2>2, <3>1 DEF TypeOK, InvalidatePage
    <3>3. tpc' \in [Threads -> ThreadPc]
      <4>1. tpc' = tpc \/ tpc' = [tpc EXCEPT ![t] = "unlocked"]
        BY Zenon, <2>2 DEF InvalidatePage, TGoto
      <4>2. tpc \in [Threads -> ThreadPc] /\ "unlocked" \in ThreadPc
        BY Zenon DEF TypeOK, ThreadPc, FlushPc
      <4> QED BY Zenon, <4>1, <4>2
    <3>4. seq' \in Nat /\ ept' \in [Pages -> Frames \cup {None}]
      <4>1. seq' = seq + 1 /\ (ept' = ept \/ ept' = [ept EXCEPT ![p] = None])
        BY Zenon, <2>2 DEF InvalidatePage
      <4>2. seq \in Nat /\ ept \in [Pages -> Frames \cup {None}]
        BY Zenon DEF TypeOK
      <4> QED BY <4>1, <4>2
    <3>5. UNCHANGED <<hpt, count, invl_count, vcpuVars, fltVars, range, flushVars>>
      BY Zenon, <2>2 DEF InvalidatePage
    <3> QED BY Zenon, <3>2, <3>3, <3>4, <3>5 DEF TypeOK, vcpuVars, fltVars, flushVars
  <2>3. ASSUME NEW c \in Cpus, NEW failed \in BOOLEAN, FlushLock(t, c, failed)
        PROVE  TypeOK'
    BY Zenon, <2>3 DEF TypeOK, FlushLock, TGoto, Published, memVars, fltVars,
        ThreadPc, FlushPc, LockedPc
  <2>4. ASSUME NEW v \in Vcpus, MakeRequest(t, v)
        PROVE  TypeOK'
    BY Zenon, <2>4 DEF TypeOK, MakeRequest, TGoto, memVars, fltVars, ThreadPc,
        FlushPc, LockedPc
  <2>5. CASE ReadCpu(t)
    <3>1. cur[t] \in Vcpus
      BY Zenon, <2>5 DEF ReadCpu, FlushInv
    <3> QED BY Zenon, <2>5, <3>1 DEF TypeOK, ReadCpu, TGoto, memVars, vcpuVars,
            fltVars, ThreadPc, FlushPc, LockedPc
  <2>6. CASE Kick(t)
    <3>1. mode' \in [Vcpus -> Modes]
      BY Zenon, <2>6 DEF TypeOK, Kick, Modes
    <3>2. targets' \in [Threads -> SUBSET Cpus]
      BY <2>6 DEF TypeOK, Kick
    <3> QED BY Zenon, <2>6, <3>1, <3>2 DEF TypeOK, Kick, TGoto, memVars, fltVars,
            ThreadPc, FlushPc, LockedPc
  <2>7. CASE SendIpis(t)
    BY Zenon, <2>7 DEF TypeOK, SendIpis, TGoto, memVars, vcpuVars, fltVars, flushVars,
        ThreadPc, FlushPc
  <2>8. ASSUME NEW c \in Cpus, AckFlush(t, c)
        PROVE  TypeOK'
    BY Zenon, <2>8 DEF TypeOK, AckFlush, memVars, vcpuVars, fltVars
  <2>9. CASE FlushDone(t)
    BY Zenon, <2>9 DEF TypeOK, FlushDone, TGoto, memVars, fltVars, ThreadPc
  <2>10. ASSUME NEW p \in Pages, NEW f \in Frames \cup {None},
                HostChange(t, p, f)
         PROVE  TypeOK'
    BY Zenon, <2>10 DEF TypeOK, HostChange, vcpuVars, fltVars, threadVars, flushVars
  <2>11. CASE RangeEnd(t)
    BY <2>11 DEF TypeOK, RangeEnd, TGoto, vcpuVars, fltVars, flushVars,
        ThreadPc
  <2> QED BY Zenon, <1>2, <2>1, <2>2, <2>3, <2>4, <2>5, <2>6, <2>7, <2>8, <2>9,
             <2>10, <2>11 DEF ThreadStep
<1>3. ASSUME NEW p \in Pages, NEW f \in Frames, HostFault(p, f)
      PROVE  TypeOK'
  BY Zenon, <1>3 DEF TypeOK, HostFault, vcpuVars, fltVars, threadVars, flushVars
<1>4. CASE UNCHANGED vars
  BY Zenon, <1>4 DEF TypeOK, vars, memVars, vcpuVars, fltVars, threadVars, flushVars
<1> QED BY Zenon, <1>1, <1>2, <1>3, <1>4 DEF Next

(* The part of the invariant about the EPT and the host page table.        *)
MemInv == CountInv /\ RangeStaysClear /\ EptMatchesHost /\ FaultInv

(* Which invalidations are open depends only on three variables.           *)
LEMMA OpenUnchanged ==
  ASSUME UNCHANGED <<tpc, back>>
  PROVE  Open' = Open
BY Zenon DEF Open, Invalidating

(* Finitely many invalidations are open, so mmu_notifier_count is a number. *)
LEMMA OpenFinite == IsFiniteSet(Open)
BY Zenon, ThreadsAssumption, FS_Subset DEF Open

(* With mmu_notifier_count at zero no invalidation is open.                *)
LEMMA CountZero ==
  ASSUME CountInv, count = 0
  PROVE  Open = {}
BY Zenon, OpenFinite, FS_EmptySet DEF CountInv

(* A vcpu step keeps the EPT a subset of the host page table, and the      *)
(* frame of a fault that will not be retried current.                      *)
LEMMA VcpuMemStep ==
  ASSUME TypeOK, MemInv, NEW v \in Vcpus, VcpuStep(v)
  PROVE  MemInv'
<1> USE NoneAssumption DEF MemInv
<1>0. UNCHANGED <<tpc, range, back, count, seq>>
  BY Zenon DEF VcpuStep, CreateVcpu, EnterRun, SchedIn, PreemptDisable, PublishVcpu,
     LeaveRun, CheckRequest, FlushTlb, ArmEntry, AbortEntry, EnterGuest,
     GuestAccess, ExitGuest, EnableIrqs, ReadSeq, PinPage, PinFails, SetEpte,
     memVars, threadVars
<1>1. Open' = Open /\ CountInv'
  BY Zenon, <1>0, OpenUnchanged DEF CountInv
<1>2. CASE \/ \E c \in Cpus : \/ CreateVcpu(v, c) \/ EnterRun(v, c)
                             \/ SchedIn(v, c) \/ PreemptDisable(v, c)
           \/ PublishVcpu(v) \/ LeaveRun(v) \/ CheckRequest(v)
           \/ FlushTlb(v) \/ ArmEntry(v) \/ AbortEntry(v) \/ EnterGuest(v)
           \/ \E p \in Pages : GuestAccess(v, p)
  <2>1. UNCHANGED <<hpt, ept, flt_page, flt_seq, flt_frame>>
    BY Zenon, <1>2 DEF CreateVcpu, EnterRun, SchedIn, PreemptDisable, PublishVcpu,
       LeaveRun, CheckRequest, FlushTlb, ArmEntry, AbortEntry, EnterGuest,
       GuestAccess, memVars, fltVars
  <2>2. \A w \in Vcpus : vpc'[w] \in {"violation", "pin", "set"}
                           => vpc'[w] = vpc[w]
    <3>1. \/ vpc' = vpc
          \/ \E l \in VcpuPc \ {"violation", "pin", "set"} : vpc' = [vpc EXCEPT ![v] = l]
      BY Zenon, <1>2 DEF CreateVcpu, EnterRun, SchedIn, PreemptDisable, PublishVcpu,
         LeaveRun, CheckRequest, FlushTlb, ArmEntry, AbortEntry, EnterGuest,
         GuestAccess, Goto, VcpuPc, PinnedPc, IrqOffPc, PreemptiblePc
    <3>2. vpc \in [Vcpus -> VcpuPc]
      BY Zenon DEF TypeOK
    <3> QED BY Zenon, <3>1, <3>2
  <2>3. FaultInv'
    BY Zenon, <1>0, <1>1, <2>1, <2>2 DEF FaultInv
  <2> QED BY Zenon, <1>0, <1>1, <2>1, <2>3 DEF RangeStaysClear, EptMatchesHost, Open
<1>3. ASSUME NEW p \in Pages \cup {None}, NEW nmi \in BOOLEAN,
             ExitGuest(v, p, nmi)
      PROVE  MemInv'
  <2>1. UNCHANGED <<hpt, ept>>
    BY Zenon, <1>3 DEF ExitGuest, memVars
  <2>2. FaultInv'
    BY SMTT(30), <1>0, <1>1, <1>3, <2>1 DEF FaultInv, ExitGuest, Goto, TypeOK
  <2> QED BY Zenon, <1>0, <1>1, <2>1, <2>2 DEF RangeStaysClear, EptMatchesHost, Open
<1>4. CASE EnableIrqs(v) \/ ReadSeq(v) \/ PinFails(v)
  <2>1. UNCHANGED <<hpt, ept>>
    BY Zenon, <1>4 DEF EnableIrqs, ReadSeq, PinFails, memVars
  <2>2. CASE EnableIrqs(v)
    <3>1. FaultInv'
      BY SMTT(30), <1>0, <1>1, <2>1, <2>2 DEF FaultInv, EnableIrqs, Goto, TypeOK, fltVars
    <3> QED BY Zenon, <1>0, <1>1, <2>1, <3>1 DEF RangeStaysClear, EptMatchesHost, Open
  <2>3. CASE ReadSeq(v)
    <3>1. FaultInv'
      BY SMTT(30), <1>0, <1>1, <2>1, <2>3 DEF FaultInv, ReadSeq, Goto, TypeOK
    <3> QED BY Zenon, <1>0, <1>1, <2>1, <3>1 DEF RangeStaysClear, EptMatchesHost, Open
  <2>4. CASE PinFails(v)
    <3>1. FaultInv'
      BY SMTT(30), <1>0, <1>1, <2>1, <2>4 DEF FaultInv, PinFails, FaultOver, Goto, TypeOK
    <3> QED BY Zenon, <1>0, <1>1, <2>1, <3>1 DEF RangeStaysClear, EptMatchesHost, Open
  <2> QED BY Zenon, <1>4, <2>2, <2>3, <2>4
<1>5. ASSUME NEW f \in Frames, PinPage(v, f)
      PROVE  MemInv'
  <2> DEFINE p == flt_page[v]
  <2>1. ept' = ept /\ hpt' = [hpt EXCEPT ![p] = f] /\ hpt[p] \in {f, None}
    BY Zenon, <1>5 DEF PinPage
  <2>2. p \in Pages
    BY Zenon, <1>5 DEF PinPage, FaultInv
  <2>3. \A q \in Pages : hpt[q] # None => hpt'[q] = hpt[q]
    BY Zenon, <2>1, <2>2 DEF TypeOK
  <2>4. FaultInv'
    <3>1. /\ vpc' = [vpc EXCEPT ![v] = "set"] /\ vpc[v] = "pin"
          /\ flt_frame' = [flt_frame EXCEPT ![v] = f]
          /\ UNCHANGED <<flt_page, flt_seq>>
      BY Zenon, <1>5 DEF PinPage, Goto
    <3> SUFFICES ASSUME NEW w \in Vcpus
                 PROVE  /\ vpc'[w] \in {"violation", "pin", "set"} => flt_page'[w] \in Pages
                        /\ vpc'[w] \in {"pin", "set"} => flt_seq'[w] <= seq'
                        /\ vpc'[w] = "set" => flt_frame'[w] \in Frames
                        /\ vpc'[w] = "set" /\ flt_seq'[w] = seq' /\ Open' = {}
                             => flt_frame'[w] = hpt'[flt_page'[w]]
      BY Zenon DEF FaultInv
    <3>2. CASE w = v
      <4>1. vpc'[v] = "set" /\ flt_frame'[v] = f /\ hpt'[p] = f
        BY Zenon, <2>1, <2>2, <3>1 DEF TypeOK
      <4>2. flt_seq[v] <= seq
        BY Zenon, <3>1 DEF FaultInv
      <4> QED BY Zenon, <1>0, <2>2, <3>1, <3>2, <4>1, <4>2
    <3>3. CASE w # v
      <4>1. vpc'[w] = vpc[w] /\ flt_frame'[w] = flt_frame[w]
        BY Zenon, <3>1, <3>3 DEF TypeOK
      <4>2. vpc[w] = "set" => flt_page[w] \in Pages /\ flt_frame[w] # None
        BY Zenon DEF FaultInv
      <4> QED BY Zenon, <1>0, <1>1, <2>3, <3>1, <4>1, <4>2 DEF FaultInv
    <3> QED BY Zenon, <3>2, <3>3
  <2>5. EptMatchesHost'
    BY Zenon, <2>1, <2>3 DEF EptMatchesHost
  <2> QED BY Zenon, <1>0, <1>1, <2>1, <2>4, <2>5 DEF RangeStaysClear, Open
<1>6. CASE SetEpte(v)
  <2>1. hpt' = hpt
    BY Zenon, <1>6 DEF SetEpte
  <2>2. FaultInv'
    BY SMTT(30), <1>0, <1>1, <1>6, <2>1 DEF FaultInv, SetEpte, FaultOver, Goto, TypeOK
  <2>3. CASE ept' = ept
    BY Zenon, <1>0, <1>1, <2>1, <2>2, <2>3 DEF RangeStaysClear, EptMatchesHost, Open
  <2>4. CASE ~mmu_notifier_retry(v)
             /\ ept' = [ept EXCEPT ![flt_page[v]] = flt_frame[v]]
    <3>1. Open = {} /\ flt_frame[v] = hpt[flt_page[v]]
      BY Zenon, <1>6, <2>4, CountZero DEF SetEpte, mmu_notifier_retry, FaultInv, TypeOK
    <3>2. EptMatchesHost'
      BY Zenon, <2>1, <2>4, <3>1 DEF EptMatchesHost, TypeOK
    <3>3. RangeStaysClear'
      BY Zenon, <1>0, <1>1, <3>1 DEF RangeStaysClear, Open
    <3> QED BY Zenon, <1>1, <2>2, <3>2, <3>3
  <2> QED BY Zenon, <1>6, <2>3, <2>4 DEF SetEpte
<1> QED BY Zenon, <1>2, <1>3, <1>4, <1>5, <1>6 DEF VcpuStep

(* A host thread's step does too: it changes the host page table only      *)
(* where its invalidation keeps the EPT clear, and moves mmu_notifier_seq  *)
(* when that ends.                                                         *)
LEMMA ThreadMemStep ==
  ASSUME TypeOK, MemInv, NEW t \in Threads, ThreadStep(t)
  PROVE  MemInv'
<1> USE NoneAssumption, ThreadsAssumption DEF MemInv
<1>1. ASSUME NEW S \in SUBSET Pages, RangeStart(t, S)
      PROVE  MemInv'
  <2>1. /\ hpt' = hpt /\ seq' = seq /\ vpc' = vpc /\ UNCHANGED fltVars
        /\ count' = count + 1
        /\ ept' = [p \in Pages |-> IF p \in S THEN None ELSE ept[p]]
    BY Zenon, <1>1 DEF RangeStart, vcpuVars
  <2>2. t \notin Open /\ Open' = Open \cup {t}
    BY <1>1 DEF Open, Invalidating, RangeStart, TGoto, TypeOK, FlushPc, LockedPc
  <2>3. CountInv'
    BY Zenon, <2>1, <2>2, OpenFinite, FS_AddElement DEF CountInv
  <2>4. RangeStaysClear'
    BY <1>1, <2>1, <2>2 DEF RangeStaysClear, RangeStart, Open, TypeOK
  <2>5. EptMatchesHost'
    BY Zenon, <2>1 DEF EptMatchesHost
  <2>6. FaultInv'
    BY Zenon, <2>1, <2>2 DEF FaultInv, fltVars
  <2> QED BY Zenon, <2>3, <2>4, <2>5, <2>6
<1>2. ASSUME NEW p \in Pages, InvalidatePage(t, p)
      PROVE  MemInv'
  <2>1. /\ hpt' = hpt /\ seq' = seq + 1 /\ vpc' = vpc /\ UNCHANGED fltVars
        /\ count' = count /\ range' = range
        /\ ept' = [ept EXCEPT ![p] = None]
    BY <1>2 DEF InvalidatePage, vcpuVars, TypeOK
  <2>2. Open' = Open
    BY <1>2 DEF Open, Invalidating, InvalidatePage, TGoto, TypeOK, FlushPc,
       LockedPc
  <2>3. CountInv'
    BY Zenon, <2>1, <2>2 DEF CountInv
  <2>4. RangeStaysClear' /\ EptMatchesHost'
    BY Zenon, <2>1, <2>2 DEF RangeStaysClear, EptMatchesHost, Open, TypeOK
  <2>5. FaultInv'
    BY <2>1 DEF FaultInv, fltVars, TypeOK
  <2> QED BY Zenon, <2>3, <2>4, <2>5
<1>3. CASE \/ \E c \in Cpus, failed \in BOOLEAN : FlushLock(t, c, failed)
           \/ \E v \in Vcpus : MakeRequest(t, v)
           \/ ReadCpu(t) \/ Kick(t) \/ SendIpis(t)
           \/ \E c \in Cpus : AckFlush(t, c)
           \/ FlushDone(t)
  <2>1. /\ UNCHANGED <<hpt, ept, seq, count>> /\ UNCHANGED <<vpc, range>>
        /\ UNCHANGED fltVars
    BY Zenon, <1>3 DEF FlushLock, MakeRequest, ReadCpu, Kick, SendIpis, AckFlush,
       FlushDone, memVars, vcpuVars
  <2>2. Open' = Open
    <3>1. CASE FlushDone(t)
      BY Zenon, <3>1 DEF Open, Invalidating, FlushDone, TGoto, TypeOK, FlushPc,
         LockedPc
    <3>2. CASE ~FlushDone(t)
      <4>1. back' = back /\ tpc[t] \in FlushPc
        BY Zenon, <1>3, <3>2 DEF FlushLock, MakeRequest, ReadCpu, Kick, SendIpis, AckFlush,
           FlushPc, LockedPc
      <4>2. tpc' = tpc \/ \E pc \in FlushPc : tpc' = [tpc EXCEPT ![t] = pc]
        <5>1. CASE \E c \in Cpus : AckFlush(t, c)
          BY Zenon, <5>1 DEF AckFlush
        <5>2. CASE ~\E c \in Cpus : AckFlush(t, c)
          <6>1. \/ tpc' = [tpc EXCEPT ![t] = "scan"] \/ tpc' = [tpc EXCEPT ![t] = "kick"]
                \/ tpc' = [tpc EXCEPT ![t] = "requested"] \/ tpc' = [tpc EXCEPT ![t] = "wait"]
            BY Zenon, <1>3, <3>2, <5>2 DEF FlushLock, MakeRequest, ReadCpu, Kick,
               SendIpis, TGoto
          <6> QED BY Zenon, <6>1 DEF FlushPc, LockedPc
        <5> QED BY Zenon, <5>1, <5>2
      <4>3. \A u \in Threads : u # t => tpc'[u] = tpc[u]
        BY Zenon, <4>2 DEF TypeOK
      <4>4. tpc'[t] \in FlushPc
        BY Zenon, <4>1, <4>2 DEF TypeOK, FlushPc
      <4>5. "open" \notin FlushPc
        BY Zenon DEF FlushPc, LockedPc
      <4>6. \A u \in Threads : Invalidating(u)' <=> Invalidating(u)
        BY Zenon, <4>1, <4>3, <4>4, <4>5 DEF Invalidating
      <4> QED BY Zenon, <4>6 DEF Open
    <3> QED BY Zenon, <3>1, <3>2
  <2> QED BY Zenon, <2>1, <2>2 DEF CountInv, RangeStaysClear, EptMatchesHost,
             FaultInv, fltVars, Open
<1>4. ASSUME NEW p \in Pages, NEW f \in Frames \cup {None},
             HostChange(t, p, f)
      PROVE  MemInv'
  <2>1. /\ hpt' = [hpt EXCEPT ![p] = f] /\ UNCHANGED <<ept, seq, count>>
        /\ UNCHANGED <<vpc, range, tpc, back>> /\ UNCHANGED fltVars
    BY Zenon, <1>4 DEF HostChange, vcpuVars, threadVars
  <2>2. Open' = Open /\ t \in Open /\ ept[p] = None
    BY Zenon, <1>4, <2>1, OpenUnchanged
    DEF HostChange, Open, Invalidating, RangeStaysClear
  <2>3. EptMatchesHost'
    BY Zenon, <2>1, <2>2 DEF EptMatchesHost, TypeOK
  <2>4. FaultInv'
    BY Zenon, <2>1, <2>2 DEF FaultInv, fltVars
  <2>5. CountInv'
    BY Zenon, <2>1, <2>2 DEF CountInv
  <2>6. RangeStaysClear'
    BY Zenon, <2>1, <2>2 DEF RangeStaysClear, Open
  <2> QED BY Zenon, <2>3, <2>4, <2>5, <2>6
<1>5. CASE RangeEnd(t)
  <2>1. /\ UNCHANGED <<hpt, ept, vpc>> /\ UNCHANGED fltVars
        /\ seq' = seq + 1 /\ count' = count - 1
    BY Zenon, <1>5 DEF RangeEnd, vcpuVars
  <2>2. t \in Open /\ Open' = Open \ {t}
    BY Zenon, <1>5 DEF Open, Invalidating, RangeEnd, TGoto, TypeOK, FlushPc, LockedPc
  <2>3. CountInv'
    BY Zenon, <2>1, <2>2, OpenFinite, FS_RemoveElement DEF CountInv
  <2>4. RangeStaysClear'
    BY <1>5, <2>1, <2>2 DEF RangeStaysClear, RangeEnd, Open, TypeOK
  <2>5. EptMatchesHost' /\ FaultInv'
    BY <2>1 DEF EptMatchesHost, FaultInv, fltVars, TypeOK
  <2> QED BY Zenon, <2>3, <2>4, <2>5
<1> QED BY Zenon, <1>1, <1>2, <1>3, <1>4, <1>5 DEF ThreadStep

(* The host faulting a page in contradicts no entry.                       *)
LEMMA HostFaultMemStep ==
  ASSUME TypeOK, MemInv, NEW p \in Pages, NEW f \in Frames, HostFault(p, f)
  PROVE  MemInv'
<1> USE NoneAssumption DEF MemInv
<1>1. /\ hpt' = [hpt EXCEPT ![p] = f] /\ hpt[p] = None
      /\ UNCHANGED <<ept, seq, count>> /\ UNCHANGED <<vpc, range, tpc, back>>
      /\ UNCHANGED fltVars
  BY Zenon DEF HostFault, vcpuVars, threadVars
<1>2. Open' = Open
  BY Zenon, <1>1, OpenUnchanged
<1>3. \A q \in Pages : hpt[q] # None => hpt'[q] = hpt[q]
  BY Zenon, <1>1 DEF TypeOK
<1>4. EptMatchesHost'
  BY Zenon, <1>1, <1>3 DEF EptMatchesHost
<1>5. FaultInv'
  BY Zenon, <1>1, <1>2, <1>3 DEF FaultInv, fltVars
<1> QED BY Zenon, <1>1, <1>2, <1>4, <1>5 DEF CountInv, RangeStaysClear, Open

(* Who is loaded where, who owns which CPU, and whom a flush will reach.   *)
PlaceInv == CpuInv /\ LoadedWhereRecorded /\ FlushInv

(* A vcpu step keeps a vcpu loaded where it is recorded (__load_vcpu, and  *)
(* preemption off from there to the exit).                                 *)
LEMMA VcpuPlaceStep ==
  ASSUME TypeOK, PlaceInv, NEW v \in Vcpus, VcpuStep(v)
  PROVE  PlaceInv'
<1> USE NoneAssumption DEF PlaceInv
<1>0. UNCHANGED <<tpc, cur, nomask, targets>>
  BY Zenon DEF VcpuStep, CreateVcpu, EnterRun, SchedIn, PreemptDisable, PublishVcpu,
     LeaveRun, CheckRequest, FlushTlb, ArmEntry, AbortEntry, EnterGuest,
     GuestAccess, ExitGuest, EnableIrqs, ReadSeq, PinPage, PinFails, SetEpte,
     threadVars, flushVars
<1>1. ASSUME NEW c \in Cpus,
             CreateVcpu(v, c) \/ EnterRun(v, c) \/ SchedIn(v, c)
      PROVE  PlaceInv'
  <2>1. LoadVcpu(v, c) /\ owner' = owner
    BY Zenon, <1>1 DEF CreateVcpu, EnterRun, SchedIn
  <2>2. /\ vcpu_cpu' = [vcpu_cpu EXCEPT ![v] = c]
        /\ \A w \in Vcpus : w # v => req'[w] = req[w]
        /\ vcpu_cpu[v] # c => req'[v]
        /\ LoadedWhereRecorded'
    BY Zenon, <2>1, LoadVcpuFacts
  <2>3. \A w \in Vcpus : w # v => vpc'[w] = vpc[w] /\ mode'[w] = mode[w]
    BY Zenon, <1>1 DEF CreateVcpu, EnterRun, SchedIn, Goto, SetMode, TypeOK
  <2>4. /\ vpc'[v] \in {"new"} \cup PreemptiblePc
        /\ vpc'[v] = "new" => vpc[v] = "none"
    BY Zenon, <1>1 DEF CreateVcpu, EnterRun, SchedIn, Goto, TypeOK, PreemptiblePc
  <2>5. CpuInv'
    <3> SUFFICES ASSUME NEW w \in Vcpus
                 PROVE  /\ vpc'[w] \in PinnedPc => vcpu_cpu'[w] # None
                                                   /\ owner'[vcpu_cpu'[w]] = w
                        /\ vpc'[w] = "none" => vcpu_cpu'[w] = None
                        /\ vpc'[w] = "new" => req'[w]
                        /\ vpc'[w] \in {"armed", "guest"}
                             => mode'[w] \in {IN_GUEST_MODE, EXITING_GUEST_MODE}
      BY Zenon DEF CpuInv
    <3>1. CASE w = v
      <4>1. vpc'[v] \notin PinnedPc /\ vpc'[v] \notin {"none", "armed", "guest"}
        BY Zenon, <2>4 DEF PinnedPc, IrqOffPc, PreemptiblePc
      <4>2. ASSUME vpc'[v] = "new" PROVE req'[v]
        <5>1. vcpu_cpu[v] = None
          BY Zenon, <2>4, <4>2 DEF CpuInv
        <5> QED BY Zenon, <2>2, <5>1
      <4> QED BY Zenon, <3>1, <4>1, <4>2
    <3>2. CASE w # v
      <4>1. vcpu_cpu'[w] = vcpu_cpu[w]
        BY Zenon, <2>2, <3>2 DEF TypeOK
      <4>2. vpc'[w] = vpc[w] /\ mode'[w] = mode[w] /\ req'[w] = req[w]
        BY Zenon, <2>2, <2>3, <3>2
      <4> QED BY Zenon, <2>1, <4>1, <4>2 DEF CpuInv
    <3> QED BY Zenon, <3>1, <3>2
  <2>6. FlushInv'
    BY Zenon, <1>0, <2>1 DEF FlushInv
  <2> QED BY Zenon, <2>2, <2>5, <2>6
<1>2. ASSUME NEW c \in Cpus, PreemptDisable(v, c)
      PROVE  PlaceInv'
  <2>1. /\ LoadVcpu(v, c) /\ owner[c] = None /\ mode' = mode
        /\ owner' = [owner EXCEPT ![c] = v]
        /\ vpc' = [vpc EXCEPT ![v] = "loaded"]
    BY Zenon, <1>2 DEF PreemptDisable, Goto
  <2>2. /\ vcpu_cpu' = [vcpu_cpu EXCEPT ![v] = c]
        /\ \A w \in Vcpus : w # v => req'[w] = req[w]
        /\ LoadedWhereRecorded'
    BY Zenon, <2>1, LoadVcpuFacts
  <2>3. CpuInv'
    <3> SUFFICES ASSUME NEW w \in Vcpus
                 PROVE  /\ vpc'[w] \in PinnedPc => vcpu_cpu'[w] # None
                                                   /\ owner'[vcpu_cpu'[w]] = w
                        /\ vpc'[w] = "none" => vcpu_cpu'[w] = None
                        /\ vpc'[w] = "new" => req'[w]
                        /\ vpc'[w] \in {"armed", "guest"}
                             => mode'[w] \in {IN_GUEST_MODE, EXITING_GUEST_MODE}
      BY Zenon DEF CpuInv
    <3>1. CASE w = v
      <4>1. vpc'[w] = "loaded" /\ vcpu_cpu'[w] = c /\ owner'[c] = v
        BY Zenon, <2>1, <2>2, <3>1 DEF TypeOK
      <4> QED BY Zenon, <3>1, <4>1, NoneAssumption DEF PinnedPc, IrqOffPc
    <3>2. CASE w # v
      <4>1. /\ vpc'[w] = vpc[w] /\ vcpu_cpu'[w] = vcpu_cpu[w]
            /\ mode'[w] = mode[w] /\ req'[w] = req[w]
        BY Zenon, <2>1, <2>2, <3>2 DEF TypeOK
      <4>2. owner[vcpu_cpu[w]] = w => owner'[vcpu_cpu[w]] = w
        BY <2>1, NoneAssumption DEF TypeOK
      <4> QED BY Zenon, <4>1, <4>2 DEF CpuInv
    <3> QED BY Zenon, <3>1, <3>2
  <2>4. FlushInv'
    BY <1>0, <2>1 DEF FlushInv, TypeOK
  <2> QED BY Zenon, <2>2, <2>3, <2>4
<1>3. CASE \/ PublishVcpu(v) \/ LeaveRun(v) \/ CheckRequest(v)
           \/ FlushTlb(v) \/ ArmEntry(v) \/ EnterGuest(v)
           \/ \E p \in Pages : GuestAccess(v, p)
           \/ ReadSeq(v) \/ PinFails(v) \/ SetEpte(v)
           \/ \E f \in Frames : PinPage(v, f)
  <2>1. UNCHANGED <<vcpu_cpu, local, owner>>
    BY Zenon, <1>3 DEF PublishVcpu, LeaveRun, CheckRequest, FlushTlb, ArmEntry,
       EnterGuest, GuestAccess, ReadSeq, PinFails, SetEpte, PinPage
  <2>2. \A w \in Vcpus : w # v => /\ vpc'[w] = vpc[w] /\ mode'[w] = mode[w]
                                  /\ req'[w] = req[w]
    <3>1. CASE PublishVcpu(v) \/ LeaveRun(v) \/ CheckRequest(v) \/ FlushTlb(v)
      BY SMTT(30), <3>1 DEF PublishVcpu, LeaveRun, CheckRequest, FlushTlb, Goto,
         SetMode, TypeOK
    <3>2. CASE ArmEntry(v) \/ EnterGuest(v)
      BY SMTT(30), <3>2 DEF ArmEntry, EnterGuest, Goto, SetMode, TypeOK
    <3>3. CASE \/ \E p \in Pages : GuestAccess(v, p)
               \/ \E f \in Frames : PinPage(v, f)
      BY SMTT(30), <3>3 DEF GuestAccess, PinPage, Goto, TypeOK
    <3>4. CASE ReadSeq(v) \/ PinFails(v) \/ SetEpte(v)
      BY SMTT(30), <3>4 DEF ReadSeq, PinFails, SetEpte, Goto, TypeOK
    <3> QED BY Zenon, <1>3, <3>1, <3>2, <3>3, <3>4
  <2>3. /\ vpc'[v] \in PinnedPc => vpc[v] \in PinnedPc
        /\ vpc'[v] \notin {"none", "new"} /\ vpc[v] # "none"
        /\ vpc'[v] \in {"armed", "guest"}
             => mode'[v] \in {IN_GUEST_MODE, EXITING_GUEST_MODE}
    <3>1. CASE PublishVcpu(v) \/ LeaveRun(v)
      BY ZenonT(30), <3>1 DEF PublishVcpu, LeaveRun, Goto, TypeOK, PinnedPc, IrqOffPc
    <3>2. CASE CheckRequest(v) \/ FlushTlb(v)
      BY SMTT(30), <3>2 DEF CheckRequest, FlushTlb, Goto, TypeOK, PinnedPc, IrqOffPc
    <3>3. CASE ArmEntry(v)
      BY Zenon, <3>3 DEF ArmEntry, Goto, SetMode, TypeOK, PinnedPc, IrqOffPc
    <3>4. CASE EnterGuest(v)
      BY Zenon, <3>4 DEF EnterGuest, Goto, TypeOK, CpuInv, PinnedPc, IrqOffPc
    <3>5. CASE \E p \in Pages : GuestAccess(v, p)
      BY Zenon, <3>5 DEF GuestAccess, TypeOK, CpuInv, PinnedPc, IrqOffPc
    <3>6. CASE ReadSeq(v) \/ PinFails(v) \/ SetEpte(v)
      <4>1. vpc' = [vpc EXCEPT ![v] = "pin"] \/ vpc' = [vpc EXCEPT ![v] = "loop"]
        BY Zenon, <3>6 DEF ReadSeq, PinFails, SetEpte, Goto
      <4>2. vpc'[v] \in {"pin", "loop"}
        BY Zenon, <4>1 DEF TypeOK
      <4>3. vpc[v] # "none"
        BY Zenon, <3>6 DEF ReadSeq, PinFails, SetEpte
      <4> QED BY Zenon, <4>2, <4>3 DEF PinnedPc, IrqOffPc
    <3>7. CASE \E f \in Frames : PinPage(v, f)
      BY <3>7 DEF PinPage, Goto, TypeOK, PinnedPc, IrqOffPc
    <3> QED BY Zenon, <1>3, <3>1, <3>2, <3>3, <3>4, <3>5, <3>6, <3>7
  <2>5. CpuInv'
    <3> SUFFICES ASSUME NEW w \in Vcpus
                 PROVE  /\ vpc'[w] \in PinnedPc => vcpu_cpu'[w] # None
                                                   /\ owner'[vcpu_cpu'[w]] = w
                        /\ vpc'[w] = "none" => vcpu_cpu'[w] = None
                        /\ vpc'[w] = "new" => req'[w]
                        /\ vpc'[w] \in {"armed", "guest"}
                             => mode'[w] \in {IN_GUEST_MODE, EXITING_GUEST_MODE}
      BY Zenon DEF CpuInv
    <3>1. CASE w = v
      <4>1. vpc[v] \in PinnedPc => vcpu_cpu[v] # None /\ owner[vcpu_cpu[v]] = v
        BY Zenon DEF CpuInv
      <4> QED BY Zenon, <2>1, <2>3, <3>1, <4>1
    <3>2. CASE w # v
      BY <2>1, <2>2, <3>2 DEF CpuInv
    <3> QED BY Zenon, <3>1, <3>2
  <2>6. LoadedWhereRecorded' /\ FlushInv'
    BY Zenon, <1>0, <2>1 DEF LoadedWhereRecorded, FlushInv
  <2> QED BY Zenon, <2>5, <2>6
<1>4. CASE AbortEntry(v) \/ EnableIrqs(v)
  <2>1. /\ UNCHANGED <<vcpu_cpu, local, req>>
        /\ owner' = [owner EXCEPT ![vcpu_cpu[v]] = None]
        /\ vpc[v] \in PinnedPc
    BY Zenon, <1>4 DEF AbortEntry, EnableIrqs, ReleaseCpu, PinnedPc, IrqOffPc
  <2>2. /\ vpc'[v] \in {"loop", "violation"}
        /\ \A w \in Vcpus : w # v => vpc'[w] = vpc[w] /\ mode'[w] = mode[w]
    BY Zenon, <1>4 DEF AbortEntry, EnableIrqs, Goto, SetMode, TypeOK
  <2>3. owner[vcpu_cpu[v]] = v /\ vcpu_cpu[v] \in Cpus
    BY <2>1 DEF CpuInv, TypeOK
  <2>4. CpuInv'
    <3> SUFFICES ASSUME NEW w \in Vcpus
                 PROVE  /\ vpc'[w] \in PinnedPc => vcpu_cpu'[w] # None
                                                   /\ owner'[vcpu_cpu'[w]] = w
                        /\ vpc'[w] = "none" => vcpu_cpu'[w] = None
                        /\ vpc'[w] = "new" => req'[w]
                        /\ vpc'[w] \in {"armed", "guest"}
                             => mode'[w] \in {IN_GUEST_MODE, EXITING_GUEST_MODE}
      BY Zenon DEF CpuInv
    <3>1. CASE w = v
      BY Zenon, <2>2, <3>1 DEF PinnedPc, IrqOffPc
    <3>2. CASE w # v
      <4>1. owner[vcpu_cpu[w]] = w => owner'[vcpu_cpu[w]] = w
        BY <2>1, <2>3, <3>2 DEF TypeOK
      <4> QED BY Zenon, <2>1, <2>2, <3>2, <4>1 DEF CpuInv
    <3> QED BY Zenon, <3>1, <3>2
  <2>5. \A d \in Cpus, t \in Threads : owner[d] = t => owner'[d] = t
    BY <2>1, <2>3 DEF TypeOK
  <2>6. FlushInv'
    BY Zenon, <1>0, <2>5 DEF FlushInv
  <2> QED BY Zenon, <2>1, <2>4, <2>6 DEF LoadedWhereRecorded
<1>5. ASSUME NEW p \in Pages \cup {None}, NEW nmi \in BOOLEAN,
             ExitGuest(v, p, nmi)
      PROVE  PlaceInv'
  <2>1. /\ UNCHANGED <<vcpu_cpu, req, owner>>
        /\ vpc' = [vpc EXCEPT ![v] = "exited"]
        /\ mode' = [mode EXCEPT ![v] = OUTSIDE_GUEST_MODE]
        /\ vpc[v] = "guest"
    BY Zenon, <1>5 DEF ExitGuest, Goto, SetMode
  <2>2. CpuInv'
    BY SMTT(30), <2>1 DEF CpuInv, TypeOK, PinnedPc, IrqOffPc
  <2>3. LoadedWhereRecorded'
    BY Zenon, <1>5, <2>1 DEF LoadedWhereRecorded, ExitGuest, TypeOK
  <2>4. FlushInv'
    BY Zenon, <1>0, <2>1 DEF FlushInv
  <2> QED BY Zenon, <2>2, <2>3, <2>4
<1> QED BY Zenon, <1>1, <1>2, <1>3, <1>4, <1>5 DEF VcpuStep

(* A step of a flushing thread moves no vcpu, and keeps what the thread    *)
(* knows of the CPUs it will interrupt (ept_flush_remote_tlbs).            *)
LEMMA ThreadPlaceStep ==
  ASSUME TypeOK, PlaceInv, NEW t \in Threads, ThreadStep(t)
  PROVE  PlaceInv'
<1> USE NoneAssumption DEF PlaceInv
<1>1. CASE \/ \E S \in SUBSET Pages : RangeStart(t, S)
           \/ \E p \in Pages : InvalidatePage(t, p)
           \/ \E p \in Pages, f \in Frames \cup {None} : HostChange(t, p, f)
           \/ RangeEnd(t) \/ SendIpis(t)
  <2>1. UNCHANGED <<vpc, mode, req, vcpu_cpu, local, owner, cur, nomask,
                    targets>>
    BY Zenon, <1>1 DEF RangeStart, InvalidatePage, HostChange, RangeEnd, SendIpis,
       vcpuVars, threadVars, flushVars
  <2>2. \A s \in Threads : tpc'[s] \in LockedPc => tpc'[s] = tpc[s]
    <3>1. \/ tpc' = tpc \/ tpc' = [tpc EXCEPT ![t] = "unlocked"]
          \/ tpc' = [tpc EXCEPT ![t] = "idle"] \/ tpc' = [tpc EXCEPT ![t] = "wait"]
      BY Zenon, <1>1 DEF RangeStart, InvalidatePage, HostChange, RangeEnd, SendIpis,
         TGoto, threadVars
    <3> QED BY <3>1 DEF TypeOK, LockedPc
  <2>3. CpuInv' /\ LoadedWhereRecorded'
    BY Zenon, <2>1 DEF CpuInv, LoadedWhereRecorded
  <2>4. FlushInv'
    BY Zenon, <2>1, <2>2 DEF FlushInv, LockedPc
  <2> QED BY Zenon, <2>3, <2>4
<1>2. ASSUME NEW c \in Cpus, NEW failed \in BOOLEAN, FlushLock(t, c, failed)
      PROVE  PlaceInv'
  <2>1. /\ UNCHANGED <<vpc, mode, req, vcpu_cpu, local, cur>>
        /\ owner[c] = None /\ owner' = [owner EXCEPT ![c] = t]
        /\ tpc' = [tpc EXCEPT ![t] = "scan"]
        /\ nomask' = [nomask EXCEPT ![t] = failed]
        /\ targets' = [targets EXCEPT ![t] = IF failed THEN Cpus \ {c} ELSE {}]
    BY Zenon, <1>2 DEF FlushLock, TGoto
  <2>2. CpuInv' /\ LoadedWhereRecorded'
    <3>1. LoadedWhereRecorded'
      BY Zenon, <2>1 DEF LoadedWhereRecorded
    <3>2. \A d \in Cpus : owner[d] # None => owner'[d] = owner[d]
      BY Zenon, <2>1 DEF TypeOK
    <3>3. \A v \in Vcpus : vcpu_cpu[v] # None /\ owner[vcpu_cpu[v]] = v
                            => owner'[vcpu_cpu[v]] = v
      <4>1. \A v \in Vcpus : vcpu_cpu[v] \in Cpus \cup {None} /\ v # None
        BY Zenon DEF TypeOK
      <4> QED BY Zenon, <3>2, <4>1
    <3>4. CpuInv'
      BY <2>1, <3>3 DEF CpuInv
    <3> QED BY Zenon, <3>1, <3>4
  <2>3. FlushInv'
    BY SMTT(30), <2>1 DEF FlushInv, TypeOK, LockedPc
  <2> QED BY Zenon, <2>2, <2>3
<1>3. ASSUME NEW v \in Vcpus, MakeRequest(t, v)
      PROVE  PlaceInv'
  <2>1. /\ UNCHANGED <<vpc, mode, vcpu_cpu, local, owner, nomask, targets>>
        /\ req' = [req EXCEPT ![v] = TRUE]
        /\ cur' = [cur EXCEPT ![t] = v]
        /\ tpc[t] = "scan" /\ tpc' = [tpc EXCEPT ![t] = "requested"]
    BY Zenon, <1>3 DEF MakeRequest, TGoto
  <2>2. \A w \in Vcpus : req[w] => req'[w]
    BY Zenon, <2>1 DEF TypeOK
  <2>3. CpuInv' /\ LoadedWhereRecorded'
    BY Zenon, <2>1, <2>2 DEF CpuInv, LoadedWhereRecorded
  <2>4. FlushInv'
    BY Zenon, <2>1 DEF FlushInv, TypeOK, LockedPc
  <2> QED BY Zenon, <2>3, <2>4
<1>4. CASE ReadCpu(t)
  <2>1. UNCHANGED <<vpc, mode, req, vcpu_cpu, local, owner, cur, nomask,
                    targets>>
    BY Zenon, <1>4 DEF ReadCpu, vcpuVars
  <2>2. tpc[t] = "requested" /\ tpc' = [tpc EXCEPT ![t] = "kick"]
    BY Zenon, <1>4 DEF ReadCpu, TGoto
  <2>3. CpuInv' /\ LoadedWhereRecorded'
    BY Zenon, <2>1 DEF CpuInv, LoadedWhereRecorded
  <2>4. \A s \in Threads :
          /\ tpc'[s] \in {"requested", "kick"} => tpc[s] \in {"requested", "kick"}
          /\ tpc'[s] \in LockedPc => tpc[s] \in LockedPc
    BY Zenon, <2>2 DEF TypeOK, LockedPc
  <2>5. FlushInv'
    BY Zenon, <2>1, <2>4 DEF FlushInv
  <2> QED BY Zenon, <2>3, <2>5
<1>5. CASE Kick(t)
  <2>1. UNCHANGED <<vpc, req, vcpu_cpu, local, owner, nomask>>
    BY Zenon, <1>5 DEF Kick
  <2>2. \A w \in Vcpus : mode'[w] = mode[w] \/ mode'[w] = EXITING_GUEST_MODE
    BY Zenon, <1>5 DEF Kick, TypeOK
  <2>3. CpuInv' /\ LoadedWhereRecorded'
    BY Zenon, <2>1, <2>2 DEF CpuInv, LoadedWhereRecorded
  <2>4. /\ tpc[t] = "kick" /\ tpc' = [tpc EXCEPT ![t] = "scan"]
        /\ cur' = [cur EXCEPT ![t] = None]
        /\ \A s \in Threads : targets[s] \subseteq targets'[s]
    BY Zenon, <1>5 DEF Kick, TGoto, TypeOK
  <2>5. FlushInv'
    BY Zenon, <2>1, <2>4 DEF FlushInv, TypeOK, LockedPc
  <2> QED BY Zenon, <2>3, <2>5
<1>6. ASSUME NEW c \in Cpus, AckFlush(t, c)
      PROVE  PlaceInv'
  <2>1. /\ UNCHANGED <<vpc, mode, req, vcpu_cpu, local, owner, cur, nomask, tpc>>
        /\ tpc[t] = "wait" /\ \A s \in Threads : s # t => targets'[s] = targets[s]
    BY Zenon, <1>6 DEF AckFlush, vcpuVars, TypeOK
  <2> QED BY Zenon, <2>1 DEF CpuInv, LoadedWhereRecorded, FlushInv, LockedPc
<1>7. CASE FlushDone(t)
  <2>1. /\ UNCHANGED <<vpc, mode, req, vcpu_cpu, local, cur, targets>>
        /\ owner' = [c \in Cpus |-> IF owner[c] = t THEN None ELSE owner[c]]
        /\ tpc' = [tpc EXCEPT ![t] = back[t]]
        /\ nomask' = [nomask EXCEPT ![t] = FALSE]
    BY Zenon, <1>7 DEF FlushDone, TGoto
  <2>2. CpuInv' /\ LoadedWhereRecorded'
    <3>1. LoadedWhereRecorded'
      BY Zenon, <2>1 DEF LoadedWhereRecorded
    <3>2. \A v \in Vcpus : vcpu_cpu[v] # None /\ owner[vcpu_cpu[v]] = v
                            => owner'[vcpu_cpu[v]] = v
      <4>1. \A v \in Vcpus : vcpu_cpu[v] \in Cpus \cup {None} /\ v # t
        BY DEF TypeOK
      <4> QED BY Zenon, <2>1, <4>1
    <3>3. CpuInv'
      BY Zenon, <2>1, <3>2 DEF CpuInv
    <3> QED BY Zenon, <3>1, <3>3
  <2>3. back[t] \in {"idle", "open"}
    BY Zenon DEF TypeOK
  <2>4. FlushInv'
    BY Zenon, <2>1, <2>3 DEF FlushInv, TypeOK, LockedPc
  <2> QED BY Zenon, <2>2, <2>4
<1> QED BY Zenon, <1>1, <1>2, <1>3, <1>4, <1>5, <1>6, <1>7 DEF ThreadStep

(* A vcpu step leaves nothing stale behind: it flushes before the entry    *)
(* that follows a request, and caches only what the EPT holds.             *)
LEMMA VcpuTlbStep ==
  ASSUME TypeOK, MemInv, PlaceInv, TlbInv, NEW v \in Vcpus, VcpuStep(v)
  PROVE  TlbInv'
<1> USE NoneAssumption
<1>0. UNCHANGED <<tpc, range, back, todo, cur, seen_cpu, targets>>
  BY Zenon DEF VcpuStep, CreateVcpu, EnterRun, SchedIn, PreemptDisable, PublishVcpu,
     LeaveRun, CheckRequest, FlushTlb, ArmEntry, AbortEntry, EnterGuest,
     GuestAccess, ExitGuest, EnableIrqs, ReadSeq, PinPage, PinFails, SetEpte,
     threadVars, flushVars
<1>1. Open' = Open
  BY Zenon, <1>0, OpenUnchanged
<1>2. \A t \in Threads, w \in Vcpus :
         /\ Unvisited(t, w)' <=> Unvisited(t, w)
         /\ vcpu_cpu'[w] = vcpu_cpu[w] => (Reaching(t, w)' <=> Reaching(t, w))
  BY <1>0 DEF Unvisited, Reaching
<1>3. \A w \in Vcpus : hpt' = hpt /\ tlb' = tlb /\ vcpu_cpu'[w] = vcpu_cpu[w]
        => (CleanTlb(w)' <=> CleanTlb(w)) /\ (SafeTlb(w)' <=> SafeTlb(w))
  BY Zenon, <1>0, <1>1, <1>2 DEF CleanTlb, SafeTlb, Open
<1>4. ASSUME NEW c \in Cpus,
             CreateVcpu(v, c) \/ EnterRun(v, c) \/ SchedIn(v, c)
               \/ PreemptDisable(v, c)
      PROVE  TlbInv'
  <2>1. LoadVcpu(v, c) /\ hpt' = hpt /\ tlb' = tlb
    BY Zenon, <1>4 DEF CreateVcpu, EnterRun, SchedIn, PreemptDisable, memVars
  <2>2. /\ vcpu_cpu' = [vcpu_cpu EXCEPT ![v] = c]
        /\ \A w \in Vcpus : w # v => req'[w] = req[w]
        /\ vcpu_cpu[v] # c => req'[v]
        /\ vcpu_cpu[v] = c => req'[v] = req[v]
    BY Zenon, <2>1, LoadVcpuFacts DEF PlaceInv
  <2>3. /\ \A w \in Vcpus : w # v => vpc'[w] = vpc[w]
        /\ vpc[v] # "flush" /\ vpc'[v] # "guest"
    BY Zenon, <1>4 DEF CreateVcpu, EnterRun, SchedIn, PreemptDisable, Goto, TypeOK,
       PreemptiblePc
  <2>4. \A w \in Vcpus : w # v => vcpu_cpu'[w] = vcpu_cpu[w]
    BY Zenon, <2>2 DEF TypeOK
  <2>5. vcpu_cpu'[v] = c
    BY Zenon, <2>2 DEF TypeOK
  <2> SUFFICES ASSUME NEW w \in Vcpus, vcpu_cpu'[w] # None
               PROVE  /\ req'[w] \/ vpc'[w] = "flush" \/ CleanTlb(w)'
                      /\ vpc'[w] = "guest" => SafeTlb(w)'
    BY Zenon DEF TlbInv
  <2>6. CASE w # v
    BY Zenon, <1>3, <2>1, <2>2, <2>3, <2>4, <2>6 DEF TlbInv
  <2>7. CASE w = v /\ vcpu_cpu[v] # c
    BY Zenon, <2>2, <2>3, <2>7
  <2>8. CASE w = v /\ vcpu_cpu[v] = c
    BY Zenon, <1>3, <2>1, <2>2, <2>3, <2>5, <2>8 DEF TlbInv
  <2> QED BY Zenon, <2>6, <2>7, <2>8
<1>5. CASE \/ PublishVcpu(v) \/ LeaveRun(v) \/ ArmEntry(v) \/ AbortEntry(v)
           \/ EnableIrqs(v) \/ ReadSeq(v) \/ PinFails(v) \/ SetEpte(v)
           \/ \E p \in Pages \cup {None}, nmi \in BOOLEAN : ExitGuest(v, p, nmi)
  <2>1. UNCHANGED <<hpt, tlb, req, vcpu_cpu>>
    BY Zenon, <1>5 DEF PublishVcpu, LeaveRun, ArmEntry, AbortEntry, EnableIrqs,
       ReadSeq, PinFails, SetEpte, ExitGuest, memVars
  <2>2. /\ \A w \in Vcpus : w # v => vpc'[w] = vpc[w]
        /\ vpc[v] # "flush" /\ vpc'[v] # "guest"
    <3>1. vpc[v] # "flush"
      BY Zenon, <1>5 DEF PublishVcpu, LeaveRun, ArmEntry, AbortEntry, EnableIrqs,
         ReadSeq, PinFails, SetEpte, ExitGuest
    <3>2. \E pc : pc # "guest" /\ Goto(v, pc)
      BY Zenon, <1>5 DEF PublishVcpu, LeaveRun, ArmEntry, AbortEntry, EnableIrqs,
         ReadSeq, PinFails, SetEpte, ExitGuest
    <3> QED BY Zenon, <3>1, <3>2 DEF Goto, TypeOK
  <2> QED BY Zenon, <1>3, <2>1, <2>2 DEF TlbInv
<1>6. CASE CheckRequest(v)
  <2>1. /\ UNCHANGED <<hpt, tlb, vcpu_cpu>> /\ vpc[v] = "loaded"
        /\ vpc' = [vpc EXCEPT ![v] = IF req[v] THEN "flush" ELSE "ready"]
    BY Zenon, <1>6 DEF CheckRequest, Goto, memVars
  <2>2. \A w \in Vcpus : w # v => req'[w] = req[w] /\ vpc'[w] = vpc[w]
    BY Zenon, <1>6, <2>1 DEF CheckRequest, TypeOK
  <2>3. /\ vpc'[v] \in {"flush", "ready"}
        /\ req[v] => vpc'[v] = "flush"
    BY Zenon, <2>1 DEF TypeOK
  <2> QED BY Zenon, <1>3, <2>1, <2>2, <2>3 DEF TlbInv
<1>7. CASE FlushTlb(v)
  <2>1. /\ UNCHANGED <<hpt, req, vcpu_cpu>> /\ vpc[v] = "flush"
        /\ tlb' = [tlb EXCEPT ![vcpu_cpu[v]] = {}]
        /\ vpc' = [vpc EXCEPT ![v] = "ready"]
    BY Zenon, <1>7 DEF FlushTlb, Goto, memVars
  <2>2. \A w \in Vcpus : vcpu_cpu[w] = vcpu_cpu[v] /\ vcpu_cpu[w] # None
                           => CleanTlb(w)' /\ SafeTlb(w)'
    BY <2>1 DEF CleanTlb, SafeTlb, TypeOK
  <2>3. ASSUME NEW w \in Vcpus, vcpu_cpu[w] # vcpu_cpu[v], vcpu_cpu[w] # None
        PROVE  (CleanTlb(w) => CleanTlb(w)') /\ (SafeTlb(w) => SafeTlb(w)')
    <3>1. \A e \in tlb'[vcpu_cpu'[w]] :
            /\ e \in tlb[vcpu_cpu[w]]
            /\ hpt[e[1]] = e[2] => hpt'[e[1]] = e[2]
      <4>1. vcpu_cpu[w] \in Cpus /\ tlb \in [Cpus -> SUBSET (Pages \X Frames)]
        BY <2>3 DEF TypeOK
      <4>2. tlb'[vcpu_cpu[w]] = tlb[vcpu_cpu[w]]
        BY Zenon, <2>1, <2>3, <4>1
      <4> QED BY Zenon, <2>1, <4>2
    <3>2. vcpu_cpu'[w] = vcpu_cpu[w]
      BY Zenon, <2>1
    <3>3. \A t \in Open' :
            /\ t \in Open /\ range'[t] = range[t]
            /\ Unvisited(t, w) => Unvisited(t, w)'
            /\ Reaching(t, w) => Reaching(t, w)'
      BY Zenon, <1>0, <1>1, <1>2, <3>2 DEF Open
    <3>4. CleanTlb(w) => CleanTlb(w)'
      BY Zenon, <3>1, <3>3 DEF CleanTlb
    <3>5. SafeTlb(w) => SafeTlb(w)'
      BY Zenon, <3>1, <3>3 DEF SafeTlb
    <3> QED BY Zenon, <3>4, <3>5
  <2>4. \A w \in Vcpus : w # v => vpc'[w] = vpc[w]
    BY Zenon, <2>1 DEF TypeOK
  <2> QED BY Zenon, <2>1, <2>2, <2>3, <2>4 DEF TlbInv
<1>8. CASE EnterGuest(v)
  <2>1. /\ UNCHANGED <<hpt, tlb, req, vcpu_cpu>> /\ vpc[v] = "armed" /\ ~req[v]
        /\ vpc' = [vpc EXCEPT ![v] = "guest"]
    BY Zenon, <1>8 DEF EnterGuest, Goto, memVars
  <2>2. vcpu_cpu[v] # None => CleanTlb(v) /\ SafeTlb(v)
    BY Zenon, <2>1 DEF TlbInv, CleanTlb, SafeTlb
  <2>3. \A w \in Vcpus : w # v => vpc'[w] = vpc[w]
    BY Zenon, <2>1 DEF TypeOK
  <2> QED BY Zenon, <1>3, <2>1, <2>2, <2>3 DEF TlbInv
<1>9. ASSUME NEW p \in Pages, GuestAccess(v, p)
      PROVE  TlbInv'
  <2>1. /\ UNCHANGED <<hpt, req, vcpu_cpu, vpc>> /\ vpc[v] = "guest"
        /\ ept[p] # None
        /\ tlb' = [tlb EXCEPT ![vcpu_cpu[v]] = @ \cup {<<p, ept[p]>>}]
    BY Zenon, <1>9 DEF GuestAccess, memVars
  <2>2. hpt[p] = ept[p] /\ \A t \in Open : p \notin range[t]
    BY Zenon, <2>1 DEF MemInv, EptMatchesHost, RangeStaysClear, Open
  <2>3. \A c \in Cpus : \A e \in tlb'[c] : e \in tlb[c] \/ e = <<p, ept[p]>>
    BY Zenon, <2>1 DEF TypeOK
  <2>4. ASSUME NEW w \in Vcpus, vcpu_cpu[w] # None
        PROVE  (CleanTlb(w) => CleanTlb(w)') /\ (SafeTlb(w) => SafeTlb(w)')
    <3>1. vcpu_cpu[w] \in Cpus
      BY <2>4 DEF TypeOK
    <3>2. CleanTlb(w) => CleanTlb(w)'
      <4> SUFFICES ASSUME CleanTlb(w), NEW e \in tlb'[vcpu_cpu[w]]
                   PROVE  /\ hpt'[e[1]] = e[2]
                          /\ \A t \in Open' : e[1] \in range'[t] => Unvisited(t, w)'
        BY Zenon, <2>1 DEF CleanTlb
      <4>1. CASE e \in tlb[vcpu_cpu[w]]
        <5>1. Open \subseteq Threads
          BY Zenon DEF Open
        <5> QED BY Zenon, <1>0, <1>1, <1>2, <2>1, <4>1, <5>1 DEF CleanTlb
      <4>2. CASE e = <<p, ept[p]>>
        <5>1. e[1] = p /\ e[2] = ept[p]
          BY Zenon, <4>2
        <5> QED BY Zenon, <1>0, <1>1, <2>1, <2>2, <5>1
      <4> QED BY Zenon, <2>3, <3>1, <4>1, <4>2
    <3>3. SafeTlb(w) => SafeTlb(w)'
      <4> SUFFICES ASSUME SafeTlb(w), NEW e \in tlb'[vcpu_cpu[w]]
                   PROVE  /\ hpt'[e[1]] = e[2]
                          /\ \A t \in Open' : e[1] \in range'[t]
                               => Unvisited(t, w)' \/ Reaching(t, w)'
        BY Zenon, <2>1 DEF SafeTlb
      <4>1. CASE e \in tlb[vcpu_cpu[w]]
        <5>1. Open \subseteq Threads
          BY Zenon DEF Open
        <5> QED BY Zenon, <1>0, <1>1, <1>2, <2>1, <4>1, <5>1 DEF SafeTlb
      <4>2. CASE e = <<p, ept[p]>>
        <5>1. e[1] = p /\ e[2] = ept[p]
          BY Zenon, <4>2
        <5> QED BY Zenon, <1>0, <1>1, <2>1, <2>2, <5>1
      <4> QED BY Zenon, <2>3, <3>1, <4>1, <4>2
    <3> QED BY Zenon, <3>2, <3>3
  <2> QED BY Zenon, <2>1, <2>4 DEF TlbInv
<1>10. ASSUME NEW f \in Frames, PinPage(v, f)
       PROVE  TlbInv'
  <2>1. /\ UNCHANGED <<tlb, req, vcpu_cpu>> /\ vpc[v] = "pin"
        /\ hpt[flt_page[v]] \in {f, None}
        /\ hpt' = [hpt EXCEPT ![flt_page[v]] = f]
        /\ vpc' = [vpc EXCEPT ![v] = "set"]
    BY Zenon, <1>10 DEF PinPage, Goto
  <2>2. \A q \in Pages : hpt[q] # None => hpt'[q] = hpt[q]
    BY Zenon, <2>1 DEF TypeOK
  <2>3. ASSUME NEW w \in Vcpus, vcpu_cpu[w] # None
        PROVE  (CleanTlb(w) => CleanTlb(w)') /\ (SafeTlb(w) => SafeTlb(w)')
    <3>1. ASSUME NEW e \in tlb[vcpu_cpu[w]], hpt[e[1]] = e[2]
          PROVE  hpt'[e[1]] = e[2]
      <4>1. e \in Pages \X Frames
        BY <2>3 DEF TypeOK
      <4> QED BY Zenon, <2>2, <3>1, <4>1
    <3> QED BY Zenon, <1>0, <1>1, <1>2, <2>1, <3>1 DEF CleanTlb, SafeTlb, Open
  <2>4. \A w \in Vcpus : w # v => vpc'[w] = vpc[w]
    BY Zenon, <2>1 DEF TypeOK
  <2> QED BY Zenon, <2>1, <2>3, <2>4 DEF TlbInv, TypeOK
<1> QED BY Zenon, <1>4, <1>5, <1>6, <1>7, <1>8, <1>9, <1>10 DEF VcpuStep

(* A host thread's step lets the host change a page only once its flush    *)
(* has got every vcpu that may have the page cached out of the guest.      *)
LEMMA ThreadTlbStep ==
  ASSUME TypeOK, MemInv, PlaceInv, TlbInv, NEW t \in Threads, ThreadStep(t)
  PROVE  TlbInv'
<1> USE NoneAssumption
<1>0. UNCHANGED <<vpc, tlb, vcpu_cpu>>
  BY Zenon DEF ThreadStep, RangeStart, InvalidatePage, FlushLock, MakeRequest,
     ReadCpu, Kick, SendIpis, AckFlush, FlushDone, HostChange, RangeEnd,
     vcpuVars
<1>1. (\A w \in Vcpus : req[w] => req'[w])
  BY Zenon DEF ThreadStep, RangeStart, InvalidatePage, FlushLock, MakeRequest,
     ReadCpu, Kick, SendIpis, AckFlush, FlushDone, HostChange, RangeEnd,
     vcpuVars, TypeOK
(* It is enough that what is cached by vcpus that are clean, or safe in    *)
(* the guest, stays so.                                                    *)
<1>2. SUFFICES ASSUME NEW w \in Vcpus, vcpu_cpu[w] # None
               PROVE  /\ CleanTlb(w) /\ ~req'[w] => CleanTlb(w)'
                      /\ vpc[w] = "guest" /\ SafeTlb(w) => SafeTlb(w)'
  BY Zenon, <1>0, <1>1 DEF TlbInv
<1>3. vcpu_cpu[w] \in Cpus
  BY <1>2 DEF TypeOK
<1>4. vpc[w] = "guest" => owner[vcpu_cpu[w]] = w /\ IrqsOff(vcpu_cpu[w])
                          /\ mode[w] # OUTSIDE_GUEST_MODE
  BY Zenon DEF PlaceInv, CpuInv, PinnedPc, IrqOffPc, IrqsOff, OUTSIDE_GUEST_MODE,
     IN_GUEST_MODE, EXITING_GUEST_MODE
<1>5. ASSUME hpt' = hpt, NEW s \in Threads, Open' \subseteq Open \cup {s},
             s \in Open' => Unvisited(s, w)',
             \A r \in Threads \ {s} :
               /\ range'[r] = range[r] /\ tpc'[r] = tpc[r] /\ todo'[r] = todo[r]
               /\ cur'[r] = cur[r] /\ seen_cpu'[r] = seen_cpu[r]
               /\ targets'[r] = targets[r]
      PROVE  (CleanTlb(w) => CleanTlb(w)') /\ (SafeTlb(w) => SafeTlb(w)')
  <2>1. \A r \in Threads \ {s} : /\ Unvisited(r, w)' <=> Unvisited(r, w)
                                 /\ Reaching(r, w)' <=> Reaching(r, w)
    BY Zenon, <1>0, <1>5 DEF Unvisited, Reaching
  <2>2. \A r \in Open' : r \in Threads /\ (r = s \/ r \in Open)
    BY Zenon, <1>5 DEF Open
  <2>3. CleanTlb(w) => CleanTlb(w)'
    BY Zenon, <1>0, <1>5, <2>1, <2>2 DEF CleanTlb
  <2>4. SafeTlb(w) => SafeTlb(w)'
    BY Zenon, <1>0, <1>5, <2>1, <2>2 DEF SafeTlb
  <2> QED BY Zenon, <2>3, <2>4
<1>6. ASSUME NEW S \in SUBSET Pages, RangeStart(t, S)
      PROVE  (CleanTlb(w) => CleanTlb(w)') /\ (SafeTlb(w) => SafeTlb(w)')
  <2>1. Open' \subseteq Open \cup {t} /\ Unvisited(t, w)'
    BY Zenon, <1>6 DEF Open, Invalidating, Unvisited, RangeStart, TGoto, TypeOK
  <2>2. hpt' = hpt
    BY Zenon, <1>6 DEF RangeStart
  <2> QED BY Zenon, <1>5, <1>6, <2>1, <2>2 DEF RangeStart, TGoto, TypeOK, flushVars
<1>7. ASSUME NEW p \in Pages, InvalidatePage(t, p)
      PROVE  (CleanTlb(w) => CleanTlb(w)') /\ (SafeTlb(w) => SafeTlb(w)')
  <2>1. hpt' = hpt /\ UNCHANGED <<range, todo, cur, seen_cpu, targets>>
    BY Zenon, <1>7 DEF InvalidatePage, flushVars
  <2>2. CASE tpc'[t] = "unlocked"
    <3>1. Open' \subseteq Open \cup {t} /\ Unvisited(t, w)'
      BY ZenonT(30), <1>7, <2>2 DEF Open, Invalidating, Unvisited, InvalidatePage, TGoto,
         TypeOK
    <3> QED BY Zenon, <1>5, <1>7, <2>1, <3>1 DEF InvalidatePage, TGoto, TypeOK
  <2>3. CASE tpc'[t] # "unlocked"
    <3>1. UNCHANGED <<tpc, back>>
      BY Zenon, <1>7, <2>3 DEF InvalidatePage, TGoto, TypeOK
    <3> QED BY ZenonT(40), <1>0, <2>1, <3>1, OpenUnchanged
            DEF CleanTlb, SafeTlb, Unvisited, Reaching, Open
  <2> QED BY Zenon, <2>2, <2>3
<1>8. ASSUME NEW c \in Cpus, NEW failed \in BOOLEAN, FlushLock(t, c, failed)
      PROVE  /\ CleanTlb(w) /\ ~req'[w] => CleanTlb(w)'
             /\ vpc[w] = "guest" /\ SafeTlb(w) => SafeTlb(w)'
  <2>1. w \in Published \/ (vpc[w] # "guest" /\ req'[w])
    BY Zenon, <1>1, <1>2 DEF Published, PlaceInv, CpuInv
  <2>2. CASE w \in Published
    <3>1. Open' \subseteq Open \cup {t} /\ Unvisited(t, w)'
      BY Zenon, <1>8, <2>2 DEF Open, Invalidating, Unvisited, FlushLock, TGoto, TypeOK,
         FlushPc, LockedPc
    <3>2. hpt' = hpt /\ UNCHANGED <<range, cur, seen_cpu>>
      BY Zenon, <1>8 DEF FlushLock, memVars
    <3> QED BY Zenon, <1>5, <1>8, <3>1, <3>2 DEF FlushLock, TGoto, TypeOK
  <2> QED BY Zenon, <2>1, <2>2
<1>9. ASSUME NEW v \in Vcpus, MakeRequest(t, v)
      PROVE  /\ CleanTlb(w) /\ ~req'[w] => CleanTlb(w)'
             /\ vpc[w] = "guest" /\ SafeTlb(w) => SafeTlb(w)'
  <2>1. /\ hpt' = hpt /\ UNCHANGED <<range, back, seen_cpu, targets>>
        /\ tpc[t] = "scan" /\ tpc' = [tpc EXCEPT ![t] = "requested"]
        /\ todo' = [todo EXCEPT ![t] = @ \ {v}]
        /\ cur' = [cur EXCEPT ![t] = v]
        /\ req' = [req EXCEPT ![v] = TRUE]
    BY Zenon, <1>9 DEF MakeRequest, TGoto, memVars
  <2>2. Open' = Open
    BY Zenon, <2>1 DEF Open, Invalidating, TypeOK, FlushPc, LockedPc
  <2>3. \A r \in Threads :
          /\ w # v => (Unvisited(r, w) => Unvisited(r, w)')
          /\ Unvisited(r, w) => Unvisited(r, w)' \/ Reaching(r, w)'
          /\ Reaching(r, w) => Reaching(r, w)'
    BY Zenon, <1>0, <2>1 DEF Unvisited, Reaching, LockedPc, TypeOK
  <2>4. w = v => req'[w]
    BY Zenon, <2>1 DEF TypeOK
  <2> QED BY Zenon, <1>0, <2>1, <2>2, <2>3, <2>4 DEF CleanTlb, SafeTlb, Open
<1>10. CASE ReadCpu(t)
  <2>1. /\ hpt' = hpt /\ UNCHANGED <<range, back, todo, cur, targets>>
        /\ tpc[t] = "requested" /\ tpc' = [tpc EXCEPT ![t] = "kick"]
        /\ seen_cpu' = [seen_cpu EXCEPT ![t] = vcpu_cpu[cur[t]]]
    BY Zenon, <1>10 DEF ReadCpu, TGoto, memVars
  <2>2. Open' = Open
    BY Zenon, <2>1 DEF Open, Invalidating, TypeOK, FlushPc, LockedPc
  <2>3. \A r \in Threads : /\ Unvisited(r, w) => Unvisited(r, w)'
                           /\ Reaching(r, w) => Reaching(r, w)'
    BY Zenon, <1>0, <2>1 DEF Unvisited, Reaching, LockedPc, TypeOK
  <2> QED BY Zenon, <1>0, <2>1, <2>2, <2>3 DEF CleanTlb, SafeTlb, Open
<1>11. CASE Kick(t)
  <2> DEFINE kicks == ~nomask[t] /\ seen_cpu[t] # None /\ owner[seen_cpu[t]] # t
  <2>1. /\ hpt' = hpt /\ UNCHANGED <<range, back, todo>>
        /\ tpc[t] = "kick" /\ tpc' = [tpc EXCEPT ![t] = "scan"]
        /\ targets' = IF kicks /\ mode[cur[t]] # OUTSIDE_GUEST_MODE
                      THEN [targets EXCEPT ![t] = @ \cup {seen_cpu[t]}]
                      ELSE targets
        /\ \A r \in Threads : r # t => /\ cur'[r] = cur[r]
                                       /\ seen_cpu'[r] = seen_cpu[r]
    BY Zenon, <1>11 DEF Kick, TGoto, memVars, TypeOK
  <2>2. Open' = Open
    BY Zenon, <2>1 DEF Open, Invalidating, TypeOK, FlushPc, LockedPc
  <2>3. \A r \in Threads : Unvisited(r, w) => Unvisited(r, w)'
    BY Zenon, <2>1 DEF Unvisited, LockedPc, TypeOK
  <2>4. \A r \in Threads : targets[r] \subseteq targets'[r]
    BY Zenon, <2>1 DEF TypeOK
  <2>5. ASSUME vpc[w] = "guest", cur[t] = w, seen_cpu[t] = vcpu_cpu[w]
        PROVE  vcpu_cpu[w] \in targets'[t]
    <3>1. CASE nomask[t]
      <4>1. tpc[t] \in LockedPc
        BY Zenon, <2>1 DEF LockedPc
      <4>2. \A c \in Cpus : c \in targets[t] \/ owner[c] = t
        BY Zenon, <3>1, <4>1 DEF PlaceInv, FlushInv
      <4>3. owner[vcpu_cpu[w]] # t
        BY Zenon, <1>4, <2>5
      <4> QED BY Zenon, <1>3, <2>4, <4>2, <4>3
    <3>2. CASE ~nomask[t]
      <4>1. kicks
        BY Zenon, <1>3, <1>4, <2>5, <3>2
      <4> HIDE DEF kicks
      <4>2. targets' = [targets EXCEPT ![t] = @ \cup {seen_cpu[t]}]
        BY Zenon, <1>4, <2>1, <2>5, <4>1
      <4>3. targets \in [Threads -> SUBSET Cpus]
        BY Zenon DEF TypeOK
      <4> QED BY Zenon, <2>5, <4>2, <4>3
    <3> QED BY Zenon, <3>1, <3>2
  <2>6. ASSUME vpc[w] = "guest", NEW r \in Threads, Reaching(r, w)
        PROVE  Reaching(r, w)'
    <3>1. CASE r = t
      BY Zenon, <1>0, <2>1, <2>4, <2>5, <2>6, <3>1 DEF Reaching, LockedPc, TypeOK
    <3>2. CASE r # t
      BY ZenonT(30), <1>0, <2>1, <2>4, <2>6, <3>2 DEF Reaching, TypeOK
    <3> QED BY Zenon, <3>1, <3>2
  <2>7. CleanTlb(w) => CleanTlb(w)'
    BY Zenon, <1>0, <2>1, <2>2, <2>3 DEF CleanTlb, Open
  <2>8. vpc[w] = "guest" /\ SafeTlb(w) => SafeTlb(w)'
    BY Zenon, <1>0, <2>1, <2>2, <2>3, <2>6 DEF SafeTlb, Open
  <2> QED BY Zenon, <2>7, <2>8
<1>12. CASE SendIpis(t)
  <2>1. /\ hpt' = hpt /\ UNCHANGED <<range, back, todo, cur, seen_cpu, targets>>
        /\ tpc[t] = "scan" /\ todo[t] = {} /\ tpc' = [tpc EXCEPT ![t] = "wait"]
    BY Zenon, <1>12 DEF SendIpis, TGoto, memVars, flushVars
  <2>2. Open' = Open
    BY Zenon, <2>1 DEF Open, Invalidating, TypeOK, FlushPc, LockedPc
  <2>3. \A r \in Threads : /\ Unvisited(r, w) => Unvisited(r, w)'
                           /\ Reaching(r, w) => Reaching(r, w)'
    BY Zenon, <1>0, <2>1 DEF Unvisited, Reaching, LockedPc, TypeOK
  <2> QED BY Zenon, <1>0, <2>1, <2>2, <2>3 DEF CleanTlb, SafeTlb, Open
<1>13. ASSUME NEW c \in Cpus, AckFlush(t, c)
       PROVE  /\ CleanTlb(w) => CleanTlb(w)'
              /\ vpc[w] = "guest" /\ SafeTlb(w) => SafeTlb(w)'
  <2>1. /\ hpt' = hpt /\ UNCHANGED <<tpc, range, back, todo, cur, seen_cpu>>
        /\ ~IrqsOff(c) /\ targets' = [targets EXCEPT ![t] = @ \ {c}]
    BY Zenon, <1>13 DEF AckFlush, memVars
  <2>2. Open' = Open
    BY Zenon, <2>1, OpenUnchanged
  <2>3. \A r \in Threads :
          /\ Unvisited(r, w) => Unvisited(r, w)'
          /\ vpc[w] = "guest" /\ Reaching(r, w) => Reaching(r, w)'
    <3>1. \A r \in Threads : Unvisited(r, w) => Unvisited(r, w)'
      BY Zenon, <2>1 DEF Unvisited
    <3>2. ASSUME NEW r \in Threads, vpc[w] = "guest", Reaching(r, w) PROVE Reaching(r, w)'
      <4>1. vcpu_cpu[w] # c /\ vcpu_cpu'[w] = vcpu_cpu[w]
        BY Zenon, <1>0, <1>4, <2>1, <3>2
      <4>2. \A d : d # c /\ d \in targets[r] => d \in targets'[r]
        BY Zenon, <2>1 DEF TypeOK
      <4> QED BY Zenon, <2>1, <3>2, <4>1, <4>2 DEF Reaching
    <3> QED BY Zenon, <3>1, <3>2
  <2> QED BY Zenon, <1>0, <2>1, <2>2, <2>3 DEF CleanTlb, SafeTlb, Open
<1>14. CASE FlushDone(t)
  <2>1. /\ hpt' = hpt /\ UNCHANGED <<range, todo, cur, seen_cpu, targets>>
        /\ tpc[t] = "wait" /\ targets[t] = {}
        /\ tpc' = [tpc EXCEPT ![t] = back[t]]
        /\ back' = [back EXCEPT ![t] = "idle"]
    BY Zenon, <1>14 DEF FlushDone, TGoto, memVars
  <2>2. Open' = Open
    BY Zenon, <2>1 DEF Open, Invalidating, TypeOK, FlushPc, LockedPc
  <2>3. \A r \in Threads : /\ Unvisited(r, w) => Unvisited(r, w)'
                           /\ Reaching(r, w) => Reaching(r, w)'
    BY Zenon, <1>0, <2>1 DEF Unvisited, Reaching, LockedPc, TypeOK
  <2> QED BY Zenon, <1>0, <2>1, <2>2, <2>3 DEF CleanTlb, SafeTlb, Open
<1>15. ASSUME NEW p \in Pages, NEW f \in Frames \cup {None},
              HostChange(t, p, f)
       PROVE  (CleanTlb(w) => CleanTlb(w)') /\ (SafeTlb(w) => SafeTlb(w)')
  <2>1. /\ hpt' = [hpt EXCEPT ![p] = f] /\ tpc[t] = "open" /\ p \in range[t]
        /\ UNCHANGED <<tpc, range, back, todo, cur, seen_cpu, targets>>
    BY Zenon, <1>15 DEF HostChange, threadVars, flushVars
  <2>2. Open' = Open /\ t \in Open
    BY Zenon, <2>1, OpenUnchanged DEF Open, Invalidating
  <2>3. ~Unvisited(t, w) /\ ~Reaching(t, w)
    BY Zenon, <2>1 DEF Unvisited, Reaching, LockedPc
  <2>4. \A q \in Pages : q # p => hpt'[q] = hpt[q]
    BY Zenon, <2>1 DEF TypeOK
  <2>5. \A e \in tlb[vcpu_cpu[w]] : e[1] \in Pages
    BY <1>3 DEF TypeOK
  <2>6. \A r \in Threads : /\ Unvisited(r, w)' <=> Unvisited(r, w)
                           /\ Reaching(r, w)' <=> Reaching(r, w)
    BY Zenon, <1>0, <2>1 DEF Unvisited, Reaching
  <2>7. CleanTlb(w) => CleanTlb(w)'
    BY Zenon, <1>0, <2>1, <2>2, <2>3, <2>4, <2>5, <2>6 DEF CleanTlb, Open
  <2>8. SafeTlb(w) => SafeTlb(w)'
    BY Zenon, <1>0, <2>1, <2>2, <2>3, <2>4, <2>5, <2>6 DEF SafeTlb, Open
  <2> QED BY Zenon, <2>7, <2>8
<1>16. CASE RangeEnd(t)
  <2>1. hpt' = hpt /\ UNCHANGED <<todo, cur, seen_cpu, targets>>
    BY Zenon, <1>16 DEF RangeEnd, flushVars
  <2>2. Open' \subseteq Open \cup {t} /\ t \notin Open'
    BY Zenon, <1>16 DEF Open, Invalidating, RangeEnd, TGoto, TypeOK, FlushPc, LockedPc
  <2> QED BY Zenon, <1>5, <1>16, <2>1, <2>2 DEF RangeEnd, TGoto, TypeOK
<1> QED BY Zenon, <1>6, <1>7, <1>8, <1>9, <1>10, <1>11, <1>12, <1>13, <1>14, <1>15,
           <1>16 DEF ThreadStep

(* The host faulting a page in makes nothing stale.                        *)
LEMMA HostFaultTlbStep ==
  ASSUME TypeOK, TlbInv, NEW p \in Pages, NEW f \in Frames, HostFault(p, f)
  PROVE  TlbInv'
<1> USE NoneAssumption
<1>1. /\ hpt' = [hpt EXCEPT ![p] = f] /\ hpt[p] = None
      /\ UNCHANGED <<vpc, req, vcpu_cpu, tlb>>
      /\ UNCHANGED <<tpc, range, back, todo, cur, seen_cpu, targets>>
  BY Zenon DEF HostFault, vcpuVars, threadVars, flushVars
<1>2. \A q \in Pages : hpt[q] # None => hpt'[q] = hpt[q]
  BY Zenon, <1>1 DEF TypeOK
<1>3. ASSUME NEW w \in Vcpus, vcpu_cpu[w] # None
      PROVE  (CleanTlb(w) => CleanTlb(w)') /\ (SafeTlb(w) => SafeTlb(w)')
  <2>1. ASSUME NEW e \in tlb[vcpu_cpu[w]], hpt[e[1]] = e[2]
        PROVE  hpt'[e[1]] = e[2]
    <3>1. e \in Pages \X Frames
      BY <1>3 DEF TypeOK
    <3> QED BY Zenon, <1>2, <2>1, <3>1
  <2>2. Open' = Open
    BY Zenon, <1>1, OpenUnchanged
  <2>3. \A t : /\ Unvisited(t, w)' <=> Unvisited(t, w)
               /\ Reaching(t, w)' <=> Reaching(t, w)
    BY Zenon, <1>1 DEF Unvisited, Reaching
  <2>4. CleanTlb(w) => CleanTlb(w)'
    BY Zenon, <1>1, <2>1, <2>2, <2>3 DEF CleanTlb
  <2>5. SafeTlb(w) => SafeTlb(w)'
    BY Zenon, <1>1, <2>1, <2>2, <2>3 DEF SafeTlb
  <2> QED BY Zenon, <2>4, <2>5
<1> QED BY Zenon, <1>1, <1>3 DEF TlbInv

(* A new instance satisfies the inductive invariant (instance_create).     *)
LEMMA InitIInv == Init => IInv
<1> SUFFICES ASSUME Init PROVE IInv
  BY Zenon
<1> USE NoneAssumption
<1>1. TypeOK
  BY DEF Init, TypeOK, VcpuPc, ThreadPc, Modes
<1>2. Open = {}
  BY Zenon DEF Init, Open, Invalidating, FlushPc, LockedPc
<1>3. CountInv
  BY Zenon, <1>2, FS_EmptySet DEF CountInv, Init
<1>4. RangeStaysClear /\ EptMatchesHost
  BY Zenon DEF Init, RangeStaysClear, EptMatchesHost
<1>5. FaultInv /\ CpuInv /\ LoadedWhereRecorded
  BY Zenon DEF Init, FaultInv, CpuInv, LoadedWhereRecorded, PinnedPc, IrqOffPc
<1>6. FlushInv /\ TlbInv
  BY Zenon DEF Init, FlushInv, TlbInv, LockedPc
<1> QED BY Zenon, <1>1, <1>3, <1>4, <1>5, <1>6 DEF IInv

(* Every step of a vcpu thread, of a notifier callback and of the host     *)
(* keeps the inductive invariant.                                          *)
LEMMA NextIInv == IInv /\ [Next]_vars => IInv'
<1> SUFFICES ASSUME IInv, [Next]_vars PROVE IInv'
  BY Zenon
<1>1. TypeOK'
  BY Zenon, TypeStep DEF IInv
<1>2. CASE \E v \in Vcpus : VcpuStep(v)
  <2>1. MemInv' /\ PlaceInv'
    BY Zenon, <1>2, VcpuMemStep, VcpuPlaceStep DEF IInv, MemInv, PlaceInv
  <2>2. TlbInv'
    BY Zenon, <1>2, VcpuTlbStep DEF IInv, MemInv, PlaceInv
  <2> QED BY Zenon, <1>1, <2>1, <2>2 DEF IInv, MemInv, PlaceInv
<1>3. CASE \E t \in Threads : ThreadStep(t)
  <2>1. MemInv' /\ PlaceInv'
    BY Zenon, <1>3, ThreadMemStep, ThreadPlaceStep DEF IInv, MemInv, PlaceInv
  <2>2. TlbInv'
    BY Zenon, <1>3, ThreadTlbStep DEF IInv, MemInv, PlaceInv
  <2> QED BY Zenon, <1>1, <2>1, <2>2 DEF IInv, MemInv, PlaceInv
<1>4. ASSUME NEW p \in Pages, NEW f \in Frames, HostFault(p, f)
      PROVE  IInv'
  <2>1. MemInv' /\ TlbInv'
    BY Zenon, <1>4, HostFaultMemStep, HostFaultTlbStep DEF IInv, MemInv
  <2>2. PlaceInv'
    BY Zenon, <1>4 DEF IInv, PlaceInv, HostFault, vcpuVars, threadVars, flushVars,
       CpuInv, LoadedWhereRecorded, FlushInv
  <2> QED BY Zenon, <1>1, <2>1, <2>2 DEF IInv, MemInv, PlaceInv
<1>5. CASE UNCHANGED vars
  <2>1. UNCHANGED <<hpt, ept, seq, count, vpc, mode, req, vcpu_cpu, local, owner>>
    BY Zenon, <1>5 DEF vars, memVars, vcpuVars
  <2>2. UNCHANGED <<tlb, flt_page, flt_seq, flt_frame, tpc, range, back, todo,
                    cur, seen_cpu, nomask, targets>>
    BY Zenon, <1>5 DEF vars, vcpuVars, fltVars, threadVars, flushVars
  <2>3. Open' = Open
    BY Zenon, <2>2, OpenUnchanged
  <2>4. CountInv' /\ RangeStaysClear' /\ EptMatchesHost' /\ FaultInv'
    BY Zenon, <2>1, <2>2, <2>3 DEF IInv, CountInv, RangeStaysClear, EptMatchesHost,
       FaultInv, Open
  <2>5. CpuInv' /\ LoadedWhereRecorded' /\ FlushInv'
    BY Zenon, <2>1, <2>2 DEF IInv, CpuInv, LoadedWhereRecorded, FlushInv
  <2>6. TlbInv'
    <3>1. \A t, v : (Unvisited(t, v)' <=> Unvisited(t, v)) /\ (Reaching(t, v)' <=> Reaching(t, v))
      BY Zenon, <2>1, <2>2 DEF Unvisited, Reaching
    <3>2. \A v : (CleanTlb(v) => CleanTlb(v)') /\ (SafeTlb(v) => SafeTlb(v)')
      BY Zenon, <2>1, <2>2, <2>3, <3>1 DEF CleanTlb, SafeTlb
    <3> QED BY Zenon, <2>1, <3>2 DEF IInv, TlbInv
  <2> QED BY Zenon, <1>1, <2>4, <2>5, <2>6 DEF IInv
<1> QED BY Zenon, <1>2, <1>3, <1>4, <1>5 DEF Next

(* The inductive invariant holds in every state that vcpu threads, host    *)
(* threads and the hardware can reach.                                     *)
THEOREM Invariance == Spec => []IInv
BY InitIInv, NextIInv, PTL DEF Spec

(* ept_set_epte and the notifier callbacks keep the EPT a part of the host *)
(* page table, for any number of concurrent faults and invalidations.      *)
THEOREM EptCorrect == Spec => []EptMatchesHost
<1>1. IInv => EptMatchesHost
  BY Zenon DEF IInv
<1> QED BY <1>1, Invariance, PTL

(* No vcpu runs guest code on a CPU that caches a translation the host has *)
(* changed: ept_flush_remote_tlbs and the entry check of vmx_launch        *)
(* together reach every vcpu, wherever it is scheduled.                    *)
THEOREM GuestCorrect == Spec => []GuestNeverStale
<1>1. IInv => GuestNeverStale
  BY DEF IInv, GuestNeverStale, TlbInv, SafeTlb, CpuInv, PinnedPc, IrqOffPc
<1> QED BY <1>1, Invariance, PTL

(* The WARN_ON of ept_set_epte is unreachable.                             *)
THEOREM PfnCorrect == Spec => []NoPfnMismatch
<1>1. ASSUME IInv PROVE NoPfnMismatch
  <2> SUFFICES ASSUME NEW v \in Vcpus, vpc[v] = "set", ~mmu_notifier_retry(v),
                      ept[flt_page[v]] # None
               PROVE  ept[flt_page[v]] = flt_frame[v]
    BY Zenon DEF NoPfnMismatch
  <2>1. Open = {} /\ flt_seq[v] = seq
    BY Zenon, <1>1, CountZero DEF mmu_notifier_retry, IInv
  <2> QED BY Zenon, <1>1, <2>1 DEF IInv, FaultInv, EptMatchesHost
<1> QED BY <1>1, Invariance, PTL

(* __load_vcpu and vmx_handle_nmi keep vmx_local_vcpu and vcpu->cpu in     *)
(* agreement.                                                              *)
THEOREM LoadCorrect == Spec => []LoadedWhereRecorded
<1>1. IInv => LoadedWhereRecorded
  BY Zenon DEF IInv
<1> QED BY <1>1, Invariance, PTL

(* What a vcpu in the guest has cached is a part of the host page table.   *)
ViewsCurrent == \A v \in Vcpus : GuestView[v] \in SUBSET Mmu!Current

LEMMA ViewCurrent == IInv => ViewsCurrent
<1> SUFFICES ASSUME IInv, NEW v \in Vcpus
             PROVE  GuestView[v] \in SUBSET Mmu!Current
  BY Zenon DEF ViewsCurrent
<1> USE NoneAssumption
<1>1. CASE vpc[v] = "guest"
  <2>1. vcpu_cpu[v] \in Cpus
    BY SMTT(60), ZenonT(40), <1>1 DEF IInv, CpuInv, TypeOK, PinnedPc, IrqOffPc
  <2>2. \A e \in tlb[vcpu_cpu[v]] :
          e \in Pages \X Frames /\ hpt[e[1]] = e[2]
    BY Zenon, <1>1, <2>1 DEF IInv, TlbInv, SafeTlb, TypeOK
  <2>3. \A e \in tlb[vcpu_cpu[v]] :
          e = <<e[1], hpt[e[1]]>> /\ e[1] \in Pages /\ hpt[e[1]] # None
    BY <2>2
  <2>4. tlb[vcpu_cpu[v]] \subseteq Mmu!Current
    BY Zenon, <2>3 DEF Mmu!Current
  <2> QED BY Zenon, <1>1, <2>4 DEF GuestView
<1>2. CASE vpc[v] # "guest"
  BY Zenon, <1>2 DEF GuestView
<1> QED BY Zenon, <1>1, <1>2

(* The same of the next state.                                             *)
LEMMA ViewCurrentNext == IInv' => ViewsCurrent'
BY ViewCurrent, PTL

(* A step that leaves the host page table and the other vcpus' views alone *)
(* is a Translate step of GuestMmu.                                        *)
LEMMA TranslateStep ==
  ASSUME IInv', NEW v \in Vcpus, hpt' = hpt,
         \A w \in Vcpus \ {v} : GuestView'[w] = GuestView[w]
  PROVE  Mmu!Next
<1>1. \A w \in Vcpus : GuestView'[w] \in SUBSET Mmu!Current'
  BY Zenon, ViewCurrentNext DEF ViewsCurrent
<1>2. Mmu!Current' = Mmu!Current
  BY Zenon DEF Mmu!Current
<1>3. GuestView' = [GuestView EXCEPT ![v] = GuestView'[v]]
  BY Zenon DEF GuestView
<1> QED BY Zenon, <1>1, <1>2, <1>3 DEF Mmu!Next, Mmu!Translate

(* A step that changes the mapping of a page no vcpu in the guest uses is  *)
(* a Remap step of GuestMmu.                                               *)
LEMMA RemapStep ==
  ASSUME NEW p \in Pages, NEW f \in Frames \cup {None},
         hpt' = [hpt EXCEPT ![p] = f], UNCHANGED <<vpc, vcpu_cpu, tlb>>,
         \A v \in Vcpus : \A e \in GuestView[v] : e[1] # p
  PROVE  Mmu!Next
<1>1. GuestView' = GuestView
  BY Zenon DEF GuestView
<1> QED BY Zenon, <1>1 DEF Mmu!Next, Mmu!Remap

(* No vcpu uses a page that the host has not mapped.                       *)
LEMMA UnmappedUnused ==
  ASSUME IInv, NEW p \in Pages, hpt[p] = None
  PROVE  \A v \in Vcpus : \A e \in GuestView[v] : e[1] # p
<1> SUFFICES ASSUME NEW v \in Vcpus, NEW e \in GuestView[v]
             PROVE  e[1] # p
  BY Zenon
<1>1. e \in Mmu!Current
  BY Zenon, ViewCurrent DEF ViewsCurrent
<1> QED BY SMTT(30), <1>1 DEF Mmu!Current

(* A new instance is an initial state of the abstract MMU.                 *)
LEMMA RefinesInit == Init => Mmu!Init
<1> SUFFICES ASSUME Init PROVE Mmu!Init
  BY Zenon
<1>1. GuestView = [v \in Vcpus |-> {}]
  BY Zenon DEF Init, GuestView
<1> QED BY Zenon, <1>1 DEF Init, Mmu!Init

(* Every step of EptSync is a step of GuestMmu or leaves it unchanged.     *)
LEMMA RefinesNext ==
  ASSUME IInv, IInv', [Next]_vars
  PROVE  [Mmu!Next]_(Mmu!vars)
<1> USE NoneAssumption
<1>1. ASSUME NEW v \in Vcpus, VcpuStep(v)
      PROVE  [Mmu!Next]_(Mmu!vars)
  <2>1. CASE \E f \in Frames : PinPage(v, f)
    <3>1. PICK f \in Frames : PinPage(v, f)
      BY Zenon, <2>1
    <3> DEFINE p == flt_page[v]
    <3>2. /\ p \in Pages /\ hpt[p] \in {f, None}
          /\ hpt' = [hpt EXCEPT ![p] = f] /\ UNCHANGED <<vcpu_cpu, tlb>>
          /\ vpc[v] = "pin" /\ vpc' = [vpc EXCEPT ![v] = "set"]
      BY Zenon, <3>1 DEF PinPage, IInv, FaultInv, Goto
    <3>3. GuestView' = GuestView
      BY Zenon, <3>2 DEF GuestView, IInv, TypeOK
    <3>4. CASE hpt[p] = f
      <4>1. hpt' = hpt
        BY Zenon, <3>2, <3>4 DEF IInv, TypeOK
      <4> QED BY Zenon, <3>3, <4>1 DEF Mmu!vars
    <3>5. CASE hpt[p] = None
      <4>1. \A w \in Vcpus : \A e \in GuestView[w] : e[1] # p
        BY Zenon, <3>2, <3>5, UnmappedUnused
      <4> QED BY Zenon, <3>2, <3>3, <4>1 DEF Mmu!Next, Mmu!Remap
    <3> QED BY Zenon, <3>2, <3>4, <3>5
  <2>2. CASE ~\E f \in Frames : PinPage(v, f)
    <3>1. hpt' = hpt
      BY Zenon, <1>1, <2>2 DEF VcpuStep, CreateVcpu, EnterRun, SchedIn, PreemptDisable,
         PublishVcpu, LeaveRun, CheckRequest, FlushTlb, ArmEntry, AbortEntry,
         EnterGuest, GuestAccess, ExitGuest, EnableIrqs, ReadSeq, PinFails,
         SetEpte, memVars
    <3>2. ASSUME NEW w \in Vcpus \ {v}
          PROVE  GuestView'[w] = GuestView[w]
      <4>1. vpc'[w] = vpc[w]
        <5>1. vpc' = vpc \/ \E pc \in VcpuPc : vpc' = [vpc EXCEPT ![v] = pc]
          BY Zenon, <1>1, <2>2 DEF VcpuStep, CreateVcpu, EnterRun, SchedIn,
             PreemptDisable, PublishVcpu, LeaveRun, CheckRequest, FlushTlb,
             ArmEntry, AbortEntry, EnterGuest, GuestAccess, ExitGuest,
             EnableIrqs, ReadSeq, PinFails, SetEpte, Goto, VcpuPc, PinnedPc,
             IrqOffPc, PreemptiblePc
        <5> QED BY Zenon, <3>2, <5>1 DEF IInv, TypeOK
      <4>2. vcpu_cpu'[w] = vcpu_cpu[w]
        <5>1. CASE \E c \in Cpus : \/ CreateVcpu(v, c) \/ EnterRun(v, c)
                                   \/ SchedIn(v, c) \/ PreemptDisable(v, c)
          <6>1. PICK c \in Cpus : LoadVcpu(v, c)
            BY Zenon, <5>1 DEF CreateVcpu, EnterRun, SchedIn, PreemptDisable
          <6>2. vcpu_cpu' = [vcpu_cpu EXCEPT ![v] = c]
            BY Zenon, <6>1, LoadVcpuFacts DEF IInv
          <6> QED BY Zenon, <3>2, <6>2 DEF IInv, TypeOK
        <5>2. CASE ~\E c \in Cpus : \/ CreateVcpu(v, c) \/ EnterRun(v, c)
                                    \/ SchedIn(v, c) \/ PreemptDisable(v, c)
          BY Zenon, <1>1, <2>2, <5>2 DEF VcpuStep, PublishVcpu, LeaveRun, CheckRequest,
             FlushTlb, ArmEntry, AbortEntry, EnterGuest, GuestAccess,
             ExitGuest, EnableIrqs, ReadSeq, PinFails, SetEpte
        <5> QED BY Zenon, <5>1, <5>2
      <4>3. CASE vpc[w] = "guest"
        <5>1. vcpu_cpu[w] \in Cpus /\ owner[vcpu_cpu[w]] = w
          <6>1. vpc[w] \in PinnedPc
            BY Zenon, <4>3 DEF PinnedPc, IrqOffPc
          <6>2. vcpu_cpu[w] # None /\ owner[vcpu_cpu[w]] = w
            BY Zenon, <6>1 DEF IInv, CpuInv
          <6>3. vcpu_cpu[w] \in Cpus \cup {None}
            BY Zenon DEF IInv, TypeOK
          <6> QED BY Zenon, <6>2, <6>3
        <5>2. CASE FlushTlb(v) \/ \E p \in Pages : GuestAccess(v, p)
          <6>1. vcpu_cpu[v] # vcpu_cpu[w]
            BY Zenon, <3>2, <5>1, <5>2 DEF FlushTlb, GuestAccess, IInv, CpuInv,
               PinnedPc, IrqOffPc
          <6>2. tlb'[vcpu_cpu[w]] = tlb[vcpu_cpu[w]]
            BY ZenonT(30), <5>1, <5>2, <6>1 DEF FlushTlb, GuestAccess, IInv, TypeOK
          <6> QED BY Zenon, <4>1, <4>2, <6>2 DEF GuestView
        <5>3. CASE ~(FlushTlb(v) \/ \E p \in Pages : GuestAccess(v, p))
          <6>1. tlb' = tlb
            BY Zenon, <1>1, <2>2, <5>3 DEF VcpuStep, CreateVcpu, EnterRun, SchedIn,
               PreemptDisable, PublishVcpu, LeaveRun, CheckRequest, ArmEntry,
               AbortEntry, EnterGuest, ExitGuest, EnableIrqs, ReadSeq,
               PinFails, SetEpte
          <6> QED BY Zenon, <4>1, <4>2, <6>1 DEF GuestView
        <5> QED BY Zenon, <5>2, <5>3
      <4>4. CASE vpc[w] # "guest"
        BY Zenon, <4>1, <4>4 DEF GuestView
      <4> QED BY Zenon, <4>3, <4>4
    <3> QED BY Zenon, <3>1, <3>2, TranslateStep
  <2> QED BY Zenon, <2>1, <2>2
<1>2. ASSUME NEW t \in Threads, ThreadStep(t)
      PROVE  [Mmu!Next]_(Mmu!vars)
  <2>1. UNCHANGED <<vpc, vcpu_cpu, tlb>>
    BY Zenon, <1>2
       DEF ThreadStep, RangeStart, InvalidatePage, FlushLock, MakeRequest,
       ReadCpu, Kick, SendIpis, AckFlush, FlushDone, HostChange, RangeEnd,
       vcpuVars
  <2>2. CASE \E p \in Pages, f \in Frames \cup {None} : HostChange(t, p, f)
    <3>1. PICK p \in Pages, f \in Frames \cup {None} : HostChange(t, p, f)
      BY Zenon, <2>2
    <3>2. /\ hpt' = [hpt EXCEPT ![p] = f]
          /\ tpc[t] = "open" /\ t \in Open /\ p \in range[t]
      BY Zenon, <3>1 DEF HostChange, Open, Invalidating
    <3>3. \A v \in Vcpus : ~Unvisited(t, v) /\ ~Reaching(t, v)
      BY Zenon, <3>2 DEF Unvisited, Reaching, LockedPc
    <3>4. \A v \in Vcpus : \A e \in GuestView[v] : e[1] # p
      <4> SUFFICES ASSUME NEW v \in Vcpus, NEW e \in GuestView[v]
                   PROVE  e[1] # p
        BY Zenon
      <4>1. vpc[v] = "guest" /\ e \in tlb[vcpu_cpu[v]]
        BY Zenon DEF GuestView
      <4>2. vcpu_cpu[v] # None
        BY Zenon, <4>1 DEF IInv, CpuInv, PinnedPc, IrqOffPc
      <4>3. SafeTlb(v)
        BY Zenon, <4>1, <4>2 DEF IInv, TlbInv
      <4>4. e[1] \in range[t] => Unvisited(t, v) \/ Reaching(t, v)
        BY Zenon, <3>2, <4>1, <4>3 DEF SafeTlb
      <4> QED BY Zenon, <3>2, <3>3, <4>4
    <3> QED BY Zenon, <2>1, <3>2, <3>4, RemapStep
  <2>3. CASE ~\E p \in Pages, f \in Frames \cup {None} : HostChange(t, p, f)
    <3>1. hpt' = hpt
      BY Zenon, <1>2, <2>3 DEF ThreadStep, RangeStart, InvalidatePage, FlushLock,
         MakeRequest, ReadCpu, Kick, SendIpis, AckFlush, FlushDone, RangeEnd,
         memVars
    <3> QED BY Zenon, <2>1, <3>1 DEF Mmu!vars, GuestView
  <2> QED BY Zenon, <2>2, <2>3
<1>3. ASSUME NEW p \in Pages, NEW f \in Frames, HostFault(p, f)
      PROVE  [Mmu!Next]_(Mmu!vars)
  <2>1. /\ hpt' = [hpt EXCEPT ![p] = f] /\ hpt[p] = None
        /\ UNCHANGED <<vpc, vcpu_cpu, tlb>>
    BY Zenon, <1>3 DEF HostFault, vcpuVars
  <2> QED BY Zenon, <2>1, UnmappedUnused, RemapStep
<1>4. CASE UNCHANGED vars
  BY Zenon, <1>4 DEF vars, memVars, vcpuVars, Mmu!vars, GuestView
<1> QED BY Zenon, <1>1, <1>2, <1>3, <1>4 DEF Next

(* EptSync implements GuestMmu: the EPT, the per-CPU TLBs and the flush    *)
(* protocol together behave like one table that the host changes only      *)
(* behind the back of vcpus that are not using it.                         *)
THEOREM Refinement == Spec => ImplementsGuestMmu
BY RefinesInit, RefinesNext, Invariance, PTL
   DEF Spec, ImplementsGuestMmu, Mmu!Spec
=============================================================================
