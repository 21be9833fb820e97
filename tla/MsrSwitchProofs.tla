-------------------------- MODULE MsrSwitchProofs --------------------------
(***************************************************************************)
(* Proofs about MsrSwitch: the host's MSRs and XCR0 come back in user mode *)
(* and for other tasks, and the guest runs with the MSRs it set, for every *)
(* set of values and whatever MSRs the CPU lacks.                          *)
(*                                                                         *)
(* The inductive invariant has three parts.  ListInv: the lists agree, and *)
(* each recorded position holds its MSR; that is a fact about setup_msr,   *)
(* whose argument is sorted by Rank.  MsrInv: where each MSR's value is,   *)
(* in the register, the guest's list or both.  XcrInv: the same for XCR0.  *)
(***************************************************************************)
EXTENDS MsrSwitch, TLAPS

(* The shared MSRs the CPU has.                                            *)
Present == {m \in Shared : msr_index[m] # 0}

(* What the guest's list holds for an MSR that is present.                 *)
Listed(m) == guest_msrs[msr_index[m]].data

ListInv ==
  /\ engine \in {"vmx", "svm"}
  /\ save_nmsrs \in Nat
  /\ DOMAIN guest_msrs = 1 .. save_nmsrs
  /\ \A i \in 1 .. save_nmsrs : guest_msrs[i] \in [index : Msrs, data : Values]
  /\ host_msrs = [i \in 1 .. save_nmsrs |-> [index |-> guest_msrs[i].index, data |-> 0]]
  /\ \A i, j \in 1 .. save_nmsrs : guest_msrs[i].index = guest_msrs[j].index => i = j
  /\ msr_index \in [Msrs -> 0 .. save_nmsrs]
  /\ \A m \in Present : guest_msrs[msr_index[m]].index = m
  /\ \A m \in Shared \ Present : \A i \in 1 .. save_nmsrs : guest_msrs[i].index # m
  /\ engine = "svm" =>
       Present = Shared /\ \A i \in 1 .. save_nmsrs : guest_msrs[i].index \in Shared

(* In the guest the registers are its own, and the list has those it       *)
(* cannot write unnoticed.  Elsewhere the list has them all, a register    *)
(* has the host's value or the guest's, and only the latter while          *)
(* guest_msrs_loaded; after a frequent exit an MSR that is not restored    *)
(* still has the guest's.                                                  *)
MsrInv ==
  /\ msr \in [Msrs -> Values] /\ guest_view \in [Msrs -> Values]
  /\ \A m \in Msrs \ Present : msr[m] = 0
  /\ \A m \in Shared \ Present : guest_view[m] = 0
  /\ pc = "guest" =>
       /\ on_cpu /\ guest_msrs_loaded
       /\ \A m \in Present : msr[m] = guest_view[m]
       /\ \A m \in Present \ PassThrough : Listed(m) = guest_view[m]
  /\ pc # "guest" =>
       \A m \in Present : Listed(m) = guest_view[m] /\ msr[m] \in {0, Listed(m)}
  /\ pc # "guest" /\ ~guest_msrs_loaded => \A m \in Present : msr[m] = 0
  /\ pc = "user" \/ ~on_cpu => ~guest_msrs_loaded
  /\ engine = "vmx" /\ pc # "guest" => \A m \in FastMsrs : msr[m] = 0
  /\ engine = "vmx" /\ pc \in {"kernel", "dispatch"} /\ on_cpu /\ ~scheded
       /\ last_vmexit = "fast" =>
       guest_msrs_loaded /\ \A m \in Present \ FastMsrs : msr[m] = Listed(m)
  /\ pc = "dispatch" /\ op.kind = "wrmsr" =>
       /\ op.m \in Msrs \ PassThrough /\ op.v \in Values
       /\ engine = "vmx" => ~guest_msrs_loaded

(* Unless the guest went back to the host's value, XCR0 is the host's      *)
(* whenever no value of the guest is loaded, or that value is the host's.  *)
XcrInv ==
  /\ pc = "user" \/ ~on_cpu => ~guest_xcr0_loaded
  /\ ~guest_xcr0_loaded \/ xcr0 = HostXcr0 => hw_xcr0 = HostXcr0 \/ went_back

SwitchInv == ListInv /\ MsrInv /\ XcrInv

(***************************************************************************)
(* What the operators on the lists do.                                     *)
(***************************************************************************)

(* The shared MSRs are MSRs; so are those a frequent exit switches, which  *)
(* VMX shares.                                                             *)
LEMMA SharedMsrs ==
  /\ Shared \subseteq Msrs
  /\ PassThrough \subseteq Shared
  /\ engine = "vmx" => FastMsrs \subseteq Shared
  /\ Present \subseteq Shared
<1>1. /\ Len(vmx_msr_index) = 6 /\ DOMAIN vmx_msr_index = 1 .. 6
      /\ vmx_msr_index[3] = "KERNEL_GS_BASE" /\ vmx_msr_index[4] = "EFER"
  BY DEF vmx_msr_index
<1>2. Shared \subseteq Msrs
  BY Zenon DEF Shared, Msrs
<1>3. {"KERNEL_GS_BASE", "EFER"} \subseteq ToSet(vmx_msr_index)
  BY <1>1 DEF ToSet
<1>4. engine = "vmx" => FastMsrs \subseteq Shared
  BY Zenon, <1>3 DEF Shared, FastMsrs
<1>5. PassThrough \subseteq Shared
  BY Zenon, <1>3 DEF PassThrough, Shared
<1>6. Present \subseteq Shared
  BY Zenon DEF Present
<1> QED BY Zenon, <1>2, <1>4, <1>5, <1>6

(* A position recorded for a present MSR is in the lists, and is its own.  *)
LEMMA PositionOf ==
  ASSUME ListInv, NEW m \in Present
  PROVE  /\ m \in Shared /\ m \in Msrs
         /\ msr_index[m] \in 1 .. save_nmsrs
         /\ guest_msrs[msr_index[m]].index = m
         /\ host_msrs[msr_index[m]].index = m
         /\ host_msrs[msr_index[m]].data = 0
         /\ Listed(m) \in Values
<1>1. m \in Shared /\ m \in Msrs /\ msr_index[m] # 0
  BY Zenon, SharedMsrs DEF Present
<1>2. msr_index[m] \in 1 .. save_nmsrs
  BY <1>1 DEF ListInv
<1>3. guest_msrs[msr_index[m]].index = m
  BY Zenon DEF ListInv
<1>4. host_msrs[msr_index[m]] = [index |-> m, data |-> 0]
  BY Zenon, <1>2, <1>3 DEF ListInv
<1>5. guest_msrs[msr_index[m]] \in [index : Msrs, data : Values]
  BY Zenon, <1>2 DEF ListInv
<1> QED BY <1>1, <1>2, <1>3, <1>4, <1>5 DEF Listed

(* The slots of some shared MSRs are the positions of the present ones.    *)
LEMMA SlotsOf ==
  ASSUME ListInv, NEW ms, ms \subseteq Shared
  PROVE  Slots(ms) = {msr_index[m] : m \in ms \cap Present}
<1>1. \A m \in ms : msr_index[m] \in 0 .. save_nmsrs
  BY Zenon, SharedMsrs DEF ListInv
<1>2. \A m \in ms : msr_index[m] \in 1 .. save_nmsrs <=> m \in Present
  BY <1>1 DEF Present, ListInv
<1> QED BY Zenon, <1>2 DEF Slots

(* Two present MSRs have two positions.                                    *)
LEMMA PositionsDiffer ==
  ASSUME ListInv, NEW m \in Present, NEW n \in Present, msr_index[m] = msr_index[n]
  PROVE  m = n
BY Zenon, PositionOf

(* load_guest_msr and load_host_msr write the register of each present MSR *)
(* of ms whose two entries differ, and no other.                           *)
LEMMA WrittenAt ==
  ASSUME ListInv, NEW ms, ms \subseteq Shared, NEW list, NEW guest, NEW m \in Msrs,
         \A n \in Present : list[msr_index[n]].index = n
  PROVE  Written(list, guest, host_msrs, ms)[m] =
           IF m \in ms \cap Present /\ guest[msr_index[m]] # host_msrs[msr_index[m]]
           THEN list[msr_index[m]].data ELSE msr[m]
<1> DEFINE w == {i \in Slots(ms) : guest[i] # host_msrs[i]}
<1>1. \A i \in w : \E n \in ms \cap Present : i = msr_index[n] /\ list[i].index = n
  BY SlotsOf
<1>2. \A i \in w : list[i].index = m => i = msr_index[m] /\ m \in ms \cap Present
  BY <1>1
<1>3. m \in ms \cap Present => (msr_index[m] \in w <=> guest[msr_index[m]] # host_msrs[msr_index[m]])
  BY Zenon, SlotsOf
<1>4. m \in ms \cap Present => list[msr_index[m]].index = m
  BY Zenon
<1>5. Written(list, guest, host_msrs, ms)[m] =
        IF \E i \in w : list[i].index = m
        THEN list[CHOOSE i \in w : list[i].index = m].data ELSE msr[m]
  BY Zenon DEF Written
<1> HIDE DEF w
<1>6. CASE \E i \in w : list[i].index = m
  <2>1. (CHOOSE i \in w : list[i].index = m) = msr_index[m]
    BY Zenon, <1>2, <1>6
  <2>2. m \in ms \cap Present /\ guest[msr_index[m]] # host_msrs[msr_index[m]]
    BY Zenon, <1>2, <1>3, <1>6
  <2> QED BY Zenon, <1>5, <1>6, <2>1, <2>2
<1>7. CASE ~\E i \in w : list[i].index = m
  BY Zenon, <1>3, <1>4, <1>5, <1>7
<1> QED BY Zenon, <1>6, <1>7

(* save_guest_msr keeps the order of the list, writes the registers of    *)
(* the present MSRs of ms into it, and leaves the other entries alone.     *)
LEMMA SavedAt ==
  ASSUME ListInv, msr \in [Msrs -> Values], NEW ms, ms \subseteq Shared
  PROVE  /\ DOMAIN Saved(guest_msrs, ms) = 1 .. save_nmsrs
         /\ \A i \in 1 .. save_nmsrs :
              /\ Saved(guest_msrs, ms)[i] \in [index : Msrs, data : Values]
              /\ Saved(guest_msrs, ms)[i].index = guest_msrs[i].index
         /\ \A m \in Present :
              Saved(guest_msrs, ms)[msr_index[m]].data = IF m \in ms THEN msr[m] ELSE Listed(m)
<1> DEFINE written(i) == [guest_msrs[i] EXCEPT !.data = msr[guest_msrs[i].index]]
<1>1. /\ DOMAIN guest_msrs = 1 .. save_nmsrs
      /\ \A i \in 1 .. save_nmsrs : guest_msrs[i] \in [index : Msrs, data : Values]
  BY Zenon DEF ListInv
<1>2. \A i \in 1 .. save_nmsrs :
        Saved(guest_msrs, ms)[i] = IF i \in Slots(ms) THEN written(i) ELSE guest_msrs[i]
  BY Zenon, <1>1 DEF Saved
<1>3. DOMAIN Saved(guest_msrs, ms) = 1 .. save_nmsrs
  BY Zenon, <1>1 DEF Saved
<1>4. ASSUME NEW i \in 1 .. save_nmsrs
      PROVE  /\ written(i) \in [index : Msrs, data : Values]
             /\ written(i).index = guest_msrs[i].index
             /\ written(i).data = msr[guest_msrs[i].index]
  BY Zenon, <1>1
<1>5. ASSUME NEW m \in Present
      PROVE  msr_index[m] \in Slots(ms) <=> m \in ms
  BY SlotsOf, PositionsDiffer
<1>6. ASSUME NEW m \in Present
      PROVE  msr_index[m] \in 1 .. save_nmsrs /\ guest_msrs[msr_index[m]].index = m
  BY Zenon, PositionOf
<1> HIDE DEF Slots, written
<1> QED BY <1>1, <1>2, <1>3, <1>4, <1>5, <1>6 DEF Listed

(***************************************************************************)
(* Every step keeps the invariant.                                         *)
(***************************************************************************)

(* What an MSR is to the vcpu does not change.                             *)
LEMMA SameMsrs ==
  ASSUME UNCHANGED listVars
  PROVE  /\ engine' = engine /\ msr_index' = msr_index /\ save_nmsrs' = save_nmsrs
         /\ Shared' = Shared /\ Present' = Present /\ PassThrough' = PassThrough
<1>1. engine' = engine /\ msr_index' = msr_index /\ save_nmsrs' = save_nmsrs
  BY Zenon DEF listVars
<1>2. Shared' = Shared
  BY Zenon, <1>1 DEF Shared
<1> QED BY Zenon, <1>1, <1>2 DEF Present, PassThrough

(* The lists stay in order when only the guest's values change.            *)
LEMMA ListKept ==
  ASSUME ListInv, UNCHANGED <<listVars, host_msrs>>,
         DOMAIN guest_msrs' = 1 .. save_nmsrs,
         \A i \in 1 .. save_nmsrs : /\ guest_msrs'[i] \in [index : Msrs, data : Values]
                                    /\ guest_msrs'[i].index = guest_msrs[i].index
  PROVE  ListInv'
<1>1. /\ engine' = engine /\ msr_index' = msr_index /\ save_nmsrs' = save_nmsrs
      /\ Shared' = Shared /\ Present' = Present
  BY Zenon, SameMsrs
<1>2. host_msrs' = host_msrs
  BY Zenon
<1>3. \A m \in Present : guest_msrs'[msr_index[m]].index = m
  BY Zenon, PositionOf
<1>4. \A m \in Shared \ Present : \A i \in 1 .. save_nmsrs : guest_msrs'[i].index # m
  BY Zenon DEF ListInv
<1>5. \A i, j \in 1 .. save_nmsrs : guest_msrs'[i].index = guest_msrs'[j].index => i = j
  BY Zenon DEF ListInv
<1>6. engine = "svm" =>
        Present = Shared /\ \A i \in 1 .. save_nmsrs : guest_msrs'[i].index \in Shared
  BY Zenon DEF ListInv
<1>7. host_msrs = [i \in 1 .. save_nmsrs |-> [index |-> guest_msrs'[i].index, data |-> 0]]
  BY Zenon DEF ListInv
<1>8. /\ engine \in {"vmx", "svm"} /\ save_nmsrs \in Nat
      /\ msr_index \in [Msrs -> 0 .. save_nmsrs]
  BY Zenon DEF ListInv
<1> HIDE DEF Present, Shared
<1> QED BY Zenon, <1>1, <1>2, <1>3, <1>4, <1>5, <1>6, <1>7, <1>8 DEF ListInv

(* The lists stay in order when nothing in them changes.                   *)
LEMMA ListSame ==
  ASSUME ListInv, UNCHANGED <<listVars, guest_msrs, host_msrs>>
  PROVE  ListInv'
<1>1. \A i \in 1 .. save_nmsrs : guest_msrs[i] \in [index : Msrs, data : Values]
  BY Zenon DEF ListInv
<1>2. DOMAIN guest_msrs = 1 .. save_nmsrs
  BY Zenon DEF ListInv
<1> QED BY Zenon, <1>1, <1>2, ListKept

(* With the host's values in the registers, save_host_msr writes what the  *)
(* list has already.                                                       *)
LEMMA HostSaved ==
  ASSUME ListInv, MsrInv, pc = "user" \/ ~on_cpu
  PROVE  Saved(host_msrs, Shared) = host_msrs
<1>1. pc # "guest" /\ ~guest_msrs_loaded
  BY Zenon DEF MsrInv
<1>2. \A m \in Msrs : msr[m] = 0
  BY Zenon, <1>1 DEF MsrInv
<1>3. ASSUME NEW i \in 1 .. save_nmsrs
      PROVE  [host_msrs[i] EXCEPT !.data = msr[host_msrs[i].index]] = host_msrs[i]
  <2>1. host_msrs[i] = [index |-> guest_msrs[i].index, data |-> 0] /\ guest_msrs[i].index \in Msrs
    BY Zenon DEF ListInv
  <2> QED BY <1>2, <2>1
<1>4. DOMAIN host_msrs = 1 .. save_nmsrs
  BY Zenon DEF ListInv
<1>5. host_msrs = [i \in 1 .. save_nmsrs |-> host_msrs[i]]
  BY Zenon DEF ListInv
<1> QED BY Zenon, <1>3, <1>4, <1>5 DEF Saved


(* Outside the guest, a step that leaves the registers, the guest's list   *)
(* and guest_msrs_loaded alone keeps MsrInv, unless it makes an entry take *)
(* a reschedule for none.                                                  *)
LEMMA MsrSame ==
  ASSUME MsrInv, pc # "guest", pc' # "guest",
         UNCHANGED <<listVars, msr, guest_msrs, guest_msrs_loaded, guest_view>>,
         pc' = "user" \/ ~on_cpu' => ~guest_msrs_loaded,
         pc' \in {"kernel", "dispatch"} /\ on_cpu' /\ ~scheded' =>
           pc \in {"kernel", "dispatch"} /\ on_cpu /\ ~scheded /\ last_vmexit' = last_vmexit,
         pc' = "dispatch" => pc = "dispatch" /\ op' = op
  PROVE  MsrInv'
<1>1. /\ engine' = engine /\ msr_index' = msr_index
      /\ Present' = Present /\ PassThrough' = PassThrough /\ Shared' = Shared
  BY Zenon, SameMsrs
<1>2. /\ msr' = msr /\ guest_msrs' = guest_msrs /\ guest_view' = guest_view
      /\ guest_msrs_loaded' = guest_msrs_loaded
  BY Zenon
<1>3. \A m : Listed(m)' = Listed(m)
  BY Zenon, <1>1, <1>2 DEF Listed
<1> HIDE DEF Listed, Present, PassThrough, Shared
<1> QED BY <1>1, <1>2, <1>3 DEF MsrInv

(* vmx_load_host_msrs and svm_load_host_msrs leave the host's values only. *)
LEMMA GivenBack ==
  ASSUME ListInv, MsrInv, pc # "guest", load_host_msrs
  PROVE  msr' = [m \in Msrs |-> 0] /\ guest_msrs_loaded' = FALSE
<1>1. guest_msrs_loaded' = FALSE
  BY Zenon DEF load_host_msrs
<1>2. CASE ~guest_msrs_loaded
  <2>1. msr' = msr /\ msr \in [Msrs -> Values]
    BY Zenon, <1>2 DEF load_host_msrs, MsrInv
  <2>2. \A m \in Msrs : msr[m] = 0
    BY Zenon, <1>2 DEF MsrInv
  <2> QED BY Zenon, <1>1, <2>1, <2>2
<1>3. CASE guest_msrs_loaded
  <2>1. msr' = Written(host_msrs, guest_msrs, host_msrs, Shared)
    BY Zenon, <1>3 DEF load_host_msrs
  <2>2. ASSUME NEW m \in Msrs PROVE msr'[m] = 0
    <3>1. \A n \in Present : host_msrs[msr_index[n]].index = n
      BY Zenon, PositionOf
    <3>2. msr'[m] = IF m \in Shared \cap Present
                       /\ guest_msrs[msr_index[m]] # host_msrs[msr_index[m]]
                    THEN host_msrs[msr_index[m]].data ELSE msr[m]
      BY <2>1, <3>1, WrittenAt
    <3>3. CASE m \notin Present
      BY Zenon, <3>2, <3>3 DEF MsrInv
    <3>4. CASE m \in Present
      <4>1. m \in Shared /\ host_msrs[msr_index[m]].data = 0
        BY Zenon, <3>4, PositionOf
      <4>2. msr[m] \in {0, Listed(m)}
        BY Zenon, <3>4 DEF MsrInv
      <4>3. guest_msrs[msr_index[m]] = host_msrs[msr_index[m]] => Listed(m) = 0
        BY Zenon, <4>1 DEF Listed
      <4> QED BY <3>2, <3>4, <4>1, <4>2, <4>3
    <3> QED BY Zenon, <3>3, <3>4
  <2>3. msr' = [m \in Msrs |-> msr'[m]]
    BY Zenon, <2>1 DEF Written
  <2> QED BY Zenon, <1>1, <2>2, <2>3
<1> QED BY Zenon, <1>2, <1>3

(* Giving everything back keeps MsrInv, outside the guest.                 *)
LEMMA GivenBackInv ==
  ASSUME ListInv, MsrInv, pc # "guest", pc' # "guest", load_host_msrs,
         UNCHANGED <<listVars, guest_msrs, guest_view, op>>,
         pc' = "dispatch" => pc = "dispatch",
         pc' = "user" \/ ~on_cpu'
  PROVE  MsrInv'
<1>1. /\ engine' = engine /\ msr_index' = msr_index
      /\ Present' = Present /\ PassThrough' = PassThrough /\ Shared' = Shared
  BY Zenon, SameMsrs
<1>2. guest_msrs' = guest_msrs /\ guest_view' = guest_view /\ op' = op
  BY Zenon
<1>3. msr' = [m \in Msrs |-> 0] /\ guest_msrs_loaded' = FALSE
  BY Zenon, GivenBack
<1>4. msr' \in [Msrs -> Values] /\ \A m \in Msrs : msr'[m] = 0
  BY Zenon, <1>3, ValuesAssumption
<1>5. Present \subseteq Msrs /\ (engine = "vmx" => FastMsrs \subseteq Msrs)
  BY Zenon, SharedMsrs
<1>6. \A m : Listed(m)' = Listed(m)
  BY Zenon, <1>1, <1>2 DEF Listed
<1>7. \A m \in Present : Listed(m) = guest_view[m]
  BY Zenon DEF MsrInv
<1>8. /\ guest_view \in [Msrs -> Values]
      /\ \A m \in Shared \ Present : guest_view[m] = 0
  BY Zenon DEF MsrInv
<1>9. pc' = "dispatch" /\ op.kind = "wrmsr" => op.m \in Msrs \ PassThrough /\ op.v \in Values
  BY Zenon DEF MsrInv
<1> HIDE DEF Listed, Present, PassThrough, Shared, FastMsrs
<1> QED BY Zenon, <1>1, <1>2, <1>3, <1>4, <1>5, <1>6, <1>7, <1>8, <1>9 DEF MsrInv


(* The frequent exit of the last round, seen by the entry.                 *)
FastEntry == engine = "vmx" /\ ~scheded /\ last_vmexit = "fast"

(* An entry gives the guest the values it last set.                        *)
LEMMA Entered ==
  ASSUME ListInv, MsrInv, EnterGuest
  PROVE  /\ msr' \in [Msrs -> Values]
         /\ \A m \in Msrs \ Present : msr'[m] = 0
         /\ \A m \in Present : msr'[m] = Listed(m)
<1>1. /\ pc # "guest" /\ pc = "kernel" /\ on_cpu
      /\ \A m \in Msrs \ Present : msr[m] = 0
      /\ \A m \in Present : msr[m] \in {0, Listed(m)}
      /\ msr \in [Msrs -> Values]
  BY Zenon DEF EnterGuest, MsrInv
<1>2. \A m \in Present : m \in Msrs /\ m \in Shared /\ Listed(m) \in Values
  BY Zenon, PositionOf
<1>3. CASE engine = "svm"
  <2>1. msr' = [m \in Msrs |-> IF m \in Shared THEN guest_msrs[msr_index[m]].data ELSE msr[m]]
    BY Zenon, <1>3 DEF EnterGuest
  <2>2. Present = Shared
    BY Zenon, <1>3 DEF ListInv
  <2>3. msr' = [m \in Msrs |-> IF m \in Present THEN Listed(m) ELSE msr[m]]
    BY Zenon, <2>1, <2>2 DEF Listed
  <2> HIDE DEF Present, Shared, Listed
  <2> QED BY Zenon, <1>1, <1>2, <2>3
<1>4. CASE engine = "vmx"
  <2> DEFINE ms == IF FastEntry THEN FastMsrs ELSE Shared
  <2>1. msr' = Written(guest_msrs, guest_msrs, host_msrs, ms)
    BY Zenon, <1>4 DEF EnterGuest, FastEntry
  <2>2. ms \subseteq Shared
    BY Zenon, <1>4, SharedMsrs
  <2>3. \A n \in Present : guest_msrs[msr_index[n]].index = n
    BY Zenon, PositionOf
  <2> HIDE DEF ms
  <2>4. \A m \in Msrs :
          msr'[m] = IF m \in ms \cap Present
                       /\ guest_msrs[msr_index[m]] # host_msrs[msr_index[m]]
                    THEN guest_msrs[msr_index[m]].data ELSE msr[m]
    BY <2>1, <2>2, <2>3, WrittenAt
  <2>5. msr' = [m \in Msrs |-> msr'[m]]
    BY Zenon, <2>1 DEF Written
  <2>6. ASSUME NEW m \in Present
        PROVE  guest_msrs[msr_index[m]] = host_msrs[msr_index[m]] => Listed(m) = 0
    BY Zenon, PositionOf DEF Listed
  <2>7. ASSUME NEW m \in Present, m \notin ms
        PROVE  msr[m] = Listed(m)
    <3>1. FastEntry /\ m \notin FastMsrs
      BY Zenon, <1>2, <2>7 DEF ms
    <3> QED BY Zenon, <1>1, <3>1 DEF MsrInv, FastEntry
  <2>8. ASSUME NEW m \in Present
        PROVE  msr'[m] = Listed(m)
    <3>1. CASE m \notin ms
      BY Zenon, <1>2, <2>4, <2>7, <3>1
    <3>2. CASE guest_msrs[msr_index[m]] = host_msrs[msr_index[m]]
      BY Zenon, <1>1, <1>2, <2>4, <2>6, <3>2
    <3>3. CASE m \in ms /\ guest_msrs[msr_index[m]] # host_msrs[msr_index[m]]
      BY Zenon, <1>2, <2>4, <3>3 DEF Listed
    <3> QED BY Zenon, <3>1, <3>2, <3>3
  <2>9. \A m \in Msrs \ Present : msr'[m] = 0
    BY Zenon, <1>1, <2>4
  <2>10. \A m \in Msrs : msr'[m] \in Values
    BY Zenon, <1>2, <2>8, <2>9, ValuesAssumption
  <2> QED BY Zenon, <2>5, <2>8, <2>9, <2>10
<1> QED BY Zenon, <1>3, <1>4 DEF ListInv

LEMMA EnterGuestInv ==
  ASSUME ListInv, MsrInv, EnterGuest
  PROVE  ListInv' /\ MsrInv'
<1>1. /\ pc = "kernel" /\ pc' = "guest" /\ on_cpu' = on_cpu /\ on_cpu
      /\ guest_msrs_loaded' = (guest_msrs_loaded \/ ~FastEntry)
      /\ UNCHANGED <<guest_msrs, host_msrs, listVars, guest_view>>
  BY Zenon DEF EnterGuest, FastEntry
<1>2. /\ engine' = engine /\ msr_index' = msr_index
      /\ Present' = Present /\ PassThrough' = PassThrough /\ Shared' = Shared
  BY Zenon, <1>1, SameMsrs
<1>3. guest_msrs_loaded'
  BY Zenon, <1>1 DEF MsrInv, FastEntry
<1>4. \A m : Listed(m)' = Listed(m)
  BY Zenon, <1>1, <1>2 DEF Listed
<1>5. /\ guest_view \in [Msrs -> Values]
      /\ \A m \in Shared \ Present : guest_view[m] = 0
      /\ \A m \in Present : Listed(m) = guest_view[m]
  BY Zenon, <1>1 DEF MsrInv
<1>6. ListInv'
  BY Zenon, <1>1, ListSame
<1>7. /\ msr' \in [Msrs -> Values]
      /\ \A m \in Msrs \ Present : msr'[m] = 0
      /\ \A m \in Present : msr'[m] = Listed(m)
  BY Zenon, Entered
<1> HIDE DEF Listed, Present, PassThrough, Shared, FastEntry
<1>8. /\ pc' = "guest" /\ on_cpu' /\ guest_view' = guest_view
  BY Zenon, <1>1
<1>9. MsrInv'
  BY Zenon, <1>2, <1>3, <1>4, <1>5, <1>7, <1>8 DEF MsrInv
<1> QED BY Zenon, <1>6, <1>9

(* The guest writes a register of its own; the list has it after the exit. *)
LEMMA GuestWritesInv ==
  ASSUME ListInv, MsrInv, NEW n \in Msrs, NEW v \in Values, GuestWrites(n, v)
  PROVE  ListInv' /\ MsrInv'
<1>1. /\ pc = "guest" /\ n \in PassThrough /\ msr_index[n] # 0 /\ pc' = pc
      /\ on_cpu' = on_cpu /\ guest_msrs_loaded' = guest_msrs_loaded
      /\ msr' = [msr EXCEPT ![n] = v] /\ guest_view' = [guest_view EXCEPT ![n] = v]
      /\ UNCHANGED <<guest_msrs, host_msrs, listVars>>
  BY Zenon DEF GuestWrites
<1>2. /\ engine' = engine /\ msr_index' = msr_index
      /\ Present' = Present /\ PassThrough' = PassThrough /\ Shared' = Shared
  BY Zenon, <1>1, SameMsrs
<1>3. n \in Present /\ Present \subseteq Msrs /\ Shared \subseteq Msrs
  BY Zenon, <1>1, SharedMsrs DEF Present
<1>4. \A m : Listed(m)' = Listed(m)
  BY Zenon, <1>1, <1>2 DEF Listed
<1>5. ListInv'
  BY Zenon, <1>1, ListSame
<1>6. /\ msr \in [Msrs -> Values] /\ guest_view \in [Msrs -> Values]
      /\ \A m \in Msrs \ Present : msr[m] = 0
      /\ \A m \in Shared \ Present : guest_view[m] = 0
      /\ on_cpu /\ guest_msrs_loaded
      /\ \A m \in Present : msr[m] = guest_view[m]
      /\ \A m \in Present \ PassThrough : Listed(m) = guest_view[m]
  BY Zenon, <1>1 DEF MsrInv
<1> HIDE DEF Listed, Present, PassThrough, Shared
<1>7. /\ msr' \in [Msrs -> Values] /\ guest_view' \in [Msrs -> Values]
      /\ \A m \in Msrs : m # n => msr'[m] = msr[m] /\ guest_view'[m] = guest_view[m]
      /\ msr'[n] = v /\ guest_view'[n] = v
  BY Zenon, <1>1, <1>6
<1>8. /\ \A m \in Msrs \ Present : msr'[m] = 0
      /\ \A m \in Shared \ Present : guest_view'[m] = 0
      /\ \A m \in Present : msr'[m] = guest_view'[m]
      /\ \A m \in Present \ PassThrough : Listed(m) = guest_view'[m]
  BY Zenon, <1>1, <1>3, <1>6, <1>7
<1>9. pc' = "guest" /\ on_cpu' /\ guest_msrs_loaded'
  BY Zenon, <1>1, <1>6
<1>10. MsrInv'
  BY Zenon, <1>2, <1>4, <1>7, <1>8, <1>9 DEF MsrInv
<1> QED BY Zenon, <1>5, <1>10


(* The MSRs an exit gives back: in the guest, guest_msrs_loaded is set.    *)
GivenBackAt(reason) ==
  IF engine # "vmx" THEN {} ELSE IF reason = "fast" THEN FastMsrs ELSE Shared

(* After an exit the list has what the guest set, the MSRs the exit gives  *)
(* back have the host's values, and the others the guest's.                *)
LEMMA Exited ==
  ASSUME ListInv, MsrInv, NEW reason, NEW todo, ExitGuest(reason, todo)
  PROVE  /\ ListInv'
         /\ msr' \in [Msrs -> Values]
         /\ \A m \in Msrs \ Present : msr'[m] = 0
         /\ \A m \in Present : /\ Listed(m)' = guest_view[m]
                               /\ msr'[m] = IF m \in GivenBackAt(reason) THEN 0
                                            ELSE guest_view[m]
         /\ guest_msrs_loaded' = (engine # "vmx" \/ reason = "fast")
<1>1. /\ pc = "guest" /\ UNCHANGED <<host_msrs, listVars>>
      /\ guest_msrs' = Saved(guest_msrs, PassThrough)
  BY Zenon DEF ExitGuest, PassThrough
<1>2. /\ msr \in [Msrs -> Values] /\ guest_msrs_loaded
      /\ \A m \in Msrs \ Present : msr[m] = 0
      /\ \A m \in Present : msr[m] = guest_view[m]
      /\ \A m \in Present \ PassThrough : Listed(m) = guest_view[m]
  BY Zenon, <1>1 DEF MsrInv
<1>3. /\ guest_msrs_loaded' = (engine # "vmx" \/ reason = "fast")
      /\ msr' = Written(host_msrs, guest_msrs', host_msrs, GivenBackAt(reason))
  BY Zenon, <1>2 DEF ExitGuest, GivenBackAt
<1>4. /\ GivenBackAt(reason) \subseteq Shared /\ PassThrough \subseteq Shared
      /\ Present \subseteq Msrs
  BY Zenon, SharedMsrs DEF GivenBackAt
<1>5. /\ DOMAIN guest_msrs' = 1 .. save_nmsrs
      /\ \A i \in 1 .. save_nmsrs :
           /\ guest_msrs'[i] \in [index : Msrs, data : Values]
           /\ guest_msrs'[i].index = guest_msrs[i].index
      /\ \A m \in Present :
           guest_msrs'[msr_index[m]].data = IF m \in PassThrough THEN msr[m] ELSE Listed(m)
  <2>1. msr \in [Msrs -> Values] /\ PassThrough \subseteq Shared
    BY Zenon, <1>2, <1>4
  <2>2. guest_msrs' = Saved(guest_msrs, PassThrough)
    BY Zenon, <1>1
  <2> QED BY <2>1, <2>2, SavedAt
<1>6. ListInv'
  BY Zenon, <1>1, <1>5, ListKept
<1>7. ASSUME NEW m \in Present PROVE Listed(m)' = guest_view[m]
  <2>1. Listed(m)' = guest_msrs'[msr_index[m]].data
    BY Zenon, <1>1, SameMsrs DEF Listed
  <2> QED BY Zenon, <1>2, <1>5, <2>1
<1>8. \A n \in Present : host_msrs[msr_index[n]].index = n
  BY Zenon, PositionOf
<1> HIDE DEF GivenBackAt
<1>9. \A m \in Msrs :
        msr'[m] = IF m \in GivenBackAt(reason) \cap Present
                     /\ guest_msrs'[msr_index[m]] # host_msrs[msr_index[m]]
                  THEN host_msrs[msr_index[m]].data ELSE msr[m]
  BY <1>3, <1>4, <1>8, WrittenAt
<1>10. ASSUME NEW m \in Present
       PROVE  msr'[m] = IF m \in GivenBackAt(reason) THEN 0 ELSE guest_view[m]
  <2>1. m \in Msrs /\ host_msrs[msr_index[m]].data = 0
    BY Zenon, PositionOf
  <2>2. msr[m] = guest_view[m]
    BY Zenon, <1>2
  <2>3. CASE m \notin GivenBackAt(reason)
    BY Zenon, <1>9, <2>1, <2>2, <2>3
  <2>4. CASE m \in GivenBackAt(reason) /\ guest_msrs'[msr_index[m]] # host_msrs[msr_index[m]]
    BY Zenon, <1>9, <2>1, <2>4
  <2>5. CASE m \in GivenBackAt(reason) /\ guest_msrs'[msr_index[m]] = host_msrs[msr_index[m]]
    <3>1. Listed(m)' = guest_msrs'[msr_index[m]].data
      BY Zenon, <1>1, SameMsrs DEF Listed
    <3>2. guest_view[m] = 0
      BY Zenon, <1>7, <2>1, <2>5, <3>1
    <3> QED BY Zenon, <1>9, <2>1, <2>2, <2>5, <3>2
  <2> QED BY Zenon, <2>3, <2>4, <2>5
<1>11. \A m \in Msrs \ Present : msr'[m] = 0
  BY Zenon, <1>2, <1>9
<1>12. msr' \in [Msrs -> Values]
  <2>1. msr' = [m \in Msrs |-> msr'[m]]
    BY Zenon, <1>3 DEF Written
  <2>2. \A m \in Msrs : msr'[m] \in Values
    BY Zenon, <1>2, <1>10, <1>11, ValuesAssumption
  <2> QED BY Zenon, <2>1, <2>2
<1> QED BY Zenon, <1>3, <1>6, <1>7, <1>10, <1>11, <1>12

LEMMA ExitGuestInv ==
  ASSUME ListInv, MsrInv, NEW reason, NEW todo, ExitGuest(reason, todo),
         todo.kind = "wrmsr" =>
           todo.m \in Msrs \ PassThrough /\ todo.v \in Values /\ reason = "slow"
  PROVE  ListInv' /\ MsrInv'
<1>1. /\ pc' = "dispatch" /\ on_cpu' = on_cpu /\ last_vmexit' = reason /\ op' = todo
      /\ guest_view' = guest_view /\ UNCHANGED listVars /\ pc = "guest"
  BY Zenon DEF ExitGuest
<1>2. /\ engine' = engine /\ Present' = Present
      /\ PassThrough' = PassThrough /\ Shared' = Shared
  BY Zenon, <1>1, SameMsrs
<1>3. /\ ListInv'
      /\ msr' \in [Msrs -> Values]
      /\ \A m \in Msrs \ Present : msr'[m] = 0
      /\ \A m \in Present : /\ Listed(m)' = guest_view[m]
                            /\ msr'[m] = IF m \in GivenBackAt(reason) THEN 0
                                         ELSE guest_view[m]
      /\ guest_msrs_loaded' = (engine # "vmx" \/ reason = "fast")
  BY Zenon, Exited
<1>4. /\ guest_view \in [Msrs -> Values] /\ on_cpu
      /\ \A m \in Shared \ Present : guest_view[m] = 0
  BY Zenon, <1>1 DEF MsrInv
<1>5. /\ engine = "vmx" /\ reason # "fast" => Present \subseteq GivenBackAt(reason)
      /\ engine = "vmx" => FastMsrs \subseteq GivenBackAt(reason)
      /\ engine = "vmx" /\ reason = "fast" => GivenBackAt(reason) = FastMsrs
      /\ engine = "vmx" => FastMsrs \subseteq Msrs
  BY Zenon, SharedMsrs DEF GivenBackAt
<1>6. engine = "vmx" => \A m \in FastMsrs : msr'[m] = 0
  BY Zenon, <1>3, <1>5
<1>7. engine = "vmx" /\ reason = "fast" =>
        guest_msrs_loaded' /\ \A m \in Present \ FastMsrs : msr'[m] = Listed(m)'
  BY Zenon, <1>3, <1>5
<1>8. ~guest_msrs_loaded' => \A m \in Present : msr'[m] = 0
  BY Zenon, <1>3, <1>5
<1>9. \A m \in Present : Listed(m)' = guest_view'[m] /\ msr'[m] \in {0, Listed(m)'}
  BY Zenon, <1>1, <1>3
<1>10. op'.kind = "wrmsr" =>
         /\ op'.m \in Msrs \ PassThrough /\ op'.v \in Values
         /\ engine = "vmx" => ~guest_msrs_loaded'
  BY Zenon, <1>1, <1>3
<1> HIDE DEF Listed, Present, PassThrough, Shared, GivenBackAt, FastMsrs
<1>11. /\ msr' \in [Msrs -> Values]
       /\ \A m \in Msrs \ Present : msr'[m] = 0
  BY Zenon, <1>3
<1>12. /\ guest_view' \in [Msrs -> Values] /\ on_cpu'
       /\ \A m \in Shared \ Present : guest_view'[m] = 0
  BY Zenon, <1>1, <1>4
<1>13. pc' = "dispatch" /\ last_vmexit' = reason
  BY Zenon, <1>1
<1>14. MsrInv'
  BY Zenon, <1>2, <1>6, <1>7, <1>8, <1>9, <1>10, <1>11, <1>12, <1>13 DEF MsrInv
<1> QED BY Zenon, <1>3, <1>14


(* vmx_handle_msr_write changes an entry of the list while every register  *)
(* has the host's value; with SVM it has no MSR to write.                  *)
LEMMA HandleMsrWriteInv ==
  ASSUME ListInv, MsrInv, handle_msr_write
  PROVE  ListInv' /\ MsrInv'
<1> DEFINE known == {i \in DOMAIN guest_msrs : guest_msrs[i].index = op.m}
<1>1. /\ pc = "dispatch" /\ on_cpu /\ op.kind = "wrmsr"
      /\ pc' = IF known = {} THEN "leave" ELSE "kernel"
      /\ guest_msrs' = [i \in DOMAIN guest_msrs |->
                          IF i \in known THEN [guest_msrs[i] EXCEPT !.data = op.v]
                          ELSE guest_msrs[i]]
      /\ guest_view' = IF known = {} THEN guest_view ELSE [guest_view EXCEPT ![op.m] = op.v]
      /\ on_cpu' = on_cpu /\ msr' = msr /\ guest_msrs_loaded' = guest_msrs_loaded
      /\ scheded' = scheded /\ last_vmexit' = last_vmexit
      /\ UNCHANGED <<listVars, host_msrs>>
  BY Zenon DEF handle_msr_write
<1>2. /\ engine' = engine /\ msr_index' = msr_index
      /\ Present' = Present /\ PassThrough' = PassThrough /\ Shared' = Shared
  BY Zenon, <1>1, SameMsrs
<1>3. /\ op.m \in Msrs \ PassThrough /\ op.v \in Values
      /\ engine = "vmx" => ~guest_msrs_loaded
  BY Zenon, <1>1 DEF MsrInv
<1>4. /\ DOMAIN guest_msrs = 1 .. save_nmsrs
      /\ \A i \in 1 .. save_nmsrs : guest_msrs[i] \in [index : Msrs, data : Values]
  BY Zenon DEF ListInv
<1>5. \A i \in 1 .. save_nmsrs :
        guest_msrs'[i] = IF guest_msrs[i].index = op.m THEN [guest_msrs[i] EXCEPT !.data = op.v]
                         ELSE guest_msrs[i]
  BY Zenon, <1>1, <1>4
<1>6. /\ DOMAIN guest_msrs' = 1 .. save_nmsrs
      /\ \A i \in 1 .. save_nmsrs : /\ guest_msrs'[i] \in [index : Msrs, data : Values]
                                    /\ guest_msrs'[i].index = guest_msrs[i].index
  <2>1. DOMAIN guest_msrs' = 1 .. save_nmsrs
    BY Zenon, <1>1, <1>4
  <2>2. ASSUME NEW i \in 1 .. save_nmsrs
        PROVE  /\ [guest_msrs[i] EXCEPT !.data = op.v] \in [index : Msrs, data : Values]
               /\ [guest_msrs[i] EXCEPT !.data = op.v].index = guest_msrs[i].index
    BY Zenon, <1>3, <1>4
  <2> QED BY Zenon, <1>4, <1>5, <2>1, <2>2
<1>7. ListInv'
  BY Zenon, <1>1, <1>6, ListKept
<1>8. engine = "svm" => known = {}
  BY Zenon, <1>3, <1>4 DEF ListInv, PassThrough
<1>9. op.m \in Shared \ Present => known = {}
  BY Zenon, <1>4 DEF ListInv
<1>10. op.m \in Present => msr_index[op.m] \in known
  BY Zenon, <1>4, PositionOf
<1>11. ASSUME NEW m \in Present
       PROVE  Listed(m)' = IF m = op.m THEN op.v ELSE Listed(m)
  <2>1. msr_index[m] \in 1 .. save_nmsrs /\ guest_msrs[msr_index[m]].index = m
    BY Zenon, PositionOf
  <2>2. [guest_msrs[msr_index[m]] EXCEPT !.data = op.v].data = op.v
    BY Zenon, <1>4, <2>1
  <2> QED BY Zenon, <1>2, <1>5, <2>1, <2>2 DEF Listed
<1>12. /\ msr \in [Msrs -> Values] /\ guest_view \in [Msrs -> Values]
       /\ \A m \in Msrs \ Present : msr[m] = 0
       /\ \A m \in Shared \ Present : guest_view[m] = 0
       /\ \A m \in Present : Listed(m) = guest_view[m] /\ msr[m] \in {0, Listed(m)}
       /\ ~guest_msrs_loaded => \A m \in Present : msr[m] = 0
       /\ engine = "vmx" => \A m \in FastMsrs : msr[m] = 0
       /\ engine = "vmx" => ~(~scheded /\ last_vmexit = "fast")
  BY Zenon, <1>1, <1>3 DEF MsrInv
<1>13. guest_view' \in [Msrs -> Values]
  BY Zenon, <1>1, <1>3, <1>12
<1>14. Present \subseteq Msrs /\ Shared \subseteq Msrs
  BY Zenon, SharedMsrs
<1>15. \A m \in Msrs : guest_view'[m] = IF known # {} /\ m = op.m THEN op.v ELSE guest_view[m]
  BY Zenon, <1>1, <1>3, <1>12
<1> HIDE DEF Listed, Present, PassThrough, Shared, FastMsrs, known
<1>16. \A m \in Shared \ Present : guest_view'[m] = 0
  BY Zenon, <1>9, <1>12, <1>14, <1>15
<1>17. \A m \in Present : Listed(m)' = guest_view'[m]
  BY Zenon, <1>10, <1>11, <1>12, <1>14, <1>15
<1>18. \A m \in Present : msr[m] \in {0, Listed(m)'}
  <2>1. CASE engine = "vmx"
    BY Zenon, <1>3, <1>12, <2>1
  <2>2. CASE engine = "svm"
    BY Zenon, <1>8, <1>10, <1>11, <1>12, <2>2
  <2> QED BY Zenon, <2>1, <2>2 DEF ListInv
<1>19. /\ pc' # "guest" /\ pc' # "user" /\ pc' # "dispatch" /\ on_cpu'
       /\ msr' = msr /\ guest_msrs_loaded' = guest_msrs_loaded
       /\ scheded' = scheded /\ last_vmexit' = last_vmexit
  BY Zenon, <1>1
<1>20. MsrInv'
  BY Zenon, <1>2, <1>12, <1>13, <1>16, <1>17, <1>18, <1>19 DEF MsrInv
<1> QED BY Zenon, <1>7, <1>20

(* The thread is scheduled out: everything is given back.                  *)
LEMMA SchedOutInv ==
  ASSUME ListInv, MsrInv, slimvm_sched_out \/ put_vcpu
  PROVE  ListInv' /\ MsrInv'
<1>1. /\ pc # "guest" /\ load_host_msrs
      /\ UNCHANGED <<listVars, guest_msrs, host_msrs, guest_view, op>>
      /\ (pc' = pc /\ on_cpu' = FALSE) \/ pc' = "user"
  BY Zenon DEF slimvm_sched_out, put_vcpu
<1>2. ListInv'
  BY Zenon, <1>1, ListSame
<1>3. MsrInv'
  BY Zenon, <1>1, GivenBackInv
<1> QED BY Zenon, <1>2, <1>3

(* The thread starts RUN or comes back to a CPU: the host's values are     *)
(* saved, and the next entry will load everything.                         *)
LEMMA SchedInInv ==
  ASSUME ListInv, MsrInv, load_vcpu \/ slimvm_sched_in
  PROVE  ListInv' /\ MsrInv'
<1>1. /\ pc = "user" \/ ~on_cpu
      /\ host_msrs' = Saved(host_msrs, Shared) /\ scheded'
      /\ UNCHANGED <<listVars, msr, guest_msrs, guest_msrs_loaded, guest_view, op>>
      /\ pc' = pc \/ (pc = "user" /\ pc' = "kernel")
  BY Zenon DEF load_vcpu, slimvm_sched_in
<1>2. host_msrs' = host_msrs
  BY Zenon, <1>1, HostSaved
<1>3. ListInv'
  BY Zenon, <1>1, <1>2, ListSame
<1>4. pc # "guest" /\ ~guest_msrs_loaded
  BY Zenon, <1>1 DEF MsrInv
<1>5. MsrInv'
  BY Zenon, <1>1, <1>4, MsrSame
<1> QED BY Zenon, <1>3, <1>5

(* The other steps of the loop do not touch the MSRs.                      *)
LEMMA LoopInv ==
  ASSUME ListInv, MsrInv, Dispatch \/ handle_xsetbv \/ EndLoop
  PROVE  ListInv' /\ MsrInv'
<1>1. /\ pc \in {"kernel", "dispatch"} /\ on_cpu /\ pc' \in {"kernel", "leave"}
      /\ on_cpu' = on_cpu /\ scheded' = scheded /\ last_vmexit' = last_vmexit
      /\ UNCHANGED <<listVars, msr, guest_msrs, guest_msrs_loaded, guest_view, host_msrs>>
  BY Zenon DEF Dispatch, handle_xsetbv, EndLoop
<1>2. ListInv'
  BY Zenon, <1>1, ListSame
<1>3. MsrInv'
  BY Zenon, <1>1, MsrSame
<1> QED BY Zenon, <1>2, <1>3


(* Every step keeps XcrInv: the register changes only with what            *)
(* guest_xcr0_loaded and vcpu->xcr0 say of it, went_back excepted.         *)
LEMMA XcrStep ==
  ASSUME MsrInv, XcrInv, [Next]_vars
  PROVE  XcrInv'
<1>1. CASE slimvm_sched_out \/ put_vcpu
  BY Zenon, <1>1 DEF slimvm_sched_out, put_vcpu, put_guest_xcr0, XcrInv
<1>2. CASE EnterGuest
  <2>1. /\ pc' = "guest" /\ on_cpu /\ on_cpu' = on_cpu /\ xcr0' = xcr0 /\ went_back' = went_back
        /\ load_guest_xcr0 \/ UNCHANGED <<hw_xcr0, guest_xcr0_loaded>>
    BY Zenon, <1>2 DEF EnterGuest
  <2>2. CASE UNCHANGED <<hw_xcr0, guest_xcr0_loaded>>
    BY Zenon, <2>1, <2>2 DEF XcrInv
  <2>3. CASE load_guest_xcr0 /\ xcr0 # 0 /\ ~guest_xcr0_loaded
    <3>1. hw_xcr0' = xcr0 \/ hw_xcr0' = hw_xcr0
      BY Zenon, <2>3 DEF load_guest_xcr0
    <3>2. hw_xcr0 = HostXcr0 \/ went_back
      BY Zenon, <2>3 DEF XcrInv
    <3>3. guest_xcr0_loaded' = TRUE
      BY Zenon, <2>3 DEF load_guest_xcr0
    <3> QED BY Zenon, <2>1, <3>1, <3>2, <3>3 DEF XcrInv
  <2>4. CASE load_guest_xcr0 /\ ~(xcr0 # 0 /\ ~guest_xcr0_loaded)
    <3>1. hw_xcr0' = hw_xcr0 /\ (guest_xcr0_loaded' <=> guest_xcr0_loaded)
      BY Zenon, <2>4 DEF load_guest_xcr0
    <3> QED BY Zenon, <2>1, <3>1 DEF XcrInv
  <2> QED BY Zenon, <2>1, <2>2, <2>3, <2>4
<1>3. CASE handle_xsetbv
  <2>1. /\ pc' = "kernel" /\ on_cpu /\ on_cpu' = on_cpu
        /\ hw_xcr0' = hw_xcr0 /\ guest_xcr0_loaded' = guest_xcr0_loaded
    BY Zenon, <1>3 DEF handle_xsetbv
  <2>2. CASE op.v = 0
    <3>1. xcr0' = xcr0 /\ (went_back => went_back')
      BY Zenon, <1>3, <2>2 DEF handle_xsetbv
    <3> QED BY Zenon, <2>1, <3>1 DEF XcrInv
  <2>3. CASE op.v # 0
    <3>1. xcr0' = op.v /\ (went_back => went_back')
      BY Zenon, <1>3, <2>3 DEF handle_xsetbv
    <3>2. op.v = HostXcr0 /\ guest_xcr0_loaded /\ xcr0 # HostXcr0 => went_back'
      BY Zenon, <1>3 DEF handle_xsetbv
    <3> QED BY Zenon, <2>1, <3>1, <3>2 DEF XcrInv
  <2> QED BY Zenon, <2>2, <2>3
<1>4. CASE load_vcpu
  BY Zenon, <1>4 DEF load_vcpu, xcr0Vars, XcrInv
<1>5. CASE slimvm_sched_in
  BY Zenon, <1>5 DEF slimvm_sched_in, xcr0Vars, XcrInv
<1>6. ASSUME NEW m \in Msrs, NEW v \in Values, GuestWrites(m, v)
      PROVE  XcrInv'
  BY Zenon, <1>6 DEF GuestWrites, xcr0Vars, XcrInv
<1>7. ASSUME NEW reason, NEW todo, ExitGuest(reason, todo)
      PROVE  XcrInv'
  <2>1. pc = "guest" /\ pc' = "dispatch" /\ on_cpu' = on_cpu /\ UNCHANGED xcr0Vars
    BY Zenon, <1>7 DEF ExitGuest
  <2> QED BY Zenon, <2>1 DEF xcr0Vars, XcrInv
<1>8. CASE Dispatch
  BY Zenon, <1>8 DEF Dispatch, xcr0Vars, XcrInv
<1>9. CASE handle_msr_write
  <2>1. pc' # "user" /\ on_cpu /\ on_cpu' = on_cpu /\ UNCHANGED xcr0Vars
    BY Zenon, <1>9 DEF handle_msr_write
  <2> QED BY Zenon, <2>1 DEF xcr0Vars, XcrInv
<1>10. CASE EndLoop
  BY Zenon, <1>10 DEF EndLoop, xcr0Vars, XcrInv
<1>11. CASE UNCHANGED vars
  BY Zenon, <1>11 DEF vars, xcr0Vars, XcrInv
<1> QED BY Zenon, <1>1, <1>2, <1>3, <1>4, <1>5, <1>6, <1>7, <1>8, <1>9, <1>10, <1>11 DEF Next

(* Every step keeps the facts about the MSRs and their lists.              *)
LEMMA MsrStep ==
  ASSUME ListInv, MsrInv, [Next]_vars
  PROVE  ListInv' /\ MsrInv'
<1>1. CASE slimvm_sched_out \/ put_vcpu
  BY Zenon, <1>1, SchedOutInv
<1>2. CASE load_vcpu \/ slimvm_sched_in
  BY Zenon, <1>2, SchedInInv
<1>3. CASE EnterGuest
  BY Zenon, <1>3, EnterGuestInv
<1>4. ASSUME NEW m \in Msrs, NEW v \in Values, GuestWrites(m, v)
      PROVE  ListInv' /\ MsrInv'
  BY Zenon, <1>4, GuestWritesInv
<1>5. ASSUME NEW reason \in {"fast", "slow"}, ExitGuest(reason, [kind |-> "none"])
      PROVE  ListInv' /\ MsrInv'
  <2>1. [kind |-> "none"].kind # "wrmsr"
    BY Zenon
  <2> QED BY ONLY ListInv, MsrInv, <1>5, <2>1, ExitGuestInv
<1>6. ASSUME NEW m \in Msrs \ PassThrough, NEW v \in Values,
             ExitGuest("slow", [kind |-> "wrmsr", m |-> m, v |-> v])
      PROVE  ListInv' /\ MsrInv'
  <2> DEFINE todo == [kind |-> "wrmsr", m |-> m, v |-> v]
  <2>1. todo.m \in Msrs \ PassThrough /\ todo.v \in Values
    BY Zenon
  <2>2. ExitGuest("slow", todo)
    BY Zenon, <1>6
  <2> HIDE DEF todo
  <2> QED BY ONLY ListInv, MsrInv, <2>1, <2>2, ExitGuestInv
<1>7. ASSUME NEW v \in Xcr0s, ExitGuest("XSETBV", [kind |-> "xsetbv", v |-> v])
      PROVE  ListInv' /\ MsrInv'
  <2>1. [kind |-> "xsetbv", v |-> v].kind # "wrmsr"
    BY Zenon
  <2> QED BY ONLY ListInv, MsrInv, <1>7, <2>1, ExitGuestInv
<1>8. CASE handle_msr_write
  BY Zenon, <1>8, HandleMsrWriteInv
<1>9. CASE Dispatch \/ handle_xsetbv \/ EndLoop
  BY Zenon, <1>9, LoopInv
<1>10. CASE UNCHANGED vars
  <2>1. UNCHANGED <<listVars, guest_msrs, host_msrs>>
    BY Zenon, <1>10 DEF vars
  <2>2. ListInv'
    BY Zenon, <2>1, ListSame
  <2>3. /\ Present' = Present /\ PassThrough' = PassThrough /\ Shared' = Shared
        /\ engine' = engine /\ msr_index' = msr_index
    BY Zenon, <2>1, SameMsrs
  <2>4. /\ pc' = pc /\ on_cpu' = on_cpu /\ msr' = msr /\ guest_msrs' = guest_msrs
        /\ guest_msrs_loaded' = guest_msrs_loaded /\ scheded' = scheded
        /\ last_vmexit' = last_vmexit /\ op' = op /\ guest_view' = guest_view
    BY Zenon, <1>10 DEF vars
  <2>5. MsrInv'
    <3>1. \A m : Listed(m)' = Listed(m)
      BY Zenon, <2>3, <2>4 DEF Listed
    <3> HIDE DEF Listed, Present, PassThrough, Shared
    <3> QED BY Zenon, <2>3, <2>4, <3>1 DEF MsrInv
  <2> QED BY Zenon, <2>2, <2>5
<1> QED BY Zenon, <1>1, <1>2, <1>3, <1>4, <1>5, <1>6, <1>7, <1>8, <1>9, <1>10 DEF Next


(***************************************************************************)
(* The lists vmx_setup_vmcs and setup_msr build.                           *)
(***************************************************************************)

(* The order in which vmx_setup_vmcs lists the MSRs.                       *)
Rank(m) ==
  CASE m = "SYSCALL_MASK" -> 1 [] m = "LSTAR" -> 2 [] m = "KERNEL_GS_BASE" -> 3
    [] m = "EFER" -> 4 [] m = "STAR" -> 5 [] m = "MISC_FEATURES_ENABLES" -> 6
    [] OTHER -> 7

VmxMsrs == {"SYSCALL_MASK", "LSTAR", "KERNEL_GS_BASE", "EFER", "STAR",
            "MISC_FEATURES_ENABLES", "PLATFORM_INFO"}

(* list has MSRs up to rank k, in the order of their ranks.                *)
Sorted(list, k) ==
  /\ list \in Seq(VmxMsrs)
  /\ \A i \in 1 .. Len(list) : Rank(list[i]) <= k
  /\ \A i, j \in 1 .. Len(list) : i < j => Rank(list[i]) < Rank(list[j])

(* Rounds 1 to k of setup_msr left the list as it was, have switched the   *)
(* MSRs up to rank k, and recorded where each of them is.                  *)
SetUp(s, list, k) ==
  /\ s = [list |-> s.list, n |-> s.n, index |-> s.index]
  /\ s.list = list /\ s.n \in 0 .. Len(list)
  /\ \A i \in 1 .. Len(list) : i <= s.n <=> Rank(list[i]) <= k
  /\ s.index \in [Msrs -> 0 .. Len(list)]
  /\ \A m \in VmxMsrs : Rank(m) <= k =>
       IF s.index[m] = 0 THEN \A i \in 1 .. Len(list) : list[i] # m
       ELSE list[s.index[m]] = m
  /\ \A m \in VmxMsrs : Rank(m) > k => s.index[m] = 0

(* Every entry of a list is switched, and the position of each of ms is    *)
(* recorded.                                                               *)
Placed(s, ms) ==
  /\ s.list \in Seq(Msrs) /\ s.n = Len(s.list)
  /\ \A i, j \in 1 .. Len(s.list) : s.list[i] = s.list[j] => i = j
  /\ s.index \in [Msrs -> 0 .. Len(s.list)]
  /\ \A m \in ms :
       IF s.index[m] = 0 THEN \A i \in 1 .. Len(s.list) : s.list[i] # m
       ELSE s.list[s.index[m]] = m

(* The ranks tell the MSRs apart, and all of them are MSRs.                *)
LEMMA RankFacts ==
  /\ \A m \in VmxMsrs : Rank(m) \in 1 .. 7
  /\ \A m, n \in VmxMsrs : Rank(m) = Rank(n) => m = n
  /\ VmxMsrs \subseteq Msrs
  /\ ToSet(vmx_msr_index) = VmxMsrs \ {"PLATFORM_INFO"}
<1>1. \A m \in VmxMsrs : Rank(m) \in 1 .. 7
  BY DEF VmxMsrs, Rank
<1>2. \A m, n \in VmxMsrs : Rank(m) = Rank(n) => m = n
  BY DEF VmxMsrs, Rank
<1>3. /\ DOMAIN vmx_msr_index = 1 .. 6
      /\ vmx_msr_index[1] = "SYSCALL_MASK" /\ vmx_msr_index[2] = "LSTAR"
      /\ vmx_msr_index[3] = "KERNEL_GS_BASE" /\ vmx_msr_index[4] = "EFER"
      /\ vmx_msr_index[5] = "STAR" /\ vmx_msr_index[6] = "MISC_FEATURES_ENABLES"
  BY DEF vmx_msr_index
<1>4. 1 .. 6 = {1, 2, 3, 4, 5, 6}
  OBVIOUS
<1>5. ToSet(vmx_msr_index) = {vmx_msr_index[1], vmx_msr_index[2], vmx_msr_index[3],
                              vmx_msr_index[4], vmx_msr_index[5], vmx_msr_index[6]}
  BY Zenon, <1>3, <1>4 DEF ToSet
<1>6. ToSet(vmx_msr_index) = VmxMsrs \ {"PLATFORM_INFO"}
  BY Zenon, <1>3, <1>5 DEF VmxMsrs
<1>7. VmxMsrs \subseteq Msrs
  BY Zenon, <1>6 DEF Msrs
<1> QED BY Zenon, <1>1, <1>2, <1>6, <1>7

(* __find_msr_index finds the position of an MSR that is listed once.      *)
LEMMA Found ==
  ASSUME NEW list, NEW m, NEW i \in 1 .. Len(list), list[i] = m,
         \A j \in 1 .. Len(list) : list[j] = m => j = i
  PROVE  find_msr_index(list, m) = i
<1>1. {j \in 1 .. Len(list) : list[j] = m} = {i}
  BY Zenon
<1>2. i <= i
  OBVIOUS
<1>3. (CHOOSE j \in {i} : \A l \in {i} : j <= l) = i
  BY Zenon, <1>2
<1> QED BY Zenon, <1>1, <1>3 DEF find_msr_index

(* __find_msr_index answers -1 for an MSR that is not listed.              *)
LEMMA NotFound ==
  ASSUME NEW list, NEW m, \A j \in 1 .. Len(list) : list[j] # m
  PROVE  find_msr_index(list, m) = 0
<1>1. {j \in 1 .. Len(list) : list[j] = m} = {}
  BY Zenon
<1> QED BY Zenon, <1>1 DEF find_msr_index

(* An MSR is listed after those of lower rank.                             *)
LEMMA ListMsrSorted ==
  ASSUME NEW list, NEW k \in Nat, Sorted(list, k), NEW missing,
         NEW m \in VmxMsrs, Rank(m) = k + 1
  PROVE  Sorted(ListMsr(list, m, missing), k + 1) /\ Sorted(Append(list, m), k + 1)
<1>1. list \in Seq(VmxMsrs) /\ Append(list, m) \in Seq(VmxMsrs)
  BY DEF Sorted
<1>2. \A i \in 1 .. Len(list) : Rank(list[i]) \in 1 .. 7 /\ Rank(list[i]) <= k
  BY RankFacts DEF Sorted
<1>3. Sorted(list, k + 1)
  BY <1>1, <1>2 DEF Sorted
<1> DEFINE l == Append(list, m)
<1>4. /\ Len(l) = Len(list) + 1 /\ Len(list) \in Nat /\ l[Len(list) + 1] = m
      /\ \A i \in 1 .. Len(list) : l[i] = list[i]
  BY SMTT(30), <1>1
<1>5. l \in Seq(VmxMsrs)
  BY Zenon, <1>1
<1> HIDE DEF l
<1>6. \A i \in 1 .. Len(l) : Rank(l[i]) <= k + 1
  BY <1>2, <1>4
<1>7. ASSUME NEW i \in 1 .. Len(l), NEW j \in 1 .. Len(l), i < j
      PROVE  Rank(l[i]) < Rank(l[j])
  <2>1. i \in 1 .. Len(list) /\ l[i] = list[i]
    BY <1>4, <1>7
  <2>2. CASE j = Len(list) + 1
    BY SMTT(30), <1>2, <1>4, <2>1, <2>2
  <2>3. CASE j \in 1 .. Len(list)
    BY Zenon, <1>4, <1>7, <2>1, <2>3 DEF Sorted
  <2> QED BY <1>4, <2>2, <2>3
<1>8. Sorted(l, k + 1)
  BY Zenon, <1>5, <1>6, <1>7 DEF Sorted
<1> QED BY Zenon, <1>3, <1>8 DEF ListMsr, l


(* In a sorted list an MSR is listed once.                                 *)
LEMMA SortedOnce ==
  ASSUME NEW list, NEW k \in Nat, Sorted(list, k),
         NEW i \in 1 .. Len(list), NEW j \in 1 .. Len(list), list[i] = list[j]
  PROVE  i = j
<1>1. Len(list) \in Nat /\ list[i] \in VmxMsrs
  BY DEF Sorted
<1>2. Rank(list[i]) \in 1 .. 7
  BY Zenon, <1>1, RankFacts
<1>3. ~(i < j) /\ ~(j < i)
  BY <1>2 DEF Sorted
<1> QED BY <1>1, <1>3

(* move_msr_up does nothing when the MSR is in place.                      *)
LEMMA InPlace ==
  ASSUME NEW S, NEW list \in Seq(S), NEW i \in 1 .. Len(list)
  PROVE  move_msr_up(list, i, i) = list
BY DEF move_msr_up

(* move_msr_up exchanges two entries.                                      *)
LEMMA MovedUp ==
  ASSUME NEW S, NEW list \in Seq(S), NEW i \in 1 .. Len(list), NEW j \in 1 .. Len(list), i # j
  PROVE  /\ move_msr_up(list, i, j) \in Seq(S) /\ Len(move_msr_up(list, i, j)) = Len(list)
         /\ move_msr_up(list, i, j)[j] = list[i] /\ move_msr_up(list, i, j)[i] = list[j]
         /\ \A n \in 1 .. Len(list) :
              n # i /\ n # j => move_msr_up(list, i, j)[n] = list[n]
<1>1. list \in [1 .. Len(list) -> S] /\ Len(list) \in Nat
  OBVIOUS
<1> DEFINE moved == [list EXCEPT ![j] = list[i], ![i] = list[j]]
<1>2. moved \in [1 .. Len(list) -> S]
  BY Zenon, <1>1
<1>3. moved[j] = list[i] /\ moved[i] = list[j]
  BY Zenon, <1>1
<1>4. \A n \in 1 .. Len(list) : n # i /\ n # j => moved[n] = list[n]
  BY Zenon, <1>1
<1>5. move_msr_up(list, i, j) = moved
  BY Zenon DEF move_msr_up
<1> HIDE DEF moved
<1>6. moved \in Seq(S) /\ Len(moved) = Len(list)
  BY <1>1, <1>2
<1> QED BY Zenon, <1>3, <1>4, <1>5, <1>6

(* A round of setup_msr finds its MSR in the next place, or not at all.    *)
LEMMA Round ==
  ASSUME NEW list, Sorted(list, 7), NEW s, NEW k \in Nat, SetUp(s, list, k),
         NEW m \in VmxMsrs, Rank(m) = k + 1
  PROVE  SetUp(SetupOne(s, m), list, k + 1)
<1>1. /\ list \in Seq(VmxMsrs) /\ Len(list) \in Nat
      /\ \A i \in 1 .. Len(list) : list[i] \in VmxMsrs /\ Rank(list[i]) \in 1 .. 7
  BY RankFacts DEF Sorted
<1>2. /\ s = [list |-> list, n |-> s.n, index |-> s.index] /\ s.list = list
      /\ s.n \in 0 .. Len(list) /\ s.index \in [Msrs -> 0 .. Len(list)]
      /\ \A i \in 1 .. Len(list) : i <= s.n <=> Rank(list[i]) <= k
      /\ \A n \in VmxMsrs : Rank(n) <= k =>
           IF s.index[n] = 0 THEN \A i \in 1 .. Len(list) : list[i] # n
           ELSE list[s.index[n]] = n
      /\ \A n \in VmxMsrs : Rank(n) > k => s.index[n] = 0
  BY Zenon DEF SetUp
<1>3. \A n \in VmxMsrs : n = m \/ Rank(n) <= k \/ Rank(n) > k + 1
  BY RankFacts
<1>4. \A n \in VmxMsrs : Rank(n) \in 1 .. 7
  BY Zenon, RankFacts
<1>5. CASE \A i \in 1 .. Len(list) : list[i] # m
  <2>1. SetupOne(s, m) = s
    <3>1. s.list = list
      BY Zenon, <1>2
    <3>2. find_msr_index(s.list, m) = 0
      BY Zenon, <1>5, <3>1, NotFound
    <3>3. NextSlot(s, m, 0) = s
      BY Zenon DEF NextSlot
    <3> QED BY Zenon, <3>2, <3>3 DEF SetupOne
  <2>2. ASSUME NEW i \in 1 .. Len(list)
        PROVE  i <= s.n <=> Rank(list[i]) <= k + 1
    <3>1. Rank(list[i]) \in Int /\ (Rank(list[i]) <= k \/ Rank(list[i]) > k + 1)
      BY <1>1, <1>3, <1>5
    <3>2. i <= s.n <=> Rank(list[i]) <= k
      BY Zenon, <1>2
    <3> QED BY ONLY <3>1, <3>2, k \in Nat
  <2>3. ASSUME NEW n \in VmxMsrs, Rank(n) <= k + 1
        PROVE  IF s.index[n] = 0 THEN \A i \in 1 .. Len(list) : list[i] # n
               ELSE list[s.index[n]] = n
    <3>1. CASE n = m
      <4>1. Rank(n) > k
        BY <3>1
      <4>2. s.index[n] = 0
        BY Zenon, <1>2, <4>1
      <4> QED BY Zenon, <1>5, <3>1, <4>2
    <3>2. CASE n # m
      <4>1. Rank(n) <= k
        BY <1>3, <1>4, <2>3, <3>2
      <4> QED BY Zenon, <1>2, <4>1
    <3> QED BY Zenon, <3>1, <3>2
  <2>4. ASSUME NEW n \in VmxMsrs, Rank(n) > k + 1
        PROVE  s.index[n] = 0
    <3>1. Rank(n) > k
      BY <1>4, <2>4
    <3> QED BY Zenon, <1>2, <3>1
  <2> QED BY Zenon, <1>2, <2>1, <2>2, <2>3, <2>4 DEF SetUp
<1>6. ASSUME NEW i \in 1 .. Len(list), list[i] = m
      PROVE  SetUp(SetupOne(s, m), list, k + 1)
  <2>1. \A j \in 1 .. Len(list) : list[j] = m => j = i
    BY Zenon, <1>6, SortedOnce
  <2>2. find_msr_index(list, m) = i
    BY Zenon, <1>6, <2>1, Found
  <2>3. i = s.n + 1
    <3>1. i > s.n
      BY <1>1, <1>2, <1>6
    <3>2. ASSUME i > s.n + 1 PROVE FALSE
      <4>1. s.n + 1 \in 1 .. Len(list) /\ s.n + 1 < i
        BY <1>1, <1>2, <3>2
      <4>2. Rank(list[s.n + 1]) < k + 1
        BY Zenon, <1>6, <4>1 DEF Sorted
      <4>3. ~(s.n + 1 <= s.n)
        BY SMTT(30), <1>2
      <4>4. Rank(list[s.n + 1]) \in Int
        BY <1>1, <4>1
      <4>5. Rank(list[s.n + 1]) <= k
        BY ONLY <4>2, <4>4, k \in Nat
      <4> QED BY Zenon, <1>2, <4>1, <4>3, <4>5
    <3> QED BY <1>2, <3>1, <3>2
  <2>4. move_msr_up(list, i, i) = list
    BY Zenon, <1>1, InPlace
  <2> DEFINE r == [list |-> list, n |-> i, index |-> [s.index EXCEPT ![m] = i]]
  <2>5. SetupOne(s, m) = r
    <3>1. s.list = list /\ s.n + 1 = i
      BY Zenon, <1>2, <2>3
    <3>2. i # 0
      OBVIOUS
    <3>3. NextSlot(s, m, i) = r
      BY Zenon, <2>4, <3>1, <3>2 DEF NextSlot
    <3> QED BY Zenon, <2>2, <3>1, <3>3 DEF SetupOne
  <2>6. r.list = list /\ r.n = i /\ r = [list |-> r.list, n |-> r.n, index |-> r.index]
    BY Zenon
  <2>7. /\ r.index \in [Msrs -> 0 .. Len(list)] /\ r.index[m] = i
        /\ \A n \in VmxMsrs : n # m => r.index[n] = s.index[n]
    BY SMTT(30), <1>2, RankFacts
  <2> HIDE DEF r
  <2>8. ASSUME NEW j \in 1 .. Len(list)
        PROVE  j <= i <=> Rank(list[j]) <= k + 1
    <3>1. CASE j = i
      BY <1>6, <3>1
    <3>2. CASE j # i
      <4>1. list[j] # m /\ list[j] \in VmxMsrs /\ Rank(list[j]) \in Int
        BY <1>1, <2>1, <3>2
      <4>2. Rank(list[j]) <= k \/ Rank(list[j]) > k + 1
        BY Zenon, <1>3, <4>1
      <4>3. j <= s.n <=> Rank(list[j]) <= k
        BY Zenon, <1>2
      <4>4. s.n \in Int
        BY <1>2
      <4>5. j <= i <=> j <= s.n
        BY ONLY <2>3, <3>2, <4>4, i \in Int, j \in Int
      <4>6. Rank(list[j]) <= k + 1 <=> Rank(list[j]) <= k
        BY ONLY <4>1, <4>2, k \in Nat
      <4> QED BY Zenon, <4>3, <4>5, <4>6
    <3> QED BY Zenon, <3>1, <3>2
  <2>9. ASSUME NEW n \in VmxMsrs, Rank(n) <= k + 1
        PROVE  IF r.index[n] = 0 THEN \A j \in 1 .. Len(list) : list[j] # n
               ELSE list[r.index[n]] = n
    <3>1. CASE n = m
      <4>1. r.index[n] = i /\ i # 0
        BY <2>7, <3>1
      <4> QED BY Zenon, <1>6, <3>1, <4>1
    <3>2. CASE n # m
      <4>1. Rank(n) <= k
        BY <1>3, <1>4, <2>9, <3>2
      <4>2. r.index[n] = s.index[n]
        BY Zenon, <2>7, <3>2
      <4> QED BY Zenon, <1>2, <4>1, <4>2
    <3> QED BY Zenon, <3>1, <3>2
  <2>10. ASSUME NEW n \in VmxMsrs, Rank(n) > k + 1
         PROVE  r.index[n] = 0
    <3>1. n # m /\ Rank(n) > k
      BY <1>4, <2>10
    <3> QED BY Zenon, <1>2, <2>7, <3>1
  <2>11. SetUp(r, list, k + 1)
    BY SMTT(30), <2>6, <2>7, <2>8, <2>9, <2>10 DEF SetUp
  <2> QED BY Zenon, <2>5, <2>11
<1> QED BY Zenon, <1>5, <1>6


(* The last two rounds: PLATFORM_INFO, listed last, changes places with    *)
(* MISC_FEATURES_ENABLES if that is listed, which is then found where the  *)
(* next slot is.                                                           *)
LEMMA LastRounds ==
  ASSUME NEW list, Sorted(list, 7), Len(list) > 0, list[Len(list)] = "PLATFORM_INFO",
         NEW s, SetUp(s, list, 5)
  PROVE  Placed(SetupOne([SetupOne(s, "PLATFORM_INFO") EXCEPT !.index = s.index],
                         "MISC_FEATURES_ENABLES"),
                VmxMsrs \ {"PLATFORM_INFO"})
<1> DEFINE L == Len(list)
           P == "PLATFORM_INFO"
           M == "MISC_FEATURES_ENABLES"
           moved == move_msr_up(list, L, s.n + 1)
           s6 == [list |-> moved, n |-> s.n + 1, index |-> s.index]
<1>1. /\ list \in Seq(Msrs) /\ L \in Nat /\ L \in 1 .. Len(list)
      /\ \A i \in 1 .. L : list[i] \in VmxMsrs /\ Rank(list[i]) \in 1 .. 7
  BY RankFacts DEF Sorted
<1>2. /\ s.list = list /\ s.n \in 0 .. L /\ s.index \in [Msrs -> 0 .. L]
      /\ \A i \in 1 .. L : i <= s.n <=> Rank(list[i]) <= 5
      /\ \A m \in VmxMsrs : Rank(m) <= 5 =>
           IF s.index[m] = 0 THEN \A i \in 1 .. L : list[i] # m ELSE list[s.index[m]] = m
      /\ \A m \in VmxMsrs : Rank(m) > 5 => s.index[m] = 0
  BY Zenon DEF SetUp
<1>3. /\ Rank(P) = 7 /\ Rank(M) = 6 /\ P \in VmxMsrs /\ M \in VmxMsrs /\ {P, M} \subseteq Msrs
      /\ \A m \in VmxMsrs : m \in {P, M} \/ Rank(m) <= 5
  BY RankFacts DEF Rank, VmxMsrs
<1>4. \A i, j \in 1 .. L : list[i] = list[j] => i = j
  BY Zenon, SortedOnce
<1>5. \A i, j \in 1 .. L : i < j => Rank(list[i]) < Rank(list[j])
  BY Zenon DEF Sorted
<1>6. s.n + 1 \in 1 .. L
  <2>1. ~(Rank(list[L]) <= 5)
    BY <1>3
  <2>2. ~(L <= s.n)
    BY Zenon, <1>1, <1>2, <2>1
  <2>3. s.n \in 0 .. L /\ L \in Nat
    BY Zenon, <1>1, <1>2
  <2> QED BY ONLY <2>2, <2>3
<1>7. [SetupOne(s, P) EXCEPT !.index = s.index] = s6
  <2>1. find_msr_index(list, P) = L
    BY Zenon, <1>1, <1>4, Found
  <2>2. SetupOne(s, P) = NextSlot(s, P, L)
    BY Zenon, <1>2, <2>1 DEF SetupOne
  <2>3. NextSlot(s, P, L) = [list |-> moved, n |-> s.n + 1, index |-> [s.index EXCEPT ![P] = L]]
    BY <1>1, <1>2 DEF NextSlot
  <2> HIDE DEF moved
  <2> QED BY <2>2, <2>3
<1>8. s6.list = moved /\ s6.n = s.n + 1 /\ s6.index = s.index
  BY Zenon
<1> HIDE DEF L, P, M, s6
<1>9. CASE s.n + 1 = L
  <2>1. moved = list
    BY Zenon, <1>1, <1>9, InPlace
  <2>2. \A i \in 1 .. L : list[i] # M
    <3> SUFFICES ASSUME NEW i \in 1 .. L, list[i] = M PROVE FALSE
      BY Zenon
    <3>1. ~(Rank(list[i]) <= 5)
      BY <1>3
    <3>2. ~(i <= s.n)
      BY Zenon, <1>2, <3>1
    <3>3. s.n \in Int /\ L \in Int
      BY <1>1, <1>2
    <3>4. i = L
      BY ONLY <1>9, <3>2, <3>3, i \in 1 .. L
    <3>5. list[L] = P /\ P # M
      BY Zenon DEF L, P, M
    <3> QED BY Zenon, <3>4, <3>5
  <2>3. SetupOne(s6, M) = s6
    <3>1. find_msr_index(list, M) = 0
      BY Zenon, <2>2, NotFound DEF L
    <3>2. NextSlot(s6, M, 0) = s6
      BY Zenon DEF NextSlot
    <3> QED BY Zenon, <1>8, <2>1, <3>1, <3>2 DEF SetupOne
  <2>4. \A m \in VmxMsrs \ {P} :
          IF s.index[m] = 0 THEN \A i \in 1 .. L : list[i] # m ELSE list[s.index[m]] = m
    BY SMTT(30), <1>2, <1>3, <2>2
  <2>5. Placed(s6, VmxMsrs \ {P})
    <3>1. s6.list = list /\ s6.n = L /\ s6.index = s.index
      BY Zenon, <1>8, <1>9, <2>1
    <3>2. list \in Seq(Msrs) /\ s.index \in [Msrs -> 0 .. L] /\ Len(list) = L
      BY Zenon, <1>1, <1>2 DEF L
    <3> QED BY Zenon, <1>4, <2>4, <3>1, <3>2 DEF Placed
  <2> QED BY Zenon, <1>7, <2>3, <2>5 DEF P, M
<1>10. CASE s.n + 1 # L
  <2>1. s.n + 1 < L /\ s.n + 2 \in 1 .. L
    <3>1. s.n \in Int /\ L \in Int
      BY SMTT(30), <1>1, <1>2
    <3> QED BY ONLY <1>6, <1>10, <3>1
  <2>2. Rank(list[s.n + 1]) = 6
    <3>1. Rank(list[s.n + 1]) < 7
      BY Zenon, <1>1, <1>3, <1>5, <1>6, <2>1 DEF L, P
    <3>2. ~(Rank(list[s.n + 1]) <= 5)
      BY <1>2, <1>6
    <3> QED BY <1>1, <1>6, <3>1, <3>2
  <2>3. list[s.n + 1] = M
    BY Zenon, <1>1, <1>3, <1>6, <2>2, RankFacts
  <2>4. s.n + 2 = L
    <3>1. ASSUME s.n + 2 < L PROVE FALSE
      <4>1. Rank(list[s.n + 1]) < Rank(list[s.n + 2])
        BY SMTT(30), <1>2, <1>5, <1>6, <2>1
      <4>2. Rank(list[s.n + 2]) < Rank(list[L])
        BY <1>1, <1>5, <2>1, <3>1
      <4>3. Rank(list[L]) = 7
        BY Zenon, <1>3 DEF L, P
      <4>4. Rank(list[s.n + 2]) \in Int
        BY <1>1, <2>1
      <4> QED BY ONLY <2>2, <4>1, <4>2, <4>3, <4>4
    <3>2. s.n \in Int /\ L \in Int
      BY <1>1, <1>2
    <3> QED BY ONLY <2>1, <3>1, <3>2
  <2>5. /\ moved \in Seq(Msrs) /\ Len(moved) = L
        /\ moved[L] = M /\ moved[s.n + 1] = P
        /\ \A i \in 1 .. L : i # L /\ i # s.n + 1 => moved[i] = list[i]
    <3>1. list[L] = P
      BY Zenon DEF L, P
    <3>2. /\ moved \in Seq(Msrs) /\ Len(moved) = Len(list)
          /\ moved[s.n + 1] = list[L] /\ moved[L] = list[s.n + 1]
          /\ \A i \in 1 .. Len(list) : i # L /\ i # s.n + 1 => moved[i] = list[i]
      <4>1. list \in Seq(Msrs) /\ L \in 1 .. Len(list) /\ s.n + 1 \in 1 .. Len(list)
        BY Zenon, <1>1, <1>6 DEF L
      <4> QED BY ZenonT(30), <1>10, <4>1, MovedUp DEF moved
    <3> QED BY Zenon, <2>3, <3>1, <3>2 DEF L
  <2> HIDE DEF moved
  <2>6. \A i, j \in 1 .. L : moved[i] = moved[j] => i = j
    <3> DEFINE from(i) == IF i = L THEN s.n + 1 ELSE IF i = s.n + 1 THEN L ELSE i
    <3>1. list[L] = P /\ list[s.n + 1] = M
      BY Zenon, <2>3 DEF L, P
    <3>2. L \in 1 .. L
      BY Zenon, <1>1 DEF L
    <3>3. \A i \in 1 .. L : from(i) \in 1 .. L /\ moved[i] = list[from(i)]
      BY Zenon, <1>6, <2>5, <3>1, <3>2
    <3>4. \A i, j \in 1 .. L : from(i) = from(j) => i = j
      BY Zenon
    <3> HIDE DEF from
    <3> QED BY Zenon, <1>4, <3>3, <3>4
  <2>7. find_msr_index(moved, M) = L
    BY <1>1, <2>5, <2>6, Found
  <2> DEFINE index == [s.index EXCEPT ![M] = L]
             s7 == [list |-> moved, n |-> L, index |-> index]
  <2>8. SetupOne(s6, M) = s7
    <3>1. s6.n + 1 = L
      BY SMTT(30), <1>2, <1>8, <2>4
    <3>2. move_msr_up(moved, L, L) = moved
      BY Zenon, <1>1, <2>5, InPlace DEF L
    <3>3. NextSlot(s6, M, L) = s7
      BY SMTT(30), <1>1, <1>8, <3>1, <3>2 DEF NextSlot
    <3> QED BY Zenon, <1>8, <2>7, <3>3 DEF SetupOne
  <2>9. /\ index \in [Msrs -> 0 .. L] /\ index[M] = L
        /\ \A m \in VmxMsrs : m # M => index[m] = s.index[m]
    <3>1. /\ s.index \in [Msrs -> 0 .. L] /\ L \in 0 .. L /\ M \in Msrs
          /\ VmxMsrs \subseteq Msrs
      BY SMTT(30), <1>1, <1>2, <1>3, RankFacts
    <3> QED BY ONLY <3>1
  <2>10. s7.list = moved /\ s7.n = L /\ s7.index = index
    BY Zenon
  <2> HIDE DEF index, s7
  <2>11. ASSUME NEW m \in VmxMsrs \ {P}
         PROVE  IF index[m] = 0 THEN \A i \in 1 .. L : moved[i] # m ELSE moved[index[m]] = m
    <3>1. CASE m = M
      BY SMTT(30), <1>1, <2>5, <2>9, <3>1
    <3>2. CASE m # M /\ s.index[m] = 0
      <4>1. \A i \in 1 .. L : list[i] # m
        BY Zenon, <1>2, <1>3, <3>2
      <4> QED BY Zenon, <2>5, <2>9, <3>2, <4>1
    <3>3. CASE m # M /\ s.index[m] # 0
      <4>1. list[s.index[m]] = m /\ s.index[m] \in 1 .. L
        <5>1. Rank(m) <= 5 /\ m \in Msrs
          BY Zenon, <1>3, <3>3, RankFacts
        <5>2. s.index[m] \in 0 .. L
          BY Zenon, <1>2, <5>1
        <5>3. list[s.index[m]] = m
          BY Zenon, <1>2, <3>3, <5>1
        <5> QED BY SMTT(30), <1>1, <3>3, <5>2, <5>3
      <4>2. list[L] = P
        BY Zenon DEF L, P
      <4>3. s.index[m] # L /\ s.index[m] # s.n + 1
        BY Zenon, <2>3, <3>3, <4>1, <4>2
      <4> QED BY Zenon, <2>5, <2>9, <3>3, <4>1, <4>3
    <3> QED BY Zenon, <3>1, <3>2, <3>3
  <2>12. Placed(s7, VmxMsrs \ {P})
    BY SMTT(30), <2>5, <2>6, <2>9, <2>10, <2>11 DEF Placed, P
  <2> QED BY Zenon, <1>7, <2>8, <2>12 DEF P, M
<1> QED BY Zenon, <1>9, <1>10


(* setup_msr, on a list that ends with PLATFORM_INFO.                      *)
LEMMA SetupMsr ==
  ASSUME NEW list, Sorted(list, 7), Len(list) > 0, list[Len(list)] = "PLATFORM_INFO"
  PROVE  Placed(setup_msr(list), VmxMsrs \ {"PLATFORM_INFO"})
<1> DEFINE s0 == [list |-> list, n |-> 0, index |-> [m \in Msrs |-> 0]]
           s1 == SetupOne(s0, "SYSCALL_MASK")
           s2 == SetupOne(s1, "LSTAR")
           s3 == SetupOne(s2, "KERNEL_GS_BASE")
           s4 == SetupOne(s3, "EFER")
           s5 == SetupOne(s4, "STAR")
<1>1. /\ Rank("SYSCALL_MASK") = 0 + 1 /\ Rank("LSTAR") = 1 + 1
      /\ Rank("KERNEL_GS_BASE") = 2 + 1 /\ Rank("EFER") = 3 + 1 /\ Rank("STAR") = 4 + 1
      /\ {"SYSCALL_MASK", "LSTAR", "KERNEL_GS_BASE", "EFER", "STAR"} \subseteq VmxMsrs
  BY DEF Rank, VmxMsrs
<1>2. SetUp(s0, list, 0)
  <2>1. Len(list) \in Nat /\ \A i \in 1 .. Len(list) : Rank(list[i]) \in 1 .. 7
    BY RankFacts DEF Sorted
  <2>2. \A m \in VmxMsrs : Rank(m) \in 1 .. 7 /\ m \in Msrs
    BY Zenon, RankFacts
  <2>3. /\ s0.list = list /\ s0.n = 0 /\ s0.index = [m \in Msrs |-> 0]
        /\ s0 = [list |-> s0.list, n |-> s0.n, index |-> s0.index]
    BY Zenon
  <2> HIDE DEF s0
  <2> QED BY SMTT(30), <2>1, <2>2, <2>3 DEF SetUp
<1> HIDE DEF s0, s1, s2, s3, s4, s5
<1>3. SetUp(s1, list, 1)
  <2>1. SetUp(s1, list, 0 + 1)
    BY Zenon, <1>1, <1>2, Round DEF s1
  <2> QED BY <2>1
<1>4. SetUp(s2, list, 2)
  <2>1. SetUp(s2, list, 1 + 1)
    BY Zenon, <1>1, <1>3, Round DEF s2
  <2> QED BY <2>1
<1>5. SetUp(s3, list, 3)
  <2>1. SetUp(s3, list, 2 + 1)
    BY Zenon, <1>1, <1>4, Round DEF s3
  <2> QED BY <2>1
<1>6. SetUp(s4, list, 4)
  <2>1. SetUp(s4, list, 3 + 1)
    BY Zenon, <1>1, <1>5, Round DEF s4
  <2> QED BY <2>1
<1>7. SetUp(s5, list, 5)
  <2>1. SetUp(s5, list, 4 + 1)
    BY Zenon, <1>1, <1>6, Round DEF s5
  <2> QED BY <2>1
<1>8. setup_msr(list) = SetupOne([SetupOne(s5, "PLATFORM_INFO") EXCEPT !.index = s5.index],
                                 "MISC_FEATURES_ENABLES")
  BY Zenon DEF setup_msr, s0, s1, s2, s3, s4, s5
<1> QED BY Zenon, <1>7, <1>8, LastRounds

(* The lists of VMX, whatever MSRs the CPU lacks.                          *)
LEMMA VmxPlaced ==
  ASSUME NEW missing
  PROVE  Placed(VmxLists(missing), VmxMsrs \ {"PLATFORM_INFO"})
<1> DEFINE l1 == ListMsr(<<>>, "SYSCALL_MASK", missing)
           l2 == ListMsr(l1, "LSTAR", missing)
           l3 == ListMsr(l2, "KERNEL_GS_BASE", missing)
           l4 == ListMsr(l3, "EFER", missing)
           l5 == ListMsr(l4, "STAR", missing)
           l6 == ListMsr(l5, "MISC_FEATURES_ENABLES", missing)
           l7 == Append(l6, "PLATFORM_INFO")
<1>1. /\ Rank("SYSCALL_MASK") = 0 + 1 /\ Rank("LSTAR") = 1 + 1
      /\ Rank("KERNEL_GS_BASE") = 2 + 1 /\ Rank("EFER") = 3 + 1 /\ Rank("STAR") = 4 + 1
      /\ Rank("MISC_FEATURES_ENABLES") = 5 + 1 /\ Rank("PLATFORM_INFO") = 6 + 1
      /\ {"SYSCALL_MASK", "LSTAR", "KERNEL_GS_BASE", "EFER", "STAR",
          "MISC_FEATURES_ENABLES", "PLATFORM_INFO"} \subseteq VmxMsrs
  BY DEF Rank, VmxMsrs
<1>2. Sorted(<<>>, 0)
  BY DEF Sorted
<1> HIDE DEF l1, l2, l3, l4, l5, l6, l7
<1>3. Sorted(l1, 1)
  <2>1. Sorted(l1, 0 + 1)
    BY Zenon, <1>1, <1>2, ListMsrSorted DEF l1
  <2> QED BY <2>1
<1>4. Sorted(l2, 2)
  <2>1. Sorted(l2, 1 + 1)
    BY Zenon, <1>1, <1>3, ListMsrSorted DEF l2
  <2> QED BY <2>1
<1>5. Sorted(l3, 3)
  <2>1. Sorted(l3, 2 + 1)
    BY Zenon, <1>1, <1>4, ListMsrSorted DEF l3
  <2> QED BY <2>1
<1>6. Sorted(l4, 4)
  <2>1. Sorted(l4, 3 + 1)
    BY Zenon, <1>1, <1>5, ListMsrSorted DEF l4
  <2> QED BY <2>1
<1>7. Sorted(l5, 5)
  <2>1. Sorted(l5, 4 + 1)
    BY Zenon, <1>1, <1>6, ListMsrSorted DEF l5
  <2> QED BY <2>1
<1>8. Sorted(l6, 6)
  <2>1. Sorted(l6, 5 + 1)
    BY Zenon, <1>1, <1>7, ListMsrSorted DEF l6
  <2> QED BY <2>1
<1>9. Sorted(l7, 7)
  <2>1. Sorted(l7, 6 + 1)
    BY Zenon, <1>1, <1>8, ListMsrSorted DEF l7
  <2> QED BY <2>1
<1>10. Len(l7) > 0 /\ l7[Len(l7)] = "PLATFORM_INFO"
  <2>1. l6 \in Seq(VmxMsrs)
    BY Zenon, <1>8 DEF Sorted
  <2> QED BY <2>1 DEF l7
<1>11. VmxLists(missing) = setup_msr(l7)
  <2>1. /\ vmx_msr_index[1] = "SYSCALL_MASK" /\ vmx_msr_index[2] = "LSTAR"
        /\ vmx_msr_index[3] = "KERNEL_GS_BASE" /\ vmx_msr_index[4] = "EFER"
        /\ vmx_msr_index[5] = "STAR" /\ vmx_msr_index[6] = "MISC_FEATURES_ENABLES"
    BY Zenon DEF vmx_msr_index
  <2> QED BY Zenon, <2>1 DEF VmxLists, l1, l2, l3, l4, l5, l6, l7
<1> QED BY Zenon, <1>9, <1>10, <1>11, SetupMsr

(* The lists of SVM have every shared MSR, at its place.                   *)
LEMMA SvmPlaced ==
  /\ Placed(SvmLists, ToSet(svm_msr_index))
  /\ \A m \in ToSet(svm_msr_index) : SvmLists.index[m] # 0
  /\ \A i \in 1 .. Len(SvmLists.list) : SvmLists.list[i] \in ToSet(svm_msr_index)
<1> DEFINE l == svm_msr_index
<1>1. /\ l[1] = "STAR" /\ l[2] = "LSTAR" /\ l[3] = "CSTAR" /\ l[4] = "SYSCALL_MASK"
      /\ l[5] = "KERNEL_GS_BASE" /\ Len(l) = 5 /\ DOMAIN l = 1 .. 5
  BY DEF svm_msr_index
<1>2. l \in Seq(Msrs) /\ \A i \in 1 .. 5 : l[i] \in ToSet(l) /\ l[i] \in Msrs
  <2>1. l \in Seq({"STAR", "LSTAR", "CSTAR", "SYSCALL_MASK", "KERNEL_GS_BASE"})
    BY DEF svm_msr_index
  <2>2. \A i \in 1 .. 5 : l[i] \in ToSet(l)
    BY Zenon, <1>1 DEF ToSet
  <2>3. \A i \in 1 .. 5 : l[i] \in Msrs
    BY Zenon, <2>2 DEF Msrs
  <2> HIDE DEF l
  <2> QED BY <1>1, <2>1, <2>2, <2>3
<1>3. 1 .. 5 = {1, 2, 3, 4, 5}
  OBVIOUS
<1> HIDE DEF l
<1>4. \A i, j \in 1 .. 5 : l[i] = l[j] => i = j
  BY <1>1, <1>3
<1>5. \A i \in 1 .. 5 : find_msr_index(l, l[i]) = i
  <2> SUFFICES ASSUME NEW i \in 1 .. 5 PROVE find_msr_index(l, l[i]) = i
    BY Zenon
  <2>1. i \in 1 .. Len(l) /\ \A j \in 1 .. Len(l) : l[j] = l[i] => j = i
    BY Zenon, <1>1, <1>4
  <2> QED BY Zenon, <2>1, Found
<1>6. SvmLists = [list |-> l, n |-> 5, index |-> [m \in Msrs |-> find_msr_index(l, m)]]
  BY Zenon, <1>1 DEF SvmLists, l
<1>7. /\ SvmLists.list = l /\ SvmLists.n = 5
      /\ SvmLists.index = [m \in Msrs |-> find_msr_index(l, m)]
  BY Zenon, <1>6
<1>8. \A m \in ToSet(l) : \E i \in 1 .. 5 : m = l[i]
  BY Zenon, <1>1 DEF ToSet
<1>9. \A m \in Msrs : find_msr_index(l, m) \in 0 .. 5
  <2> SUFFICES ASSUME NEW m \in Msrs PROVE find_msr_index(l, m) \in 0 .. 5
    BY Zenon
  <2>1. CASE \E i \in 1 .. 5 : m = l[i]
    BY <1>5, <2>1
  <2>2. CASE ~\E i \in 1 .. 5 : m = l[i]
    <3>1. find_msr_index(l, m) = 0
      BY Zenon, <1>1, <2>2, NotFound
    <3> QED BY <3>1
  <2> QED BY Zenon, <2>1, <2>2
<1>10. ASSUME NEW m \in ToSet(l)
       PROVE  SvmLists.index[m] \in 1 .. 5 /\ l[SvmLists.index[m]] = m
  <2>1. PICK i \in 1 .. 5 : m = l[i]
    BY Zenon, <1>8
  <2>2. m \in Msrs
    BY Zenon, <1>2, <2>1
  <2>3. SvmLists.index[m] = i
    BY Zenon, <1>5, <1>7, <2>1, <2>2
  <2> QED BY Zenon, <2>1, <2>3
<1>11. SvmLists.index \in [Msrs -> 0 .. 5]
  BY Zenon, <1>7, <1>9
<1>12. \A m \in ToSet(l) : SvmLists.index[m] # 0 /\ l[SvmLists.index[m]] = m
  BY <1>10
<1> HIDE DEF SvmLists
<1>13. Placed(SvmLists, ToSet(l))
  <2>1. SvmLists.list \in Seq(Msrs) /\ SvmLists.n = Len(SvmLists.list) /\ Len(SvmLists.list) = 5
    BY Zenon, <1>1, <1>2, <1>7
  <2> QED BY Zenon, <1>4, <1>7, <1>11, <1>12, <2>1 DEF Placed
<1>14. \A i \in 1 .. Len(SvmLists.list) : SvmLists.list[i] \in ToSet(l)
  BY Zenon, <1>1, <1>2, <1>7
<1> QED BY Zenon, <1>12, <1>13, <1>14 DEF l


(***************************************************************************)
(* The theorems.                                                           *)
(***************************************************************************)

(* A new vcpu has both lists in order, and the host's values everywhere.   *)
LEMMA InitInv == Init => SwitchInv
<1> SUFFICES ASSUME Init PROVE SwitchInv
  BY Zenon
<1> DEFINE lists(e, missing) == IF e = "vmx" THEN VmxLists(missing) ELSE SvmLists
           entries(s) == [i \in DOMAIN s.list |-> [index |-> s.list[i], data |-> 0]]
<1>1. PICK e \in {"vmx", "svm"}, missing \in SUBSET Unsupported :
        /\ engine = e
        /\ guest_msrs = entries(lists(e, missing)) /\ host_msrs = entries(lists(e, missing))
        /\ msr_index = lists(e, missing).index /\ save_nmsrs = lists(e, missing).n
  BY Zenon DEF Init
<1>2. /\ pc = "user" /\ on_cpu /\ went_back = FALSE
      /\ msr = [m \in Msrs |-> 0] /\ guest_view = [m \in Msrs |-> 0]
      /\ ~guest_msrs_loaded
      /\ hw_xcr0 = HostXcr0 /\ ~guest_xcr0_loaded
  BY Zenon DEF Init
<1> DEFINE s == lists(e, missing)
<1>3. /\ Placed(s, Shared)
      /\ engine = "svm" => /\ \A m \in Shared : s.index[m] # 0
                           /\ \A i \in 1 .. Len(s.list) : s.list[i] \in Shared
  <2>1. CASE e = "vmx"
    <3>1. Shared = VmxMsrs \ {"PLATFORM_INFO"}
      BY Zenon, <1>1, <2>1, RankFacts DEF Shared
    <3>2. Placed(VmxLists(missing), VmxMsrs \ {"PLATFORM_INFO"})
      BY Zenon, VmxPlaced
    <3>3. s = VmxLists(missing) /\ engine # "svm"
      BY Zenon, <1>1, <2>1
    <3> HIDE DEF lists
    <3> QED BY Zenon, <3>1, <3>2, <3>3
  <2>2. CASE e = "svm"
    <3>1. Shared = ToSet(svm_msr_index)
      BY Zenon, <1>1, <2>2 DEF Shared
    <3>2. s = SvmLists
      BY Zenon, <2>2
    <3> HIDE DEF lists
    <3> QED BY Zenon, <3>1, <3>2, SvmPlaced
  <2> QED BY Zenon, <2>1, <2>2
<1>4. /\ guest_msrs = entries(s) /\ host_msrs = entries(s)
      /\ msr_index = s.index /\ save_nmsrs = s.n
  BY Zenon, <1>1
<1> HIDE DEF lists, s
<1>5. /\ s.list \in Seq(Msrs) /\ s.n = Len(s.list) /\ s.n \in Nat /\ DOMAIN s.list = 1 .. s.n
      /\ \A i, j \in 1 .. s.n : s.list[i] = s.list[j] => i = j
      /\ s.index \in [Msrs -> 0 .. s.n]
      /\ \A m \in Shared :
           IF s.index[m] = 0 THEN \A i \in 1 .. s.n : s.list[i] # m
           ELSE s.list[s.index[m]] = m
  <2>1. s.list \in Seq(Msrs) /\ s.n = Len(s.list)
    BY Zenon, <1>3 DEF Placed
  <2>2. Len(s.list) \in Nat /\ DOMAIN s.list = 1 .. Len(s.list)
    BY ONLY <2>1
  <2> QED BY Zenon, <1>3, <2>1, <2>2 DEF Placed
<1>6. /\ DOMAIN guest_msrs = 1 .. save_nmsrs
      /\ \A i \in 1 .. save_nmsrs :
           /\ guest_msrs[i] \in [index : Msrs, data : Values]
           /\ guest_msrs[i].index = s.list[i] /\ guest_msrs[i].data = 0
      /\ host_msrs = [i \in 1 .. save_nmsrs |-> [index |-> guest_msrs[i].index, data |-> 0]]
  BY SMTT(30), <1>4, <1>5, ValuesAssumption
<1>7. \A m \in Present : m \in Shared /\ m \in Msrs /\ msr_index[m] \in 1 .. save_nmsrs
                         /\ s.list[msr_index[m]] = m
  BY SMTT(30), <1>4, <1>5, SharedMsrs DEF Present
<1>8. \A m \in Shared \ Present : \A i \in 1 .. save_nmsrs : s.list[i] # m
  BY Zenon, <1>4, <1>5 DEF Present
<1>9. engine = "svm" => Present = Shared /\ \A i \in 1 .. save_nmsrs : s.list[i] \in Shared
  BY Zenon, <1>3, <1>4, <1>5 DEF Present
<1>10. engine \in {"vmx", "svm"}
  BY Zenon, <1>1
<1> HIDE DEF Present, Shared, entries
<1>11. ListInv
  <2>1. \A i, j \in 1 .. save_nmsrs : guest_msrs[i].index = guest_msrs[j].index => i = j
    <3>1. \A i, j \in 1 .. save_nmsrs : s.list[i] = s.list[j] => i = j
      BY Zenon, <1>4, <1>5
    <3>2. \A i \in 1 .. save_nmsrs : guest_msrs[i].index = s.list[i]
      BY Zenon, <1>6
    <3> QED BY Zenon, <3>1, <3>2
  <2>2. \A m \in Present : guest_msrs[msr_index[m]].index = m
    BY Zenon, <1>6, <1>7
  <2>3. \A m \in Shared \ Present : \A i \in 1 .. save_nmsrs : guest_msrs[i].index # m
    BY Zenon, <1>6, <1>8
  <2>4. engine = "svm" =>
          Present = Shared /\ \A i \in 1 .. save_nmsrs : guest_msrs[i].index \in Shared
    BY Zenon, <1>6, <1>9
  <2>5. save_nmsrs \in Nat /\ msr_index \in [Msrs -> 0 .. save_nmsrs]
    BY Zenon, <1>4, <1>5
  <2> QED BY Zenon, <1>6, <1>10, <2>1, <2>2, <2>3, <2>4, <2>5 DEF ListInv
<1>12. MsrInv
  <2>1. msr \in [Msrs -> Values] /\ guest_view \in [Msrs -> Values]
    BY Zenon, <1>2, ValuesAssumption
  <2>2. \A m \in Msrs : msr[m] = 0 /\ guest_view[m] = 0
    BY Zenon, <1>2
  <2>3. \A m \in Present : Listed(m) = 0
    BY Zenon, <1>6, <1>7 DEF Listed
  <2>4. /\ Present \subseteq Msrs /\ Shared \subseteq Msrs
        /\ engine = "vmx" => FastMsrs \subseteq Msrs
    BY Zenon, SharedMsrs
  <2> HIDE DEF Listed, FastMsrs
  <2> QED BY Zenon, <1>2, <2>1, <2>2, <2>3, <2>4 DEF MsrInv
<1>13. XcrInv
  BY Zenon, <1>2 DEF XcrInv
<1> QED BY Zenon, <1>11, <1>12, <1>13 DEF SwitchInv

LEMMA Invariance == Spec => []SwitchInv
<1>1. SwitchInv /\ [Next]_vars => SwitchInv'
  <2> SUFFICES ASSUME SwitchInv, [Next]_vars PROVE SwitchInv'
    BY Zenon
  <2>1. ListInv /\ MsrInv /\ XcrInv
    BY Zenon DEF SwitchInv
  <2>2. ListInv' /\ MsrInv'
    BY Zenon, <2>1, MsrStep
  <2>3. XcrInv'
    BY Zenon, <2>1, XcrStep
  <2> QED BY Zenon, <2>2, <2>3 DEF SwitchInv
<1> QED BY <1>1, InitInv, PTL DEF Spec

(* In user mode and for every other task the MSRs are the host's, and in   *)
(* the kernel of a VMX host EFER and KERNEL_GS_BASE are, whichever MSRs    *)
(* the CPU lacks and whatever the guest writes (load_host_msrs of both     *)
(* engines, the exit path of vmx_launch).                                  *)
THEOREM HostMsrsComeBack == Spec => []HostMsrsRestored
<1>1. SwitchInv => HostMsrsRestored
  <2> SUFFICES ASSUME ListInv, MsrInv PROVE HostMsrsRestored
    BY Zenon DEF SwitchInv
  <2>1. ASSUME pc = "user" \/ ~on_cpu PROVE \A m \in Msrs : msr[m] = 0
    <3>1. pc # "guest" /\ ~guest_msrs_loaded
      BY Zenon, <2>1 DEF MsrInv
    <3> QED BY Zenon, <3>1 DEF MsrInv
  <2>2. engine = "vmx" /\ pc # "guest" => \A m \in FastMsrs : msr[m] = 0
    BY Zenon DEF MsrInv
  <2> QED BY Zenon, <2>1, <2>2 DEF HostMsrsRestored
<1> QED BY <1>1, Invariance, PTL

(* The guest runs with the values it last gave the shared MSRs, whatever   *)
(* exits and reschedules came between (vmx_launch and svm_launch, the      *)
(* positions setup_msr recorded).                                          *)
THEOREM GuestMsrsComeBack == Spec => []GuestMsrsKept
<1>1. SwitchInv => GuestMsrsKept
  <2> SUFFICES ASSUME ListInv, MsrInv, pc = "guest", NEW m \in Shared
               PROVE  msr[m] = guest_view[m]
    BY Zenon DEF SwitchInv, GuestMsrsKept
  <2>1. CASE m \in Present
    BY Zenon, <2>1 DEF MsrInv
  <2>2. CASE m \notin Present
    BY Zenon, <2>2, SharedMsrs DEF MsrInv
  <2> QED BY <2>1, <2>2
<1> QED BY <1>1, Invariance, PTL

(* XCR0 is the host's in user mode and for every other task, unless the    *)
(* guest went back to the host's value while another was loaded            *)
(* (load_guest_xcr0, put_guest_xcr0 and handle_xsetbv).                    *)
THEOREM HostXcr0ComesBack == Spec => []HostXcr0Restored
<1>1. SwitchInv => HostXcr0Restored
  BY DEF SwitchInv, XcrInv, HostXcr0Restored
<1> QED BY <1>1, Invariance, PTL

=============================================================================
