------------------------------ MODULE GuestMmu ------------------------------
(***************************************************************************)
(* What the EPT code promises the host and the guest, with no EPT, TLB,    *)
(* CPU or flush in sight: a guest translates a page as the host process    *)
(* does, and the host gives a page another frame only while no vcpu can    *)
(* still use the old one (ept.c's header: "We keep the EPT synchronized    *)
(* with the process page table through mmu_notifier callbacks").           *)
(***************************************************************************)
CONSTANTS Pages, Frames, Vcpus, None

VARIABLES
  hpt,   \* page -> frame: the page table of the host process
  view   \* vcpu -> the translations its guest may use right now

vars == <<hpt, view>>

Current == {<<p, hpt[p]>> : p \in {q \in Pages : hpt[q] # None}}

Init ==
  /\ hpt \in [Pages -> Frames \cup {None}]
  /\ view = [v \in Vcpus |-> {}]

(* A guest gains or loses current translations: entry, access, exit.       *)
Translate(v) ==
  /\ \E S \in SUBSET Current : view' = [view EXCEPT ![v] = S]
  /\ UNCHANGED hpt

(* The host gives page p a frame, or takes it away.                        *)
Remap(p) ==
  /\ \E f \in Frames \cup {None} : hpt' = [hpt EXCEPT ![p] = f]
  /\ \A v \in Vcpus : \A e \in view[v] : e[1] # p
  /\ UNCHANGED view

Next ==
  \/ \E v \in Vcpus : Translate(v)
  \/ \E p \in Pages : Remap(p)

Spec == Init /\ [][Next]_vars
=============================================================================
