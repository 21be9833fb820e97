----------------------------- MODULE MemRegion -----------------------------
(***************************************************************************)
(* The memory regions of an instance (mm.c): how guest physical pages and  *)
(* host virtual pages are paired.  Addresses are page numbers; a region is *)
(* [gpa, hva, size], all in pages, and R is the array instp->memp.         *)
(***************************************************************************)
EXTENDS Integers, Sequences, FiniteSetsExt

ADDR_INVAL == -1

(* The first region of R whose range of field a covers x; 0 if there is    *)
(* none.                                                                   *)
FirstGpa(R, x) ==
  LET hit == {i \in DOMAIN R : R[i].gpa <= x /\ x < R[i].gpa + R[i].size}
  IN IF hit = {} THEN 0 ELSE Min(hit)

FirstHva(R, x) ==
  LET hit == {i \in DOMAIN R : R[i].hva <= x /\ x < R[i].hva + R[i].size}
  IN IF hit = {} THEN 0 ELSE Min(hit)

gpa_to_hva(R, g) ==
  LET i == FirstGpa(R, g)
  IN IF i = 0 THEN ADDR_INVAL ELSE R[i].hva + (g - R[i].gpa)

hva_to_gpa(R, h) ==
  LET i == FirstHva(R, h)
  IN IF i = 0 THEN ADDR_INVAL ELSE R[i].gpa + (h - R[i].hva)
=============================================================================
