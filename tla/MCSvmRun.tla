------------------------------ MODULE MCSvmRun ------------------------------
(* Model checking SvmRun.                                                  *)
EXTENDS SvmRun

Budget(s, n, c) == [sent |-> s, nmis |-> n, calls |-> c]

(* Signals, NMI requests and system calls in one behaviour.                *)
Mixed == {Budget(2, 2, 1)}

(* Behaviours with signals only, and behaviours with NMI requests only.    *)
Single == {Budget(3, 0, 0), Budget(0, 3, 0)}
=============================================================================
