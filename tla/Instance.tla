------------------------------ MODULE Instance ------------------------------
(***************************************************************************)
(* The life of an instance and its vcpus (core.c, instance.c, vcpu.c): the *)
(* device is opened, vcpus are created, run and released, an instance is   *)
(* shut down, and freed at the last reference to its file, or reclaimed    *)
(* when its process died without dropping all of them.                     *)
(*                                                                         *)
(* Each file is used by one process.  Its runtime runs a vcpu from one     *)
(* thread at a time and does not release a vcpu that is being run: the     *)
(* driver relies on both.                                                  *)
(***************************************************************************)
EXTENDS Integers, FiniteSets

CONSTANTS
  Files, Threads,      \* files of the device; threads of each process
  VM_MAX_VCPUS, INSTANCES_MAX_NUM,
  Reclaimers,          \* tasks writing the slimvm_operation sysctl
  MayFail,             \* which of "alloc_ptp", "init_pt" may fail
  MaxOpens             \* bound: how often the device is opened

ASSUME SizesAssumption ==
  /\ {VM_MAX_VCPUS, INSTANCES_MAX_NUM, MaxOpens} \subseteq Nat
  /\ IsFiniteSet(Files) /\ IsFiniteSet(Threads)

Slots == 0 .. VM_MAX_VCPUS - 1
Ids == 0 .. INSTANCES_MAX_NUM - 1
None == -1

VARIABLES
  instances_bitmap,    \* the ids in use, and on instances_list
  file,                \* "closed", "open", "shutdown", "synced" (in release)
  refs, fd,            \* the file's reference count; a descriptor is open
  id, vcpu_bitmap, vcpus,         \* of the instance; vcpus: created slots
  in_root, vcpu_shutdown,         \* slots whose mode is not OUTSIDE_ROOT_MODE
  mem_region_num,      \* 0, or 1 once regions are set
  notifier,            \* the mmu notifier is registered
  shutdown, force_release, running_vcpus, sandbox,
  alive,               \* the process
  pc, slot,            \* per thread: where it is and the vcpu it works on
  rpc, reclaim_list,   \* per reclaimer
  opens

instVars == <<id, vcpu_bitmap, vcpus, in_root, vcpu_shutdown, mem_region_num,
              notifier, shutdown, running_vcpus, sandbox>>
reclaimVars == <<rpc, reclaim_list, force_release>>
fileVars == <<file, refs, fd, alive, opens, instances_bitmap>>
vars == <<fileVars, instVars, reclaimVars, pc, slot>>

Live == {f \in Files : file[f] # "closed"}

TypeOK ==
  /\ instances_bitmap \subseteq Ids
  /\ file \in [Files -> {"closed", "open", "shutdown", "synced"}]
  /\ refs \in [Files -> 0 .. Cardinality(Threads) + 1]
  /\ running_vcpus \in [Files -> 0 .. Cardinality(Threads)]
  /\ id \in [Files -> Ids \cup {None}]
  /\ {vcpu_bitmap, vcpus, in_root, vcpu_shutdown} \subseteq [Files -> SUBSET Slots]
  /\ mem_region_num \in [Files -> {0, 1}]
  /\ {fd, notifier, shutdown, force_release, sandbox, alive} \subseteq [Files -> BOOLEAN]
  /\ pc \in [Files \X Threads -> {"user", "create", "configure", "enter", "run",
                                   "refuse", "done", "gone"}]
  /\ slot \in [Files \X Threads -> Slots \cup {None}]
  /\ rpc \in [Reclaimers -> {"idle", "put"}]
  /\ reclaim_list \in [Reclaimers -> SUBSET Files]

Const(v) == [f \in Files |-> v]

Init ==
  /\ instances_bitmap = {} /\ file = Const("closed") /\ refs = Const(0)
  /\ fd = Const(FALSE) /\ id = Const(None)
  /\ vcpu_bitmap = Const({}) /\ vcpus = Const({}) /\ in_root = Const({})
  /\ vcpu_shutdown = Const({}) /\ mem_region_num = Const(0)
  /\ notifier = Const(FALSE) /\ shutdown = Const(FALSE)
  /\ force_release = Const(FALSE) /\ running_vcpus = Const(0)
  /\ sandbox = Const(FALSE) /\ alive = Const(FALSE)
  /\ pc = [t \in Files \X Threads |-> "gone"]
  /\ slot = [t \in Files \X Threads |-> None]
  /\ rpc = [r \in Reclaimers |-> "idle"] /\ reclaim_list = [r \in Reclaimers |-> {}]
  /\ opens = 0

ThreadsOf(f) == {f} \X Threads
InCall(t) == pc[t] \notin {"user", "gone"}

(***************************************************************************)
(* open, the last fput, and release.                                       *)
(***************************************************************************)

(* find_first_zero_bit *)
FirstFree(bits, all) == CHOOSE b \in all \ bits : \A c \in all \ bits : b <= c

(* slimvm_dev_open and instance_create.  The id is taken first; if the     *)
(* page-table root cannot be allocated, the error path frees the instance  *)
(* without free_inst_id.                                                   *)
Open(f) ==
  /\ file[f] = "closed" /\ ~alive[f] /\ opens < MaxOpens
  /\ opens' = opens + 1
  /\ instances_bitmap # Ids
  /\ LET i == FirstFree(instances_bitmap, Ids)
     IN /\ instances_bitmap' = instances_bitmap \cup {i}
        /\ \/ /\ file' = [file EXCEPT ![f] = "open"]
              /\ refs' = [refs EXCEPT ![f] = 1]
              /\ fd' = [fd EXCEPT ![f] = TRUE]
              /\ id' = [id EXCEPT ![f] = i]
              /\ alive' = [alive EXCEPT ![f] = TRUE]
              /\ pc' = [t \in Files \X Threads |-> IF t[1] = f THEN "user" ELSE pc[t]]
           \/ /\ "alloc_ptp" \in MayFail
              /\ UNCHANGED <<file, refs, fd, id, alive, pc>>
  /\ UNCHANGED <<vcpu_bitmap, vcpus, in_root, vcpu_shutdown, mem_region_num,
                 notifier, shutdown, running_vcpus, sandbox, reclaimVars, slot>>

(* All ids are taken: open fails.                                          *)
OpenFull(f) ==
  /\ file[f] = "closed" /\ ~alive[f] /\ opens < MaxOpens
  /\ instances_bitmap = Ids
  /\ opens' = opens + 1
  /\ UNCHANGED <<file, refs, fd, alive, instances_bitmap, instVars, reclaimVars, pc,
                 slot>>

(* fput, n times.  The last one starts slimvm_dev_release:                 *)
(* shutdown_all_vcpus comes first.                                         *)
Fput(f, n) ==
  LET last == n > 0 /\ refs[f] = n
  IN /\ refs' = [refs EXCEPT ![f] = @ - n]
     /\ file' = IF last THEN [file EXCEPT ![f] = "shutdown"] ELSE file
     /\ vcpu_shutdown' = IF last THEN [vcpu_shutdown EXCEPT ![f] = vcpus[f]]
                         ELSE vcpu_shutdown
     /\ shutdown' = IF last THEN [shutdown EXCEPT ![f] = TRUE] ELSE shutdown

(* Mutant: vcpus are waited for in a leaked instance too.                  *)
SyncAllVcpus_Always(f) ==
  /\ file[f] = "shutdown"
  /\ in_root[f] \cap vcpus[f] = {}
  /\ file' = [file EXCEPT ![f] = "synced"]
  /\ UNCHANGED <<refs, fd, alive, opens, instances_bitmap, instVars, reclaimVars, pc,
                 slot>>

(* Mutant: the id is given back before the instance is freed.              *)
SyncAllVcpus_FreesId(f) ==
  /\ file[f] = "shutdown"
  /\ force_release[f] \/ in_root[f] \cap vcpus[f] = {}
  /\ file' = [file EXCEPT ![f] = "synced"]
  /\ instances_bitmap' = instances_bitmap \ {id[f]}
  /\ UNCHANGED <<refs, fd, alive, opens, instVars, reclaimVars, pc, slot>>

(* sync_all_vcpus waits for OUTSIDE_ROOT_MODE, unless the instance leaked. *)
SyncAllVcpus(f) ==
  /\ file[f] = "shutdown"
  /\ force_release[f] \/ in_root[f] \cap vcpus[f] = {}
  /\ file' = [file EXCEPT ![f] = "synced"]
  /\ UNCHANGED <<refs, fd, alive, opens, instances_bitmap, instVars, reclaimVars, pc,
                 slot>>

(* The rest of instance_release: vcpus, page table, id, memory.            *)
FreeInstance(f) ==
  /\ file[f] = "synced"
  /\ file' = [file EXCEPT ![f] = "closed"]
  /\ instances_bitmap' = instances_bitmap \ {id[f]}
  /\ id' = [id EXCEPT ![f] = None]
  /\ vcpu_bitmap' = [vcpu_bitmap EXCEPT ![f] = {}]
  /\ vcpus' = [vcpus EXCEPT ![f] = {}]
  /\ in_root' = [in_root EXCEPT ![f] = {}]
  /\ vcpu_shutdown' = [vcpu_shutdown EXCEPT ![f] = {}]
  /\ mem_region_num' = [mem_region_num EXCEPT ![f] = 0]
  /\ notifier' = [notifier EXCEPT ![f] = FALSE]
  /\ shutdown' = [shutdown EXCEPT ![f] = FALSE]
  /\ running_vcpus' = [running_vcpus EXCEPT ![f] = 0]
  /\ sandbox' = [sandbox EXCEPT ![f] = FALSE]
  /\ force_release' = [force_release EXCEPT ![f] = FALSE]
  /\ UNCHANGED <<refs, fd, alive, opens, rpc, reclaim_list, pc, slot>>

(* External: the descriptor is closed, by the runtime or when it exits.    *)
Close(f) ==
  /\ fd[f]
  /\ fd' = [fd EXCEPT ![f] = FALSE]
  /\ Fput(f, 1)
  /\ UNCHANGED <<alive, opens, instances_bitmap, id, vcpu_bitmap, vcpus, in_root,
                 mem_region_num, notifier, running_vcpus, sandbox, reclaimVars, pc,
                 slot>>

(* External: the process is gone once no thread of it is in a call.  Its   *)
(* files are closed, and released by it, before its pid is.                *)
ProcessExits(f) ==
  /\ alive[f] /\ ~fd[f] /\ file[f] \in {"closed", "open"}
  /\ \A t \in ThreadsOf(f) : ~InCall(t)
  /\ alive' = [alive EXCEPT ![f] = FALSE]
  /\ pc' = [t \in Files \X Threads |-> IF t[1] = f THEN "gone" ELSE pc[t]]
  /\ UNCHANGED <<file, refs, fd, opens, instances_bitmap, instVars, reclaimVars, slot>>

(***************************************************************************)
(* The ioctls.  Each holds a reference to the file.                        *)
(***************************************************************************)
Fget(t) ==
  /\ pc[t] = "user" /\ fd[t[1]]
  /\ refs' = [refs EXCEPT ![t[1]] = @ + 1]

Goto(t, l) == pc' = [pc EXCEPT ![t] = l]

(* Mutant: the bit is set only when the vcpu is stored.                    *)
CreateVcpu_LateBit(t) ==
  LET f == t[1]
  IN /\ vcpu_bitmap[f] # Slots /\ Fget(t)
     /\ Goto(t, "create")
     /\ slot' = [slot EXCEPT ![t] = FirstFree(vcpu_bitmap[f], Slots)]
     /\ UNCHANGED <<file, fd, alive, opens, instances_bitmap, instVars, reclaimVars>>

(* CREATE_VCPU up to vcpu_allocate_vcpu_no.                                *)
CreateVcpu(t) ==
  LET f == t[1]
      s == FirstFree(vcpu_bitmap[f], Slots)
  IN /\ vcpu_bitmap[f] # Slots /\ Fget(t)
     /\ Goto(t, "create")
     /\ slot' = [slot EXCEPT ![t] = s]
     /\ vcpu_bitmap' = [vcpu_bitmap EXCEPT ![f] = @ \cup {s}]
     /\ UNCHANGED <<file, fd, alive, opens, instances_bitmap, id, vcpus, in_root,
                    vcpu_shutdown, mem_region_num, notifier, shutdown,
                    running_vcpus, sandbox, reclaimVars>>

(* The end of CREATE_VCPU: the vcpu is stored and the sandbox recorded, or *)
(* it could not be created and its number is given back.                   *)
PublishVcpu(t, created) ==
  LET f == t[1]
      s == slot[t]
  IN /\ pc[t] = "create"
     /\ Goto(t, "user")
     /\ slot' = [slot EXCEPT ![t] = None]
     /\ vcpus' = IF created THEN [vcpus EXCEPT ![f] = @ \cup {s}] ELSE vcpus
     /\ vcpu_bitmap' = IF created THEN [vcpu_bitmap EXCEPT ![f] = @ \cup {s}]
                       ELSE [vcpu_bitmap EXCEPT ![f] = @ \ {s}]
     /\ sandbox' = [sandbox EXCEPT ![f] = @ \/ created]
     /\ Fput(f, 1)
     /\ UNCHANGED <<fd, alive, opens, instances_bitmap, id, in_root, mem_region_num,
                    notifier, running_vcpus, reclaimVars>>

(* vcpu_release: RELEASE_VCPU, or a thread that ends in slimvm_exit.       *)
Released(f, s) ==
  /\ vcpus' = [vcpus EXCEPT ![f] = @ \ {s}]
  /\ vcpu_bitmap' = IF s \in vcpus[f] THEN [vcpu_bitmap EXCEPT ![f] = @ \ {s}]
                    ELSE vcpu_bitmap
  /\ vcpu_shutdown' = [vcpu_shutdown EXCEPT ![f] = @ \ {s}]
  /\ in_root' = [in_root EXCEPT ![f] = @ \ {s}]

(* Any thread may name any vcpu nobody runs; one being created is left.    *)
ReleaseVcpu(t, s) ==
  /\ pc[t] = "user" /\ fd[t[1]]
  /\ s \notin in_root[t[1]]
  /\ Released(t[1], s)
  /\ UNCHANGED <<fileVars, id, mem_region_num, notifier, shutdown, running_vcpus,
                 sandbox, reclaimVars, pc, slot>>

(* RUN takes the vcpu the thread wants.                                    *)
RunVcpu(t, s) ==
  /\ Fget(t)
  /\ \A u \in ThreadsOf(t[1]) : slot[u] = s => pc[u] = "create"
  /\ Goto(t, "configure")
  /\ slot' = [slot EXCEPT ![t] = s]
  /\ UNCHANGED <<file, fd, alive, opens, instances_bitmap, instVars, reclaimVars>>

(* The ioctl returns.                                                      *)
Return(t) ==
  /\ Goto(t, "user")
  /\ slot' = [slot EXCEPT ![t] = None]
  /\ Fput(t[1], 1)

(* The memory regions, under mm_mutex.  The first RUN sets them and        *)
(* registers the notifier; if that fails it returns with the regions set.  *)
Configure(t) ==
  LET f == t[1]
      first == mem_region_num[f] = 0
  IN /\ pc[t] = "configure"
     /\ mem_region_num' = [mem_region_num EXCEPT ![f] = 1]
     /\ \/ /\ notifier' = [notifier EXCEPT ![f] = @ \/ first]
           /\ Goto(t, "enter")
           /\ UNCHANGED <<slot, refs, file, vcpu_shutdown, shutdown>>
        \/ /\ first /\ "init_pt" \in MayFail
           /\ notifier' = notifier
           /\ Return(t)
     /\ UNCHANGED <<fd, alive, opens, instances_bitmap, id, vcpu_bitmap, vcpus,
                    in_root, running_vcpus, sandbox, reclaimVars>>

(* Mutant: shutdown is not looked at.                                      *)
Admitted_Always(f, s) == s \in vcpus[f]

(* The test of slimvm_enter, under vcpu_lock.                              *)
Admitted(f, s) == ~shutdown[f] /\ s \in vcpus[f] /\ s \notin vcpu_shutdown[f]

(* running_vcpus counts the call; slimvm_enter puts the vcpu in root mode  *)
(* and launches it, or fails.                                              *)
Enter(t) ==
  LET f == t[1]
  IN /\ pc[t] = "enter"
     /\ \/ /\ Admitted(f, slot[t])
           /\ running_vcpus' = [running_vcpus EXCEPT ![f] = @ + 1]
           /\ in_root' = [in_root EXCEPT ![f] = @ \cup {slot[t]}]
           /\ Goto(t, "run")
           /\ UNCHANGED <<slot, refs, file, vcpu_shutdown, shutdown>>
        \/ /\ ~Admitted(f, slot[t])
           /\ Return(t)
           /\ UNCHANGED <<running_vcpus, in_root>>
     /\ UNCHANGED <<fd, alive, opens, instances_bitmap, id, vcpu_bitmap, vcpus,
                    mem_region_num, notifier, sandbox, reclaimVars>>

(* launch returns and RUN with it; the loop of launch ends for many        *)
(* reasons, and always at the first exit after a shutdown.                 *)
LeaveRun(t) ==
  LET f == t[1]
  IN /\ pc[t] \in {"run", "done"}
     /\ in_root' = [in_root EXCEPT ![f] = @ \ {slot[t]}]
     /\ running_vcpus' = [running_vcpus EXCEPT ![f] = @ - 1]
     /\ Return(t)
     /\ UNCHANGED <<fd, alive, opens, instances_bitmap, id, vcpu_bitmap, vcpus,
                    mem_region_num, notifier, sandbox, reclaimVars>>

(* A refused system call shuts the instance down from inside launch:       *)
(* first the vcpus there are, under vcpu_lock ...                          *)
ShutdownVcpus(t) ==
  /\ pc[t] = "run"
  /\ Goto(t, "refuse")
  /\ vcpu_shutdown' = [vcpu_shutdown EXCEPT ![t[1]] = vcpus[t[1]]]
  /\ UNCHANGED <<fileVars, id, vcpu_bitmap, vcpus, in_root, mem_region_num, notifier,
                 shutdown, running_vcpus, sandbox, reclaimVars, slot>>

(* ... then, after the IPIs, the instance.                                 *)
ShutdownInstance(t) ==
  /\ pc[t] = "refuse"
  /\ Goto(t, "done")
  /\ shutdown' = [shutdown EXCEPT ![t[1]] = TRUE]
  /\ UNCHANGED <<fileVars, id, vcpu_bitmap, vcpus, in_root, vcpu_shutdown,
                 mem_region_num, notifier, running_vcpus, sandbox, reclaimVars, slot>>

(* Mutant: the exit forgets that it is counted.                            *)
ExitThread_Uncounted(t) ==
  LET f == t[1]
  IN /\ pc[t] = "run"
     /\ Released(f, slot[t])
     /\ running_vcpus' = [running_vcpus EXCEPT ![f] = @ - 1]
     /\ Goto(t, "gone") /\ slot' = [slot EXCEPT ![t] = None]
     /\ UNCHANGED <<fileVars, id, mem_region_num, notifier, shutdown, sandbox,
                    reclaimVars>>

(* slimvm_exit: a guest's exit ends the thread inside the ioctl, which     *)
(* drops neither its reference nor its count.                              *)
ExitThread(t) ==
  LET f == t[1]
  IN /\ pc[t] = "run"
     /\ Released(f, slot[t])
     /\ Goto(t, "gone") /\ slot' = [slot EXCEPT ![t] = None]
     /\ UNCHANGED <<fileVars, id, mem_region_num, notifier, shutdown, running_vcpus,
                    sandbox, reclaimVars>>

(* External: the kernel ends a thread inside launch (an oops).             *)
ThreadDies(t) ==
  /\ pc[t] = "run"
  /\ Goto(t, "gone") /\ slot' = [slot EXCEPT ![t] = None]
  /\ UNCHANGED <<fileVars, instVars, reclaimVars>>

(***************************************************************************)
(* slimvm_reclaim_leaked_instances, from the slimvm_operation sysctl.      *)
(***************************************************************************)

(* Mutant: an instance that is being reclaimed is taken again.             *)
Leaked_Again(f) == f \in Live /\ sandbox[f] /\ ~alive[f]

(* Mutant: the recorded process is not looked up.                          *)
Leaked_Anyone(f) == f \in Live /\ sandbox[f] /\ ~force_release[f]

(* The instances on the list whose recorded process is gone and that are   *)
(* not being reclaimed.                                                    *)
Leaked(f) == f \in Live /\ sandbox[f] /\ ~alive[f] /\ ~force_release[f]

(* Under instances_lock, leaked instances are marked and collected.        *)
CollectLeaked(r) ==
  LET leaked == {f \in Files : Leaked(f)}
  IN /\ rpc[r] = "idle" /\ leaked # {}
     /\ rpc' = [rpc EXCEPT ![r] = "put"]
     /\ reclaim_list' = [reclaim_list EXCEPT ![r] = leaked]
     /\ force_release' = [f \in Files |-> force_release[f] \/ f \in leaked]
     /\ UNCHANGED <<fileVars, instVars, pc, slot>>

(* Then, without it, as many references as threads were running are put.   *)
PutLeaked(r, f) ==
  /\ rpc[r] = "put" /\ f \in reclaim_list[r]
  /\ reclaim_list' = [reclaim_list EXCEPT ![r] = @ \ {f}]
  /\ rpc' = [rpc EXCEPT ![r] = IF reclaim_list[r] = {f} THEN "idle" ELSE "put"]
  /\ Fput(f, running_vcpus[f])
  /\ UNCHANGED <<fd, alive, opens, instances_bitmap, id, vcpu_bitmap, vcpus, in_root,
                 mem_region_num, notifier, running_vcpus, sandbox, force_release, pc,
                 slot>>

Next ==
  \/ \E f \in Files : \/ Open(f) \/ OpenFull(f) \/ Close(f) \/ ProcessExits(f)
                      \/ SyncAllVcpus(f) \/ FreeInstance(f)
  \/ \E t \in Files \X Threads :
       \/ CreateVcpu(t) \/ Configure(t) \/ Enter(t) \/ LeaveRun(t) \/ ShutdownVcpus(t)
       \/ ShutdownInstance(t) \/ ExitThread(t) \/ ThreadDies(t)
       \/ \E created \in BOOLEAN : PublishVcpu(t, created)
       \/ \E s \in Slots : ReleaseVcpu(t, s) \/ RunVcpu(t, s)
  \/ \E r \in Reclaimers : \/ CollectLeaked(r)
                           \/ \E f \in Files : PutLeaked(r, f)

Spec == Init /\ [][Next]_vars

(* Threads inside the driver go on; a vcpu that is shut down leaves at the *)
(* next exit, and the timer makes one; the sysctl is written again and     *)
(* again.  Nothing makes a thread leave that is not shut down.             *)
Fairness ==
  /\ \A f \in Files : WF_vars(SyncAllVcpus(f)) /\ WF_vars(FreeInstance(f))
  /\ \A t \in Files \X Threads :
       /\ WF_vars(Configure(t)) /\ WF_vars(Enter(t)) /\ WF_vars(ShutdownInstance(t))
       /\ WF_vars((shutdown[t[1]] \/ slot[t] \in vcpu_shutdown[t[1]]) /\ LeaveRun(t))
  /\ \A r \in Reclaimers : /\ WF_vars(CollectLeaked(r))
                           /\ \A f \in Files : WF_vars(PutLeaked(r, f))

FairSpec == Spec /\ Fairness

(***************************************************************************)
(* Properties.                                                             *)
(***************************************************************************)

(* No two instances have the same id, from alloc_inst_id until the         *)
(* instance is freed, also when ids stay set that no instance has.         *)
IdsExclusive ==
  \A f \in Live :
    /\ id[f] \in instances_bitmap
    /\ \A g \in Live : f # g => id[f] # id[g]

(* A vcpu number belongs to one vcpu, or to one thread that is creating    *)
(* it, from vcpu_allocate_vcpu_no until it is freed.                       *)
SlotsExclusive ==
  \A f \in Files :
    /\ vcpus[f] \subseteq vcpu_bitmap[f]
    /\ \A t \in ThreadsOf(f) : pc[t] = "create" =>
         /\ slot[t] \in vcpu_bitmap[f] \ vcpus[f]
         /\ \A u \in ThreadsOf(f) : u # t /\ pc[u] = "create" => slot[u] # slot[t]

(* When the process is gone, running_vcpus is the number of references     *)
(* that are left: putting as many releases the instance, and not too early *)
(* (SLIMVM_RUN, slimvm_exit, slimvm_reclaim_leaked_instances).             *)
LeakIsCounted ==
  \A f \in Files :
    ~alive[f] /\ file[f] = "open" => refs[f] = running_vcpus[f]

(* "A leaked instance could be reclaimed only once": it is on one list,    *)
(* and its release has not begun while it is on one.                       *)
ReclaimedOnce ==
  \A r \in Reclaimers : \A f \in reclaim_list[r] :
    /\ file[f] = "open"
    /\ \A q \in Reclaimers \ {r} : f \notin reclaim_list[q]

(* instance_release never runs beside a thread that uses the instance.     *)
NoCallDuringRelease ==
  \A f \in Files : file[f] # "open" => \A t \in ThreadsOf(f) : ~InCall(t)

(* Once an instance is shut down, all its threads leave launch, also one   *)
(* whose vcpu was created while the others were being told.                *)
ShutdownEmpties ==
  \A f \in Files :
    shutdown[f] ~> \A t \in ThreadsOf(f) : pc[t] \notin {"run", "refuse", "done"}

(* An instance its dead process still holds references to is released,     *)
(* though nobody will take its vcpus out of root mode.                     *)
LeakIsReclaimed ==
  \A f \in Files : ~alive[f] /\ refs[f] > 0 ~> file[f] = "closed"
=============================================================================
