-------------------------------- MODULE Smp ---------------------------------
(***************************************************************************)
(* Starting the application processors: smp_init and ap_main of            *)
(* drivers/smp.c, the part of drivers/ap_trampoline.nasm that reads what   *)
(* smp_init patched, and lapic_send_ipi.  CPUs are numbered as the loop of *)
(* smp_init numbers them, 0..CpuCount-1, and the MADT is taken to list     *)
(* these numbers as the uids of the enabled CPUs.                          *)
(*                                                                         *)
(* All APs read one patched data area.  Of it only the stack differs from  *)
(* AP to AP; the stack get_ap_stack(cpu) returns is written cpu.           *)
(* ap_stacks has MAX_APS rows and nothing checks cpu against it: a machine *)
(* with more CPUs is outside this model.                                   *)
(*                                                                         *)
(* Time is abstract: between two milliseconds of the BSP's wait an AP may  *)
(* take any number of steps, or none.                                      *)
(***************************************************************************)
EXTENDS Integers, FiniteSets

CONSTANTS
  CpuCount,   \* madt_get_cpu_count()
  BspCpu,     \* the number whose LAPIC id is the BSP's
  Timeout,    \* milliseconds smp_init waits for one AP, 5000 in the source
  Missable    \* which of its two SIPIs (1, 2) an AP may fail to react to

MAX_APS == 16

ASSUME SmpAssumption ==
  /\ CpuCount \in 1..MAX_APS
  /\ BspCpu \in 0..(CpuCount - 1)
  /\ Timeout \in Nat \ {0}
  /\ Missable \subseteq {1, 2}

Cpus == 0..(CpuCount - 1)
APs == Cpus \ {BspCpu}
NoStack == -1

VARIABLES
  bsp,           \* where smp_init is
  cpu,           \* its loop variable
  expected,      \* its local
  timeout,       \* its local
  patched,       \* trampoline_stack in the copy of the trampoline
  aps_started,
  aps_expected,
  ap,            \* where each AP is
  stack,         \* the stack each AP runs on
  late           \* history: has a wait timed out?

bspvars == <<bsp, cpu, expected, timeout, patched, aps_expected, late>>
vars == <<bsp, cpu, expected, timeout, patched, aps_started, aps_expected,
          ap, stack, late>>

Init ==
  /\ bsp = "entry"
  /\ cpu = 0 /\ expected = 0 /\ timeout = 0
  /\ patched = NoStack
  /\ aps_started = 0 /\ aps_expected = 0
  /\ ap = [c \in APs |-> "off"]
  /\ stack = [c \in APs |-> NoStack]
  /\ late = FALSE

-----------------------------------------------------------------------------
(* The trampoline is copied and patched for all APs (lines 52-83).         *)
ApCountWithBsp == CpuCount
ApCount == CpuCount - 1
Prepare ==
  /\ bsp = "entry"
  /\ aps_expected' = ApCount
  /\ bsp' = "loop"
  /\ UNCHANGED <<cpu, expected, timeout, patched, aps_started, ap, stack, late>>

(* The head of the loop: the BSP's own number is skipped; for an AP the    *)
(* data area is patched.                                                   *)
StackOnce == IF patched = NoStack THEN cpu ELSE patched
StackOfCpu == cpu
ExpectNone == aps_started
ExpectOne == aps_started + 1
PatchNext ==
  /\ bsp = "loop" /\ cpu < CpuCount
  /\ IF cpu = BspCpu
     THEN cpu' = cpu + 1 /\ UNCHANGED <<bsp, expected, patched>>
     ELSE /\ expected' = ExpectOne
          /\ patched' = StackOfCpu
          /\ bsp' = "init"
          /\ UNCHANGED cpu
  /\ UNCHANGED <<timeout, aps_started, aps_expected, ap, stack, late>>

(* An INIT IPI makes the AP wait for a SIPI, whatever it was doing.        *)
SendInit ==
  /\ bsp = "init"
  /\ ap' = [ap EXCEPT ![cpu] = "wait_sipi"]
  /\ bsp' = "sipi1"
  /\ UNCHANGED <<cpu, expected, timeout, patched, aps_started, aps_expected, stack, late>>

(* A SIPI starts an AP that waits for one; any other AP ignores it.        *)
Sipi(i) ==
  \/ ap' = [ap EXCEPT ![cpu] = IF @ = "wait_sipi" THEN "trampoline" ELSE @]
  \/ i \in Missable /\ UNCHANGED ap

SendFirstSipi ==
  /\ bsp = "sipi1" /\ Sipi(1)
  /\ bsp' = "sipi2"
  /\ UNCHANGED <<cpu, expected, timeout, patched, aps_started, aps_expected, stack, late>>

SendSecondSipi ==
  /\ bsp = "sipi2" /\ Sipi(2)
  /\ timeout' = Timeout
  /\ bsp' = "wait"
  /\ UNCHANGED <<cpu, expected, patched, aps_started, aps_expected, stack, late>>

(* One turn of the wait for this AP.                                       *)
WaitForAp ==
  /\ bsp = "wait"
  /\ IF aps_started < expected
     THEN /\ timeout' = timeout - 1
          /\ late' = (late \/ timeout = 1)
          /\ IF timeout = 1 THEN bsp' = "loop" /\ cpu' = cpu + 1
                            ELSE UNCHANGED <<bsp, cpu>>
     ELSE bsp' = "loop" /\ cpu' = cpu + 1 /\ UNCHANGED <<timeout, late>>
  /\ UNCHANGED <<expected, patched, aps_started, aps_expected, ap, stack>>

(* The wait for all APs, which has no timeout; smp_init returns.           *)
AllOnline ==
  /\ bsp = "loop" /\ cpu = CpuCount
  /\ aps_started >= CpuCount - 1
  /\ bsp' = "done"
  /\ UNCHANGED <<cpu, expected, timeout, patched, aps_started, aps_expected, ap, stack, late>>

-----------------------------------------------------------------------------
(* The trampoline reaches long mode and loads the patched stack.           *)
LoadStack(c) ==
  /\ ap[c] = "trampoline"
  /\ stack' = [stack EXCEPT ![c] = patched]
  /\ ap' = [ap EXCEPT ![c] = "ap_main"]
  /\ UNCHANGED <<bspvars, aps_started>>

(* ap_main counts itself in,                                               *)
CheckIn(c) ==
  /\ ap[c] = "ap_main"
  /\ aps_started' = aps_started + 1
  /\ ap' = [ap EXCEPT ![c] = "barrier"]
  /\ UNCHANGED <<bspvars, stack>>

(* waits for the others, and enters the worker loop.                       *)
AllInButOne == aps_started + 1 >= aps_expected
AllIn == aps_started >= aps_expected
LeaveBarrier(c) ==
  /\ ap[c] = "barrier" /\ AllIn
  /\ ap' = [ap EXCEPT ![c] = "worker"]
  /\ UNCHANGED <<bspvars, aps_started, stack>>

-----------------------------------------------------------------------------
Bsp == Prepare \/ PatchNext \/ SendInit \/ SendFirstSipi \/ SendSecondSipi
         \/ WaitForAp \/ AllOnline
Ap(c) == LoadStack(c) \/ CheckIn(c) \/ LeaveBarrier(c)

(* Every AP has left for the worker loop and kernel_main goes on.          *)
Booted == bsp = "done" /\ \A c \in APs : ap[c] = "worker"
Finished == Booted /\ UNCHANGED vars

Next == Bsp \/ (\E c \in APs : Ap(c)) \/ Finished

Spec == Init /\ [][Next]_vars

(* Every CPU that executes goes on executing.                              *)
FairSpec == Spec /\ WF_vars(Bsp) /\ \A c \in APs : WF_vars(Ap(c))

-----------------------------------------------------------------------------
Running == {c \in APs : ap[c] \in {"ap_main", "barrier", "worker"}}
CheckedIn == {c \in APs : ap[c] \in {"barrier", "worker"}}

(* No two APs ever run on the same stack.                                  *)
OwnStack == \A c, d \in Running : stack[c] = stack[d] => c = d

(* That is so at least until a wait times out.                             *)
OwnStackInTime == ~late => OwnStack

(* Unless it timed out, the wait for an AP ends because that AP has        *)
(* checked in (smp.c:109), not because another one has.                    *)
WaitIsForThisAp ==
  [][(WaitForAp /\ aps_started >= expected) => cpu \in CheckedIn]_vars

(* That is so at least until an earlier wait has timed out.                *)
WaitIsForThisApInTime ==
  [][(WaitForAp /\ aps_started >= expected /\ ~late) => cpu \in CheckedIn]_vars

(* No AP enters the worker loop, and smp_init does not return, before      *)
(* every AP has checked in, even if a wait timed out on the way: the       *)
(* counter they wait on is exact.  What APs do once two of them share a    *)
(* stack is not known.                                                     *)
Barrier ==
  OwnStack =>
    /\ aps_started = Cardinality(CheckedIn)
    /\ (bsp = "done" \/ \E c \in APs : ap[c] = "worker") => CheckedIn = APs

(* smp_init returns and every AP reaches its worker loop, as long as no    *)
(* two share a stack.                                                      *)
BootCompletes == <>[](Booted \/ ~OwnStack)
=============================================================================
