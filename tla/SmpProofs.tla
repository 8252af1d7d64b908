----------------------------- MODULE SmpProofs ------------------------------
(***************************************************************************)
(* Theorems about what the CPUs do with each other's memory.  First about  *)
(* starting the APs (Smp), for every number of CPUs that ap_stacks has     *)
(* room for, every number the BSP may have among them, every timeout and   *)
(* whichever SIPIs may be missed: IInv is inductive; the invariants and    *)
(* the action property of module Smp follow from it.  Then about the run   *)
(* queue they share once they are up (RunQueue), for any number of CPUs    *)
(* and tasks: the lock excludes, no task is lost, the pointers spell out   *)
(* the queue, and the list implements QueueContract; QueueInv is inductive.*)
(* The two specifications have no variable and no constant in common.      *)
(***************************************************************************)
EXTENDS Smp, RunQueue, FiniteSetTheorems, SequenceTheorems, TLAPS

(* The inductive invariant.                                                *)
InBody == bsp \in {"init", "sipi1", "sipi2", "wait"}

TypeOK ==
  /\ bsp \in {"entry", "loop", "init", "sipi1", "sipi2", "wait", "done"}
  /\ cpu \in 0..CpuCount
  /\ expected \in Nat
  /\ timeout \in 0..Timeout
  /\ patched \in Cpus \cup {NoStack}
  /\ aps_started \in Nat
  /\ aps_expected \in Nat
  /\ ap \in [APs -> {"off", "wait_sipi", "trampoline", "ap_main", "barrier", "worker"}]
  /\ stack \in [APs -> Cpus \cup {NoStack}]
  /\ late \in BOOLEAN

(* What the loop has set up where it is, and which APs have not been sent  *)
(* their INIT yet: it resets no AP that runs.                              *)
LoopInv ==
  /\ bsp = "entry" => cpu = 0
  /\ bsp # "entry" => aps_expected = ApCount
  /\ InBody => cpu \in APs /\ patched = cpu
  /\ bsp = "wait" => timeout > 0
  /\ \A c \in APs : c > cpu \/ (c = cpu /\ bsp \in {"entry", "loop", "init"})
                      => ap[c] = "off"

(* The two counters, and what a CPU beyond the barrier knows.              *)
CountExact == aps_started = Cardinality(CheckedIn)
AllCheckedIn ==
  (bsp = "done" \/ \E c \in APs : ap[c] = "worker") => CheckedIn = APs

(* Until a wait times out the APs come up one at a time: at most the one   *)
(* the loop is at is on its way, and expected counts it in.                *)
OneAtATime ==
  ~late =>
    /\ \A c \in APs : c < cpu => c \in CheckedIn
    /\ \A c \in Running : stack[c] = c
    /\ InBody => expected = IF cpu \in CheckedIn THEN aps_started
                                               ELSE aps_started + 1

IInv == TypeOK /\ LoopInv /\ CountExact /\ AllCheckedIn /\ OneAtATime

-----------------------------------------------------------------------------
(* The constants are numbers; how many CPUs there are at most is not used  *)
(* again.                                                                  *)
LEMMA Constants ==
  /\ CpuCount \in Nat \ {0}
  /\ BspCpu \in 0..(CpuCount - 1)
  /\ Timeout \in Nat \ {0}
BY SmpAssumption DEF MAX_APS

LEMMA ApSet ==
  /\ IsFiniteSet(APs)
  /\ Cardinality(APs) = ApCount
  /\ APs \subseteq Nat
<1>1. IsFiniteSet(Cpus) /\ Cardinality(Cpus) = CpuCount
  BY Constants, FS_Interval DEF Cpus
<1>2. IsFiniteSet(APs) /\ Cardinality(APs) = CpuCount - 1
  <2>1. BspCpu \in Cpus
    BY Constants DEF Cpus
  <2>2. QED
    BY <1>1, <2>1, FS_RemoveElement DEF APs
<1>3. APs \subseteq Nat
  BY Constants DEF APs, Cpus
<1>4. QED
  BY <1>2, <1>3 DEF ApCount

LEMMA CheckedInFinite ==
  /\ IsFiniteSet(CheckedIn)
  /\ Cardinality(CheckedIn) \in Nat
  /\ Cardinality(CheckedIn) <= ApCount
  /\ Cardinality(CheckedIn) >= ApCount => CheckedIn = APs
<1>1. CheckedIn \in SUBSET APs
  BY DEF CheckedIn
<1>2. IsFiniteSet(CheckedIn) /\ Cardinality(CheckedIn) <= Cardinality(APs)
      /\ (Cardinality(APs) = Cardinality(CheckedIn) => APs = CheckedIn)
  BY <1>1, ApSet, FS_Subset
<1>3. Cardinality(CheckedIn) \in Nat
  BY <1>2, FS_CardinalityType
<1>4. QED
  BY <1>2, <1>3, ApSet, Constants DEF ApCount

-----------------------------------------------------------------------------
LEMMA InitIInv == Init => IInv
<1> SUFFICES ASSUME Init PROVE IInv
  OBVIOUS
<1> USE Constants DEF Init
<1>1. TypeOK
  <2>1. patched \in Cpus \cup {NoStack}
    OBVIOUS
  <2>2. /\ ap \in [APs -> {"off", "wait_sipi", "trampoline", "ap_main", "barrier", "worker"}]
        /\ stack \in [APs -> Cpus \cup {NoStack}]
    OBVIOUS
  <2>3. cpu \in 0..CpuCount /\ expected \in Nat /\ timeout \in 0..Timeout
        /\ aps_started \in Nat /\ aps_expected \in Nat
    OBVIOUS
  <2>4. QED
    BY <2>1, <2>2, <2>3 DEF TypeOK
<1>2. LoopInv
  BY DEF LoopInv, InBody
<1>3. CheckedIn = {} /\ Running = {}
  BY DEF CheckedIn, Running
<1>4. CountExact
  BY <1>3, FS_EmptySet DEF CountExact
<1>5. AllCheckedIn
  BY DEF AllCheckedIn
<1>6. OneAtATime
  BY <1>3, ApSet DEF OneAtATime, InBody
<1>7. QED
  BY <1>1, <1>2, <1>4, <1>5, <1>6 DEF IInv

(* The steps of smp_init that leave every AP where it is.                  *)
LEMMA PrepareIInv == IInv /\ Prepare => IInv'
<1> SUFFICES ASSUME IInv, Prepare PROVE IInv'
  OBVIOUS
<1> USE Constants DEF Prepare, IInv
<1>1. TypeOK'
  BY DEF TypeOK, ApCount
<1>2. CheckedIn' = CheckedIn /\ Running' = Running
  BY DEF CheckedIn, Running
<1>3. LoopInv'
  BY DEF LoopInv, InBody
<1>4. CountExact' /\ AllCheckedIn'
  BY <1>2 DEF CountExact, AllCheckedIn
<1>5. OneAtATime'
  BY <1>2 DEF OneAtATime, InBody
<1>6. QED
  BY <1>1, <1>3, <1>4, <1>5

LEMMA PatchNextIInv == IInv /\ PatchNext => IInv'
<1> SUFFICES ASSUME IInv, PatchNext PROVE IInv'
  OBVIOUS
<1> USE Constants DEF IInv
<1>1. CheckedIn' = CheckedIn /\ Running' = Running
  BY DEF CheckedIn, Running, PatchNext
<1>2. CountExact' /\ AllCheckedIn'
  BY <1>1 DEF CountExact, AllCheckedIn, PatchNext
<1>3. CASE cpu = BspCpu
  <2> USE <1>3 DEF PatchNext
  <2>1. TypeOK'
    BY DEF TypeOK
  <2>2. BspCpu \notin APs
    BY DEF APs
  <2>3. LoopInv'
    BY <2>2, ApSet DEF LoopInv, InBody, TypeOK
  <2>4. OneAtATime'
    BY <1>1, <2>2, ApSet DEF OneAtATime, InBody, TypeOK
  <2>5. QED
    BY <1>2, <2>1, <2>3, <2>4
<1>4. CASE cpu # BspCpu
  <2> USE <1>4 DEF PatchNext, StackOfCpu, ExpectOne
  <2>1. cpu \in APs /\ ap[cpu] = "off"
    BY DEF LoopInv, TypeOK, APs, Cpus
  <2>2. TypeOK'
    BY <2>1 DEF TypeOK, APs
  <2>3. LoopInv'
    BY <2>1 DEF LoopInv, InBody
  <2>4. cpu \notin CheckedIn
    BY <2>1 DEF CheckedIn
  <2>5. OneAtATime'
    BY <1>1, <2>4 DEF OneAtATime, InBody
  <2>6. QED
    BY <1>2, <2>2, <2>3, <2>5
<1>5. QED
  BY <1>3, <1>4

LEMMA WaitForApIInv == IInv /\ WaitForAp => IInv'
<1> SUFFICES ASSUME IInv, WaitForAp PROVE IInv'
  OBVIOUS
<1> USE Constants DEF IInv
<1>1. CheckedIn' = CheckedIn /\ Running' = Running
  BY DEF CheckedIn, Running, WaitForAp
<1>2. cpu \in APs /\ cpu < CpuCount /\ timeout > 0
  BY DEF WaitForAp, LoopInv, InBody, APs, Cpus
<1>3. TypeOK'
  <2>1. cpu' \in 0..CpuCount /\ timeout' \in 0..Timeout
    BY <1>2 DEF WaitForAp, TypeOK
  <2>2. late' \in BOOLEAN
    BY DEF WaitForAp, TypeOK
  <2>3. bsp' \in {"loop", "wait"}
    BY DEF WaitForAp
  <2>4. QED
    BY <2>1, <2>2, <2>3 DEF WaitForAp, TypeOK
<1>4. LoopInv'
  BY <1>2, ApSet DEF WaitForAp, LoopInv, InBody, TypeOK
<1>5. CountExact' /\ AllCheckedIn'
  BY <1>1 DEF CountExact, AllCheckedIn, WaitForAp
<1>6. OneAtATime'
  <2>1. CASE cpu' = cpu
    BY <1>1, <1>2, <2>1 DEF OneAtATime, InBody, WaitForAp, TypeOK
  <2>2. CASE cpu' # cpu
    <3>1. cpu' = cpu + 1 /\ bsp' = "loop"
      BY <2>2 DEF WaitForAp
    <3>2. SUFFICES ASSUME ~late' PROVE OneAtATime'
      BY DEF OneAtATime
    <3>3. ~late /\ ~(aps_started < expected)
      BY <2>2, <3>2 DEF WaitForAp
    <3>4. cpu \in CheckedIn
      BY <3>3 DEF OneAtATime, InBody, WaitForAp, TypeOK
    <3>5. \A c \in APs : c < cpu + 1 => c \in CheckedIn
      BY <3>3, <3>4, ApSet DEF OneAtATime, TypeOK
    <3>6. QED
      BY <1>1, <3>1, <3>3, <3>5 DEF OneAtATime, InBody, WaitForAp
  <2>3. QED
    BY <2>1, <2>2
<1>7. QED
  BY <1>3, <1>4, <1>5, <1>6

(* smp_init returns only when the count has reached the number of APs.     *)
LEMMA AllOnlineIInv == IInv /\ AllOnline => IInv'
<1> SUFFICES ASSUME IInv, AllOnline PROVE IInv'
  OBVIOUS
<1> USE Constants DEF IInv, AllOnline
<1>1. CheckedIn' = CheckedIn /\ Running' = Running
  BY DEF CheckedIn, Running
<1>2. TypeOK'
  BY DEF TypeOK
<1>3. LoopInv'
  BY ApSet DEF LoopInv, InBody, APs, Cpus
<1>4. CountExact'
  BY <1>1 DEF CountExact
<1>5. CheckedIn = APs
  BY CheckedInFinite DEF CountExact, ApCount
<1>6. AllCheckedIn'
  BY <1>1, <1>5 DEF AllCheckedIn
<1>7. OneAtATime'
  BY <1>1 DEF OneAtATime, InBody
<1>8. QED
  BY <1>2, <1>3, <1>4, <1>6, <1>7

-----------------------------------------------------------------------------
(* The IPIs move one AP, which is not running.                             *)
LEMMA SendInitIInv == IInv /\ SendInit => IInv'
<1> SUFFICES ASSUME IInv, SendInit PROVE IInv'
  OBVIOUS
<1> USE Constants DEF IInv, SendInit
<1>1. cpu \in APs /\ ap[cpu] = "off"
  BY DEF LoopInv, InBody
<1>2. CheckedIn' = CheckedIn /\ Running' = Running
  BY <1>1 DEF CheckedIn, Running, TypeOK
<1>3. TypeOK'
  BY DEF TypeOK
<1>4. LoopInv'
  BY <1>1, ApSet DEF LoopInv, InBody, TypeOK
<1>5. CountExact'
  BY <1>2 DEF CountExact
<1>6. AllCheckedIn'
  BY <1>1, <1>2 DEF AllCheckedIn, TypeOK
<1>7. OneAtATime'
  BY <1>2 DEF OneAtATime, InBody
<1>8. QED
  BY <1>3, <1>4, <1>5, <1>6, <1>7

LEMMA SendSipiIInv ==
  IInv /\ (SendFirstSipi \/ SendSecondSipi) => IInv'
<1> SUFFICES ASSUME IInv, SendFirstSipi \/ SendSecondSipi PROVE IInv'
  OBVIOUS
<1> USE Constants DEF IInv
<1>0. /\ bsp \in {"sipi1", "sipi2"} /\ bsp' \in {"sipi2", "wait"}
      /\ timeout' \in {timeout, Timeout} /\ (bsp' = "wait" => timeout' = Timeout)
      /\ ap' = [ap EXCEPT ![cpu] = IF @ = "wait_sipi" THEN "trampoline" ELSE @] \/ ap' = ap
      /\ UNCHANGED <<cpu, expected, patched, aps_started, aps_expected, stack, late>>
  BY DEF SendFirstSipi, SendSecondSipi, Sipi
<1>1. cpu \in APs
  BY <1>0 DEF LoopInv, InBody
<1>2. /\ ap' \in [APs -> {"off", "wait_sipi", "trampoline", "ap_main", "barrier", "worker"}]
      /\ \A c \in APs : ap'[c] = ap[c] \/ (c = cpu /\ ap[c] = "wait_sipi" /\ ap'[c] = "trampoline")
  BY <1>0, <1>1 DEF TypeOK
<1>3. CheckedIn' = CheckedIn /\ Running' = Running
  BY <1>2 DEF CheckedIn, Running
<1>4. TypeOK'
  BY <1>0, <1>2 DEF TypeOK
<1>5. LoopInv'
  BY <1>0, <1>1, <1>2, ApSet DEF LoopInv, InBody, TypeOK
<1>6. CountExact'
  BY <1>0, <1>3 DEF CountExact
<1>7. AllCheckedIn'
  BY <1>0, <1>2, <1>3 DEF AllCheckedIn
<1>8. OneAtATime'
  BY <1>0, <1>3 DEF OneAtATime, InBody
<1>9. QED
  BY <1>4, <1>5, <1>6, <1>7, <1>8

-----------------------------------------------------------------------------
(* Until a wait times out, an AP in the trampoline is the one smp_init is  *)
(* at, so the stack it loads is its own.                                   *)
LEMMA LoadStackIInv == ASSUME NEW c \in APs PROVE IInv /\ LoadStack(c) => IInv'
<1> SUFFICES ASSUME IInv, LoadStack(c) PROVE IInv'
  OBVIOUS
<1> USE Constants DEF IInv, LoadStack, bspvars
<1>1. TypeOK'
  BY DEF TypeOK
<1>2. CheckedIn' = CheckedIn /\ Running' = Running \cup {c}
  BY DEF CheckedIn, Running, TypeOK
<1>3. LoopInv'
  BY DEF LoopInv, InBody, TypeOK
<1>4. CountExact'
  BY <1>2 DEF CountExact
<1>5. AllCheckedIn'
  BY <1>2 DEF AllCheckedIn, TypeOK
<1>6. OneAtATime'
  <2>1. SUFFICES ASSUME ~late PROVE OneAtATime'
    BY DEF OneAtATime
  <2>2. c \notin CheckedIn /\ c \in Nat
    BY ApSet DEF CheckedIn
  <2>3. c = cpu /\ bsp \notin {"entry", "loop", "init"}
    BY <2>1, <2>2 DEF OneAtATime, LoopInv, TypeOK
  <2>4. bsp # "done"
    BY <2>2 DEF AllCheckedIn
  <2>5. InBody
    BY <2>3, <2>4 DEF InBody, TypeOK
  <2>6. stack'[c] = c
    BY <2>3, <2>5 DEF LoopInv, TypeOK
  <2>7. \A d \in Running : d \in APs /\ (d # c => stack'[d] = stack[d])
    BY DEF Running, TypeOK
  <2>8. \A d \in Running' : stack'[d] = d
    BY <1>2, <2>1, <2>6, <2>7 DEF OneAtATime
  <2>9. QED
    BY <1>2, <2>1, <2>8 DEF OneAtATime, InBody
<1>7. QED
  BY <1>1, <1>3, <1>4, <1>5, <1>6

LEMMA CheckInIInv == ASSUME NEW c \in APs PROVE IInv /\ CheckIn(c) => IInv'
<1> SUFFICES ASSUME IInv, CheckIn(c) PROVE IInv'
  OBVIOUS
<1> USE Constants DEF IInv, CheckIn, bspvars
<1>1. TypeOK'
  BY DEF TypeOK
<1>2. c \notin CheckedIn /\ CheckedIn' = CheckedIn \cup {c} /\ Running' = Running
  BY DEF CheckedIn, Running, TypeOK
<1>3. LoopInv'
  BY DEF LoopInv, InBody, TypeOK
<1>4. CountExact'
  <2>1. Cardinality(CheckedIn \cup {c}) = Cardinality(CheckedIn) + 1
    BY <1>2, CheckedInFinite, FS_AddElement
  <2>2. QED
    BY <1>2, <2>1 DEF CountExact
<1>5. AllCheckedIn'
  BY <1>2 DEF AllCheckedIn, TypeOK
<1>6. OneAtATime'
  <2>1. SUFFICES ASSUME ~late PROVE OneAtATime'
    BY DEF OneAtATime
  <2>2. c = cpu
    BY <1>2, <2>1, ApSet DEF OneAtATime, LoopInv, TypeOK
  <2>3. QED
    BY <1>2, <2>1, <2>2 DEF OneAtATime, InBody, TypeOK
<1>7. QED
  BY <1>1, <1>3, <1>4, <1>5, <1>6

(* An AP leaves the barrier only when the count has reached aps_expected,  *)
(* which by then is the number of APs.                                     *)
LEMMA LeaveBarrierIInv ==
  ASSUME NEW c \in APs PROVE IInv /\ LeaveBarrier(c) => IInv'
<1> SUFFICES ASSUME IInv, LeaveBarrier(c) PROVE IInv'
  OBVIOUS
<1> USE Constants DEF IInv, LeaveBarrier, bspvars
<1>1. TypeOK'
  BY DEF TypeOK
<1>2. CheckedIn' = CheckedIn /\ Running' = Running
  BY DEF CheckedIn, Running, TypeOK
<1>3. LoopInv'
  BY DEF LoopInv, InBody, TypeOK
<1>4. CountExact'
  BY <1>2 DEF CountExact
<1>5. bsp # "entry"
  BY ApSet DEF LoopInv
<1>6. CheckedIn = APs
  BY <1>5, CheckedInFinite DEF CountExact, LoopInv, AllIn
<1>7. AllCheckedIn'
  BY <1>2, <1>6 DEF AllCheckedIn
<1>8. OneAtATime'
  BY <1>2 DEF OneAtATime, InBody
<1>9. QED
  BY <1>1, <1>3, <1>4, <1>7, <1>8

-----------------------------------------------------------------------------
LEMMA StutterIInv == IInv /\ UNCHANGED vars => IInv'
BY DEF vars, IInv, TypeOK, LoopInv, CountExact, AllCheckedIn, OneAtATime, InBody,
       CheckedIn, Running

LEMMA NextIInv == IInv /\ [Next]_vars => IInv'
<1> SUFFICES ASSUME IInv, [Next]_vars PROVE IInv'
  OBVIOUS
<1>1. CASE Bsp
  BY <1>1, PrepareIInv, PatchNextIInv, SendInitIInv, SendSipiIInv, WaitForApIInv,
     AllOnlineIInv DEF Bsp
<1>2. CASE \E c \in APs : Ap(c)
  BY <1>2, LoadStackIInv, CheckInIInv, LeaveBarrierIInv DEF Ap
<1>3. CASE UNCHANGED vars
  BY <1>3, StutterIInv
<1>4. QED
  BY <1>1, <1>2, <1>3 DEF Next, Finished

(* IInv holds throughout smp_init and ap_main.                             *)
THEOREM Invariance == Spec => []IInv
BY InitIInv, NextIInv, PTL DEF Spec

(* The variables keep their types; in particular cpu never runs past the   *)
(* table of CPUs and timeout never wraps below 0 (smp.c:86, smp.c:113).    *)
THEOREM TypeCorrect == Spec => []TypeOK
BY Invariance, PTL DEF IInv

(* The counters make a barrier: aps_started counts the APs that checked in *)
(* exactly, and neither smp_init returns nor an AP reaches its worker loop *)
(* before all have (smp.c:46, smp.c:121), for any number of CPUs.          *)
THEOREM BarrierHolds == Spec => []Barrier
<1>1. IInv => Barrier
  BY DEF IInv, CountExact, AllCheckedIn, Barrier
<1>2. QED
  BY <1>1, Invariance, PTL

(* Until a wait has timed out, no two running APs share a stack, although  *)
(* all read it from the one patched data area (smp.c:94).                  *)
THEOREM OwnStackHolds == Spec => []OwnStackInTime
<1>1. IInv => OwnStackInTime
  BY DEF IInv, OneAtATime, OwnStackInTime, OwnStack
<1>2. QED
  BY <1>1, Invariance, PTL

(* Until a wait has timed out, the wait for an AP (smp.c:111) ends early   *)
(* only because that AP itself has checked in.                             *)
THEOREM WaitHolds == Spec => WaitIsForThisApInTime
<1>1. IInv => (WaitForAp /\ aps_started >= expected /\ ~late => cpu \in CheckedIn)
  BY DEF IInv, TypeOK, OneAtATime, InBody, WaitForAp
<1>2. QED
  BY <1>1, Invariance, PTL DEF Spec, WaitIsForThisApInTime

-----------------------------------------------------------------------------
(* The run queue.                                                          *)
LEMMA InitQueueInv == QueueInit => QueueInv
<1> SUFFICES ASSUME QueueInit PROVE QueueInv
  OBVIOUS
<1> USE RunQueueAssumption DEF QueueInit
<1>1. fifo = << >> /\ Len(fifo) = 0 /\ fifo \in Seq(Tasks)
  OBVIOUS
<1>2. QueueTypeOK
  BY <1>1 DEF QueueTypeOK
<1>3. MutualExclusion /\ NoTaskLost
  BY <1>1 DEF MutualExclusion, NoTaskLost, Critical
<1>4. head = First /\ Linked /\ Settled
  BY <1>1 DEF First, Last, Linked, Settled, UnlinkedBut
<1>5. \A p \in Procs : Enqueues(p) /\ Dequeues(p)
  BY DEF Enqueues, Dequeues
<1> QED BY <1>2, <1>3, <1>4, <1>5 DEF QueueInv

(* What a queue that has its type is to the provers.                       *)
LEMMA FifoFacts ==
  ASSUME QueueTypeOK
  PROVE  /\ Len(fifo) \in Nat
         /\ \A i \in 1..Len(fifo) : fifo[i] \in Tasks
         /\ fifo = << >> <=> Len(fifo) = 0
BY LenProperties, EmptySeq DEF QueueTypeOK

(* scheduler_enqueue, before the lock: the field it writes is of a task    *)
(* that nobody else looks at.                                              *)
LEMMA EnqueueIInv ==
  ASSUME QueueInv, NEW p \in Procs, NEW t \in Tasks, scheduler_enqueue(p, t)
  PROVE  QueueInv'
<1> USE RunQueueAssumption
<1>0. /\ QueueTypeOK /\ pc[p] = "idle" /\ owner[t] = p
      /\ next' = [next EXCEPT ![t] = NULL]
      /\ task' = [task EXCEPT ![p] = t]
      /\ pc' = [pc EXCEPT ![p] = "lock_enqueue"]
      /\ UNCHANGED <<head, tail, count, locked, fifo, owner>>
  BY DEF scheduler_enqueue, Goto, QueueInv
<1>1. QueueTypeOK'
  BY <1>0 DEF QueueTypeOK
<1>2. MutualExclusion' /\ NoTaskLost'
  <2>1. MutualExclusion'
    BY <1>0 DEF QueueInv, MutualExclusion, QueueTypeOK, Critical
  <2>2. NoTaskLost'
    BY <1>0 DEF QueueInv, NoTaskLost
  <2> QED BY <2>1, <2>2
<1>3. \A i \in 1..Len(fifo) : fifo[i] # t
  BY <1>0 DEF QueueInv, NoTaskLost
<1>4. (head = First /\ Linked)'
  BY <1>0, <1>3, FifoFacts DEF QueueInv, First, Linked, QueueTypeOK
<1>5. \A u : UnlinkedBut(u) => UnlinkedBut(u)'
  BY <1>0 DEF UnlinkedBut, QueueTypeOK
<1>6. Settled'
  BY <1>0, <1>5 DEF QueueInv, Settled, Last, QueueTypeOK
<1>7. ASSUME NEW q \in Procs PROVE (Enqueues(q) /\ Dequeues(q))'
  BY <1>0, <1>5 DEF QueueInv, Enqueues, Dequeues, Last, QueueTypeOK
<1> QED BY <1>1, <1>2, <1>4, <1>6, <1>7 DEF QueueInv

(* Taking the lock, for either operation.                                  *)
LEMMA LockIInv ==
  ASSUME QueueInv, NEW p \in Procs, LockEnqueue(p) \/ LockDequeue(p) PROVE QueueInv'
<1> USE RunQueueAssumption
<1>0. /\ QueueTypeOK /\ ~locked /\ locked' = TRUE
      /\ \/ pc[p] = "lock_enqueue" /\ pc' = [pc EXCEPT ![p] = "link"]
         \/ pc[p] = "lock_dequeue" /\ pc' = [pc EXCEPT ![p] = "read_head"]
      /\ UNCHANGED <<head, tail, count, next, task, fifo, owner>>
  BY DEF LockEnqueue, LockDequeue, spinlock_acquire, queue, Goto, QueueInv
<1>1. QueueTypeOK'
  BY <1>0 DEF QueueTypeOK, Critical
<1>2. \A q \in Procs : pc[q] \notin Critical
  BY <1>0 DEF QueueInv, MutualExclusion
<1>3. MutualExclusion' /\ NoTaskLost'
  <2>1. MutualExclusion'
    BY <1>0, <1>2 DEF QueueInv, MutualExclusion, QueueTypeOK, Critical
  <2>2. NoTaskLost'
    BY <1>0 DEF QueueInv, NoTaskLost
  <2> QED BY <2>1, <2>2
<1>4. (head = First /\ Linked)'
  BY <1>0 DEF QueueInv, First, Linked
<1>5. Settled'
  BY <1>0, <1>2 DEF QueueInv, Settled, Last, UnlinkedBut, QueueTypeOK, Critical
<1>6. ASSUME NEW q \in Procs PROVE (Enqueues(q) /\ Dequeues(q))'
  BY <1>0, <1>2 DEF QueueInv, Enqueues, Dequeues, Last, UnlinkedBut, QueueTypeOK, Critical
<1> QED BY <1>1, <1>3, <1>4, <1>5, <1>6 DEF QueueInv

(* The CPU inside is the only one whose label puts it there.               *)
LEMMA OneInside ==
  ASSUME QueueInv, NEW p \in Procs, pc[p] \in Critical
  PROVE  locked /\ \A q \in Procs \ {p} : pc[q] \notin Critical
BY DEF QueueInv, MutualExclusion

(* The new task is appended to the chain, which ends at tail.              *)
LEMMA LinkIInv ==
  ASSUME QueueInv, NEW p \in Procs, Link(p) PROVE QueueInv'
<1> USE RunQueueAssumption
<1> DEFINE t == task[p]
<1>0. /\ QueueTypeOK /\ pc[p] = "link"
      /\ IF tail = NULL THEN head' = t /\ UNCHANGED next
         ELSE next' = [next EXCEPT ![tail] = t] /\ UNCHANGED head
      /\ fifo' = Append(fifo, t)
      /\ owner' = [owner EXCEPT ![t] = NULL]
      /\ pc' = [pc EXCEPT ![p] = "set_tail"]
      /\ UNCHANGED <<tail, count, locked, task>>
  BY DEF Link, Goto, QueueInv
<1>1. t \in Tasks /\ owner[t] = p /\ next[t] = NULL
  BY <1>0 DEF QueueInv, Enqueues
<1>2. locked /\ \A q \in Procs \ {p} : pc[q] \notin Critical
  BY <1>0, OneInside DEF Critical
<1>3. count = Len(fifo) /\ tail = Last /\ UnlinkedBut(NULL)
  BY <1>0, <1>2 DEF QueueInv, Settled, Critical
<1>4. /\ fifo' \in Seq(Tasks) /\ fifo' # << >>
      /\ Len(fifo') = Len(fifo) + 1
      /\ \A i \in 1..Len(fifo) : fifo'[i] = fifo[i]
      /\ fifo'[Len(fifo) + 1] = t
  BY <1>0, <1>1, AppendProperties DEF QueueTypeOK
<1>5. QueueTypeOK'
  BY <1>0, <1>1, <1>4 DEF QueueTypeOK, Critical
<1>6. \A i \in 1..Len(fifo) : fifo[i] # t
  BY <1>1 DEF QueueInv, NoTaskLost
<1>7. MutualExclusion'
  BY <1>0, <1>2 DEF QueueInv, MutualExclusion, QueueTypeOK, Critical
<1>8. NoTaskLost'
  BY <1>0, <1>1, <1>4, <1>6, FifoFacts DEF QueueInv, NoTaskLost, QueueTypeOK
<1>9. (head = First)'
  BY <1>0, <1>3, <1>4, FifoFacts DEF QueueInv, First, Last
<1>10. Linked'
  BY <1>0, <1>1, <1>3, <1>4, <1>6, FifoFacts
  DEF QueueInv, Linked, Last, QueueTypeOK, NoTaskLost
<1>11. UnlinkedBut(NULL)'
  BY <1>0, <1>1, <1>3, FifoFacts DEF UnlinkedBut, Last, QueueTypeOK, QueueInv, NoTaskLost
<1>12. Settled'
  BY <1>0 DEF Settled, QueueTypeOK
<1>13. ASSUME NEW q \in Procs PROVE (Enqueues(q) /\ Dequeues(q))'
  <2>1. CASE q = p
    BY <2>1, <1>0, <1>3, <1>4, <1>11, FifoFacts DEF Enqueues, Dequeues, QueueTypeOK
  <2>2. CASE q # p
    <3>1. pc'[q] = pc[q] /\ pc[q] \notin Critical /\ task'[q] = task[q]
      BY <2>2, <1>0, <1>2 DEF QueueTypeOK
    <3>2. pc[q] = "lock_enqueue" =>
            task[q] \in Tasks /\ owner'[task[q]] = q /\ next'[task[q]] = NULL
      BY <2>2, <3>1, <1>0, <1>1, <1>3, FifoFacts
      DEF QueueInv, Enqueues, NoTaskLost, Last, QueueTypeOK
    <3> QED BY <3>1, <3>2 DEF Enqueues, Dequeues, Critical
  <2> QED BY <2>1, <2>2
<1> QED BY <1>5, <1>7, <1>8, <1>9, <1>10, <1>12, <1>13 DEF QueueInv

(* tail and count catch up.                                                *)
LEMMA SetTailIInv ==
  ASSUME QueueInv, NEW p \in Procs, SetTail(p) PROVE QueueInv'
<1> USE RunQueueAssumption
<1>0. /\ QueueTypeOK /\ pc[p] = "set_tail"
      /\ tail' = task[p] /\ count' = count + 1
      /\ pc' = [pc EXCEPT ![p] = "unlock"]
      /\ UNCHANGED <<head, next, locked, task, fifo, owner>>
  BY DEF SetTail, Goto, QueueInv
<1>1. /\ fifo # << >> /\ task[p] = fifo[Len(fifo)]
      /\ count = Len(fifo) - 1
      /\ UnlinkedBut(NULL)
  BY <1>0 DEF QueueInv, Enqueues
<1>2. locked /\ \A q \in Procs \ {p} : pc[q] \notin Critical
  BY <1>0, OneInside DEF Critical
<1>3. QueueTypeOK'
  BY <1>0, <1>1, FifoFacts DEF QueueTypeOK, Critical
<1>4. MutualExclusion' /\ NoTaskLost'
  <2>1. MutualExclusion'
    BY <1>0, <1>2 DEF QueueInv, MutualExclusion, QueueTypeOK, Critical
  <2>2. NoTaskLost'
    BY <1>0 DEF QueueInv, NoTaskLost
  <2> QED BY <2>1, <2>2
<1>5. (head = First /\ Linked)'
  BY <1>0 DEF QueueInv, First, Linked
<1>6. Settled'
  BY <1>0, <1>1, FifoFacts DEF Settled, Last, UnlinkedBut, QueueTypeOK
<1>7. ASSUME NEW q \in Procs PROVE (Enqueues(q) /\ Dequeues(q))'
  BY <1>0, <1>2 DEF QueueInv, Enqueues, Dequeues, QueueTypeOK, Critical
<1> QED BY <1>3, <1>4, <1>5, <1>6, <1>7 DEF QueueInv

(* Entering scheduler_dequeue, reading head, and leaving change neither    *)
(* the list nor who has which task.                                        *)
LEMMA LocalIInv ==
  ASSUME QueueInv, NEW p \in Procs, scheduler_dequeue(p) \/ ReadHead(p) \/ Unlock(p)
  PROVE  QueueInv'
<1> USE RunQueueAssumption
<1>0. /\ QueueTypeOK
      /\ \/ /\ pc[p] = "idle" /\ pc' = [pc EXCEPT ![p] = "lock_dequeue"]
            /\ UNCHANGED <<locked, task>>
         \/ /\ pc[p] = "read_head"
            /\ pc' = [pc EXCEPT ![p] = IF head = NULL THEN "unlock" ELSE "advance"]
            /\ task' = [task EXCEPT ![p] = head]
            /\ UNCHANGED locked
         \/ /\ pc[p] = "unlock" /\ pc' = [pc EXCEPT ![p] = "idle"]
            /\ locked' = FALSE
            /\ task' = [task EXCEPT ![p] = NULL]
      /\ UNCHANGED <<head, tail, count, next, fifo, owner>>
  BY DEF scheduler_dequeue, ReadHead, Unlock, spinlock_release, queue, Goto, QueueInv
<1>1. QueueTypeOK'
  <2>1. pc'[p] \in Critical \cup {"idle", "lock_enqueue", "lock_dequeue"}
    BY <1>0 DEF QueueTypeOK, Critical
  <2>2. pc' \in [Procs -> Critical \cup {"idle", "lock_enqueue", "lock_dequeue"}]
    BY <1>0, <2>1 DEF QueueTypeOK
  <2>3. task' \in [Procs -> Tasks \cup {NULL}] /\ locked' \in BOOLEAN
    BY <1>0 DEF QueueTypeOK
  <2>4. UNCHANGED <<head, tail, count, next, fifo, owner>>
    BY <1>0
  <2> QED BY <1>0, <2>2, <2>3, <2>4 DEF QueueTypeOK
<1>2. MutualExclusion' /\ NoTaskLost'
  <2>1. MutualExclusion'
    BY <1>0 DEF QueueInv, MutualExclusion, QueueTypeOK, Critical
  <2>2. NoTaskLost'
    BY <1>0 DEF QueueInv, NoTaskLost
  <2> QED BY <2>1, <2>2
<1>3. (head = First /\ Linked)'
  BY <1>0 DEF QueueInv, First, Linked
<1>4. Settled'
  BY <1>0 DEF QueueInv, Settled, Last, UnlinkedBut, QueueTypeOK
<1>5. ASSUME NEW q \in Procs PROVE (Enqueues(q) /\ Dequeues(q))'
  BY <1>0 DEF QueueInv, Enqueues, Dequeues, Last, UnlinkedBut, QueueTypeOK
<1> QED BY <1>1, <1>2, <1>3, <1>4, <1>5 DEF QueueInv

(* The first task leaves the chain; its next field is the new head.        *)
LEMMA AdvanceIInv ==
  ASSUME QueueInv, NEW p \in Procs, AdvanceHead(p) PROVE QueueInv'
<1> USE RunQueueAssumption
<1> DEFINE t == task[p]
<1>0. /\ QueueTypeOK /\ pc[p] = "advance"
      /\ head' = next[t]
      /\ fifo' = Tail(fifo)
      /\ owner' = [owner EXCEPT ![t] = p]
      /\ pc' = [pc EXCEPT ![p] = "fix_tail"]
      /\ UNCHANGED <<tail, count, next, locked, task>>
  BY DEF AdvanceHead, Goto, QueueInv
<1>1. fifo # << >> /\ t = fifo[1] /\ t \in Tasks
  BY <1>0, FifoFacts DEF QueueInv, Dequeues, First
<1>2. locked /\ \A q \in Procs \ {p} : pc[q] \notin Critical
  BY <1>0, OneInside DEF Critical
<1>3. count = Len(fifo) /\ tail = Last /\ UnlinkedBut(NULL)
  BY <1>0, <1>2 DEF QueueInv, Settled, Critical
<1>4. /\ fifo' \in Seq(Tasks)
      /\ Len(fifo') = Len(fifo) - 1
      /\ \A i \in 1..Len(fifo') : fifo'[i] = fifo[i + 1]
  BY <1>0, <1>1, HeadTailProperties DEF QueueTypeOK
<1>5. Len(fifo') \in Nat /\ Len(fifo) \in Nat /\ Len(fifo) > 0
  BY <1>0, <1>1, <1>4, FifoFacts
<1>6. fifo' = << >> <=> Len(fifo') = 0
  BY <1>4, EmptySeq
<1>7. QueueTypeOK'
  BY <1>0, <1>1, <1>4 DEF QueueTypeOK, Critical
<1>8. \A i \in 1..Len(fifo') : fifo'[i] # t
  BY <1>1, <1>4, <1>5 DEF QueueInv, NoTaskLost
<1>9. MutualExclusion'
  BY <1>0, <1>2 DEF QueueInv, MutualExclusion, QueueTypeOK, Critical
<1>10. NoTaskLost'
  <2>1. \A i, j \in 1..Len(fifo') : fifo'[i] = fifo'[j] => i = j
    BY <1>4, <1>5 DEF QueueInv, NoTaskLost
  <2>2. ASSUME NEW u \in Tasks
        PROVE  owner'[u] = NULL <=> \E i \in 1..Len(fifo') : fifo'[i] = u
    <3>1. CASE u = t
      BY <3>1, <1>0, <1>1, <1>8 DEF QueueTypeOK
    <3>2. CASE u # t
      <4>1. owner'[u] = owner[u]
        BY <3>2, <1>0, <1>1 DEF QueueTypeOK
      <4>2. ASSUME NEW i \in 1..Len(fifo), fifo[i] = u
            PROVE  i - 1 \in 1..Len(fifo') /\ fifo'[i - 1] = u
        <5>1. i # 1
          BY <4>2, <3>2, <1>1
        <5> QED BY <4>2, <5>1, <1>4, <1>5
      <4>3. ASSUME NEW i \in 1..Len(fifo'), fifo'[i] = u
            PROVE  i + 1 \in 1..Len(fifo) /\ fifo[i + 1] = u
        BY <4>3, <1>4, <1>5
      <4> QED BY <4>1, <4>2, <4>3 DEF QueueInv, NoTaskLost
    <3> QED BY <3>1, <3>2
  <2> QED BY <2>1, <2>2 DEF NoTaskLost
<1>a. head' = next[t] /\ next' = next
  BY <1>0
<1>b. \A i \in 1..Len(fifo) :
        next[fifo[i]] = IF i = Len(fifo) THEN NULL ELSE fifo[i + 1]
  BY DEF QueueInv, Linked
<1>11. (head = First)'
  BY <1>a, <1>b, <1>1, <1>4, <1>5, <1>6 DEF First
<1>12. Linked'
  <2> SUFFICES ASSUME NEW i \in 1..Len(fifo')
               PROVE  next'[fifo'[i]] = IF i = Len(fifo') THEN NULL ELSE fifo'[i + 1]
    BY DEF Linked
  <2>1. i + 1 \in 1..Len(fifo) /\ fifo'[i] = fifo[i + 1]
    BY <1>4, <1>5
  <2>2. i # Len(fifo') => fifo'[i + 1] = fifo[(i + 1) + 1]
    BY <1>4, <1>5
  <2> QED BY <2>1, <2>2, <1>a, <1>b, <1>4, <1>5
<1>13. UnlinkedBut(t)'
  BY <1>0, <1>1, <1>3, <1>2 DEF UnlinkedBut, QueueTypeOK
<1>14. Settled'
  BY <1>0 DEF Settled, QueueTypeOK
<1>15. fifo' # << >> => tail' = Last'
  BY <1>0, <1>1, <1>3, <1>4, <1>5, <1>6 DEF Last
<1>16. ASSUME NEW q \in Procs PROVE (Enqueues(q) /\ Dequeues(q))'
  <2>1. CASE q = p
    BY <2>1, <1>0, <1>1, <1>3, <1>4, <1>5, <1>13, <1>15 DEF Enqueues, Dequeues, QueueTypeOK
  <2>2. CASE q # p
    <3>1. pc'[q] = pc[q] /\ pc[q] \notin Critical /\ task'[q] = task[q]
      BY <2>2, <1>0, <1>2 DEF QueueTypeOK
    <3>2. owner[t] = NULL
      BY <1>1, <1>5 DEF QueueInv, NoTaskLost
    <3>3. pc[q] = "lock_enqueue" =>
            task[q] \in Tasks /\ owner'[task[q]] = q /\ next'[task[q]] = NULL
      BY <3>1, <3>2, <1>0, <1>1 DEF QueueInv, Enqueues, QueueTypeOK
    <3> QED BY <3>1, <3>3 DEF Enqueues, Dequeues, Critical
  <2> QED BY <2>1, <2>2
<1> QED BY <1>7, <1>9, <1>10, <1>11, <1>12, <1>14, <1>16 DEF QueueInv

(* tail, count and the next field of the task taken off catch up.          *)
LEMMA FixTailIInv ==
  ASSUME QueueInv, NEW p \in Procs, FixTail(p) PROVE QueueInv'
<1> USE RunQueueAssumption
<1> DEFINE t == task[p]
<1>0. /\ QueueTypeOK /\ pc[p] = "fix_tail"
      /\ tail' = IF head = NULL THEN NULL ELSE tail
      /\ count' = count - 1
      /\ next' = [next EXCEPT ![t] = NULL]
      /\ pc' = [pc EXCEPT ![p] = "unlock"]
      /\ UNCHANGED <<head, locked, task, fifo, owner>>
  BY DEF FixTail, Goto, QueueInv
<1>1. /\ t \in Tasks /\ owner[t] = p
      /\ count = Len(fifo) + 1
      /\ fifo # << >> => tail = Last
      /\ UnlinkedBut(t)
  BY <1>0 DEF QueueInv, Dequeues
<1>2. locked /\ \A q \in Procs \ {p} : pc[q] \notin Critical
  BY <1>0, OneInside DEF Critical
<1>3. \A i \in 1..Len(fifo) : fifo[i] # t
  BY <1>1 DEF QueueInv, NoTaskLost
<1>4. QueueTypeOK'
  BY <1>0, <1>1, FifoFacts DEF QueueTypeOK, Critical
<1>5. MutualExclusion' /\ NoTaskLost'
  <2>1. MutualExclusion'
    BY <1>0, <1>2 DEF QueueInv, MutualExclusion, QueueTypeOK, Critical
  <2>2. NoTaskLost'
    BY <1>0 DEF QueueInv, NoTaskLost
  <2> QED BY <2>1, <2>2
<1>6. (head = First /\ Linked)'
  BY <1>0, <1>1, <1>3, FifoFacts DEF QueueInv, First, Linked, QueueTypeOK
<1>7. tail' = Last'
  BY <1>0, <1>1, FifoFacts DEF QueueInv, First, Last
<1>8. UnlinkedBut(NULL)'
  BY <1>0, <1>1 DEF UnlinkedBut, QueueTypeOK
<1>9. Settled'
  BY <1>0, <1>1, <1>7, <1>8, FifoFacts DEF Settled
<1>10. ASSUME NEW q \in Procs PROVE (Enqueues(q) /\ Dequeues(q))'
  BY <1>0, <1>1, <1>2 DEF QueueInv, Enqueues, Dequeues, QueueTypeOK, Critical
<1> QED BY <1>4, <1>5, <1>6, <1>9, <1>10 DEF QueueInv

LEMMA NextQueueInv == ASSUME QueueInv, [QueueNext]_queueVars PROVE QueueInv'
<1>1. ASSUME NEW p \in Procs, Call(p) PROVE QueueInv'
  BY <1>1, EnqueueIInv, LocalIInv DEF Call
<1>2. ASSUME NEW p \in Procs, Step(p) PROVE QueueInv'
  BY <1>2, LockIInv, LinkIInv, SetTailIInv, LocalIInv, AdvanceIInv, FixTailIInv
  DEF Step
<1>3. CASE UNCHANGED queueVars
  BY <1>3 DEF queueVars, QueueInv, QueueTypeOK, MutualExclusion, NoTaskLost, First, Last,
              Linked, UnlinkedBut, Settled, Enqueues, Dequeues
<1> QED BY <1>1, <1>2, <1>3 DEF QueueNext

(* The inductive invariant holds in every execution.                       *)
THEOREM QueueInvariance == QueueSpec => []QueueInv
<1>1. QueueInit => QueueInv
  BY InitQueueInv
<1>2. QueueInv /\ [QueueNext]_queueVars => QueueInv'
  BY NextQueueInv
<1> QED BY <1>1, <1>2, PTL DEF QueueSpec

(* run_queue.lock excludes: at most one CPU is between spinlock_acquire    *)
(* and spinlock_release, however many there are.                           *)
THEOREM Exclusion == QueueSpec => []MutualExclusion
<1>1. QueueInv => MutualExclusion
  BY DEF QueueInv
<1> QED BY <1>1, QueueInvariance, PTL

(* scheduler_enqueue and scheduler_dequeue lose no task and put none in    *)
(* two places, for any number of CPUs and tasks.                           *)
THEOREM NoneLost == QueueSpec => []NoTaskLost
<1>1. QueueInv => NoTaskLost
  BY DEF QueueInv
<1> QED BY <1>1, QueueInvariance, PTL

(* Whenever nobody holds the lock, head, tail, count and the next fields   *)
(* spell out the queue.                                                    *)
THEOREM ListAgreesHolds == QueueSpec => []ListAgrees
<1>1. QueueInv => ListAgrees
  BY DEF QueueInv, ListAgrees, Settled, MutualExclusion, Critical
<1> QED BY <1>1, QueueInvariance, PTL

(* The linked list under the spinlock implements a FIFO queue with atomic  *)
(* puts and gets: linking a task is the put, moving head is the get.       *)
THEOREM Refinement == QueueSpec => ImplementsContract
<1> USE RunQueueAssumption
<1>1. QueueInit => Contract!Init
  BY DEF QueueInit, Contract!Init
<1>2. ASSUME QueueInv, [QueueNext]_queueVars PROVE [Contract!Next]_(Contract!vars)
  <2>1. ASSUME NEW p \in Procs, Link(p) PROVE Contract!Next
    <3>1. task[p] \in Tasks /\ owner[task[p]] = p
      BY <2>1, <1>2 DEF QueueInv, Enqueues, Link
    <3>2. Contract!Put(p, task[p])
      BY <2>1, <3>1 DEF Link, Contract!Put
    <3> QED BY <3>1, <3>2 DEF Contract!Next
  <2>2. ASSUME NEW p \in Procs, AdvanceHead(p) PROVE Contract!Next
    <3>1. fifo # << >> /\ task[p] = Head(fifo)
      BY <2>2, <1>2 DEF QueueInv, Dequeues, AdvanceHead, First, QueueTypeOK
    <3>2. Contract!Get(p)
      BY <2>2, <3>1 DEF AdvanceHead, Contract!Get
    <3> QED BY <3>2 DEF Contract!Next
  <2>3. ASSUME NEW p \in Procs, Call(p) PROVE UNCHANGED <<fifo, owner>>
    BY <2>3 DEF Call, scheduler_enqueue, scheduler_dequeue
  <2>4. ASSUME NEW p \in Procs, Step(p), ~Link(p), ~AdvanceHead(p)
        PROVE  UNCHANGED <<fifo, owner>>
    BY <2>4 DEF Step, LockEnqueue, SetTail, LockDequeue, ReadHead, FixTail, Unlock
  <2>5. CASE UNCHANGED queueVars
    BY <2>5 DEF queueVars, Contract!vars
  <2> QED BY <1>2, <2>1, <2>2, <2>3, <2>4, <2>5 DEF QueueNext, Step, Contract!vars
<1> QED BY <1>1, <1>2, QueueInvariance, PTL DEF QueueSpec, ImplementsContract, Contract!Spec
=============================================================================
