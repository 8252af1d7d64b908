---------------------------- MODULE MCScheduler -----------------------------
(* Instances of Scheduler for TLC.  A set of labels says which code the    *)
(* timer interrupt hits; in the kernel it can hit any code of the BSP.     *)
EXTENDS Scheduler

CONSTANTS cpu0, cpu1, cpu2

OneCPU == {cpu0}
TwoCPUs == {cpu0, cpu1}
ThreeCPUs == {cpu0, cpu1, cpu2}

TaskTicks == {"work", "enter", "loop"}

(* The code that holds the lock of the run queue.                          *)
LockTicks == {"main_link", "loop_pop", "yield_pop", "requeue_link"}

(* The code between a dequeue and the context switch that follows, where   *)
(* the task taken off the queue is known to no other code.                 *)
SwitchTicks == {"loop_got", "loop_set", "loop_switch", "yield_pick", "yield_set", "yield_switch"}

(* The code that holds klog_lock.                                          *)
LogTicks == {"klog_held"}

OtherTicks == Labels \ (LockTicks \cup SwitchTicks \cup LogTicks)

Setup(cpus, tasks, yielders, ticks) ==
  [cpus |-> cpus, tasks |-> tasks, yielders |-> yielders, ticks |-> ticks]

(* Two and three CPUs without interrupts; one CPU whose tasks, boot code   *)
(* and yields are interrupted; one CPU with tasks that are preempted and   *)
(* also yield.                                                             *)
Sound == {Setup(ThreeCPUs, 2, {}, {}), Setup(TwoCPUs, 3, {}, {}),
          Setup(OneCPU, 3, {}, OtherTicks), Setup(OneCPU, 3, {1, 2}, TaskTicks)}

SmpTick == {Setup(TwoCPUs, 2, {}, TaskTicks)}
IdleMoves == {Setup(TwoCPUs, 2, {}, {"main"})}
LockTick == {Setup(OneCPU, 2, {}, LockTicks)}
LogTick == {Setup(OneCPU, 2, {}, LogTicks)}
SwitchTick == {Setup(OneCPU, 2, {}, SwitchTicks)}
Migrates == {Setup(TwoCPUs, 2, {}, {"klog"})}
=============================================================================
