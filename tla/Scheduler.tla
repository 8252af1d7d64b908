----------------------------- MODULE Scheduler ------------------------------
(***************************************************************************)
(* Tasks, CPUs and context switches: drivers/scheduler.c, the assembly in  *)
(* drivers/scheduler.nasm, the timer interrupt of drivers/idt.c and the    *)
(* end of kernel_main, from x86_enable_interrupts on.  The run queue is    *)
(* the FIFO queue that RunQueue.tla is shown to be, with its spinlock kept *)
(* visible, because an interrupt can hit the CPU that holds it.            *)
(*                                                                         *)
(* A context is a stack that a CPU can execute on: one in every task_t and *)
(* the boot stack of every CPU.  The boot context of CPU c, and the idle   *)
(* task_t of c whose rsp points into it, are both written c.  The stacks   *)
(* idle tasks are created with are never executed on.                      *)
(*                                                                         *)
(* What the code of a task computes is left out: it logs, it may yield,    *)
(* and it ends.                                                            *)
(* That it starts at the task's entry is taken for granted here; see       *)
(* ContextSwitch.tla for what task_trampoline really calls.                *)
(*                                                                         *)
(* A context switch stores rsp in one task_t and loads it from another.    *)
(* The pointer loaded is good only if it is the last one stored for that   *)
(* stack and nobody has executed on the stack since: top keeps track of    *)
(* that, and wild records a load that was not good.  What happens after    *)
(* such a load is not modelled.                                            *)
(***************************************************************************)
EXTENDS Integers, Sequences, FiniteSets

CONSTANTS
  CPUs,        \* cpu_locals; idle tasks and boot contexts, too
  BSP,         \* the CPU that runs kernel_main
  NTasks,      \* the most tasks kernel_main creates (8 in the source)
  Setups,      \* what the kernel runs on: [cpus, tasks, yielders, ticks]
  MaxDepth,    \* bound on the calls nested on one stack
  NULL

Tasks == 1..NTasks
Contexts == Tasks \cup CPUs

(* In a setup the CPUs of cpus have been started, so many tasks are        *)
(* created, the code of the yielders calls scheduler_yield, and ticks are  *)
(* the labels of the code that the timer interrupt can hit.                *)
ASSUME SchedulerAssumption ==
  /\ NTasks \in Nat
  /\ BSP \in CPUs
  /\ CPUs \cap Tasks = {} /\ NULL \notin Contexts
  /\ \A s \in Setups : /\ BSP \in s.cpus /\ s.cpus \subseteq CPUs
                        /\ s.tasks \in 0..NTasks /\ s.yielders \subseteq Tasks
  /\ MaxDepth \in Nat

VARIABLES
  setup,     \* the one that is running
  on,        \* on[c] = the context CPU c executes on
  stack,     \* calls under way on a context, the innermost first
  rsp,       \* rsp[t] = the context that t->rsp points into
  top,       \* top[x] = the task_t that has the rsp to resume x with, if any
  state,     \* t->state
  current,   \* cpu_locals[c].current
  runq,      \* run_queue, head first
  locked,    \* run_queue.lock
  klog_lock,
  IF_,       \* the interrupt flag of each CPU
  created,   \* loop variable of kernel_main
  wild       \* a context switch has loaded an rsp that was no longer good

switchVars == <<on, rsp, top, wild>>
taskVars == <<state, current>>
queueVars == <<runq, locked>>

vars == <<setup, stack, switchVars, taskVars, queueVars, klog_lock, IF_, created>>

(* A call: the next label, its locals, and whether it is an interrupt.     *)
Frame(label, interrupt) ==
  [pc |-> label, cpu |-> NULL, old |-> NULL, task |-> NULL, iret |-> interrupt]

Init ==
  /\ setup \in Setups
  /\ on = [c \in CPUs |-> c]
  /\ stack = [x \in Contexts |->
                <<Frame(IF x \in Tasks THEN "body"
                        ELSE IF x = BSP THEN "main" ELSE "enter", FALSE)>>]
  /\ rsp = [x \in Contexts |-> IF x \in Tasks THEN x ELSE NULL]
  /\ top = [x \in Contexts |-> IF x \in Tasks THEN x ELSE NULL]
  /\ state = [x \in Contexts |-> "READY"]
  /\ current = [c \in CPUs |-> NULL]
  /\ runq = << >>
  /\ locked = FALSE /\ klog_lock = FALSE
  /\ IF_ = [c \in CPUs |-> c = BSP]
  /\ created = 0
  /\ wild = FALSE

-----------------------------------------------------------------------------
(* The innermost call on CPU c, and where it is.                           *)
Top(c) == Head(stack[on[c]])
At(c, label) == ~wild /\ Top(c).pc = label

SetTop(c, frame) == stack' = [stack EXCEPT ![on[c]] = <<frame>> \o Tail(@)]
Goto(c, label) == SetTop(c, [Top(c) EXCEPT !.pc = label])

(* A call from label back, and the return from one.                        *)
Call(c, back, frame) ==
  stack' = [stack EXCEPT ![on[c]] =
              <<frame, [Head(@) EXCEPT !.pc = back]>> \o Tail(@)]
Return(c) ==
  /\ stack' = [stack EXCEPT ![on[c]] = Tail(@)]
  /\ IF_' = [IF_ EXCEPT ![c] = @ \/ Top(c).iret]

(* spinlock_acquire, when it succeeds.                                     *)
acquire == ~locked /\ locked' = TRUE

(* The critical section of scheduler_enqueue, and of scheduler_dequeue:    *)
(* the head of the queue, if there is one, becomes the local task.         *)
enqueue(t) == runq' = Append(runq, t) /\ locked' = FALSE
FirstNotLast == IF Len(runq) <= 1 THEN NULL ELSE Head(runq)
First == IF runq = << >> THEN NULL ELSE Head(runq)
dequeue ==
  /\ runq' = IF First = NULL THEN runq ELSE Tail(runq)
  /\ locked' = FALSE

(* The idle task_t of the CPU on which the innermost call began.           *)
IdleOfBoot(c) == BSP
Idle(c) == Top(c).cpu

(* rsp is stored in old, then loaded from new; c goes on at label after    *)
(* when the context it leaves is resumed.                                  *)
scheduler_context_switch(c, old, new, after) ==
  LET x == on[c]
      rsp1 == [rsp EXCEPT ![old] = x]
      top1 == [top EXCEPT ![x] = old]
      y == rsp1[new]
  IN  /\ rsp' = rsp1
      /\ on' = [on EXCEPT ![c] = y]
      /\ top' = [top1 EXCEPT ![y] = NULL]
      /\ wild' = (top1[y] # new)
      /\ Goto(c, after)

-----------------------------------------------------------------------------
(* klog, which holds klog_lock while it writes the line.  What it writes   *)
(* is the subject of Klog.tla.                                             *)
klog(c, back) ==
  /\ Call(c, back, Frame("klog", FALSE))
  /\ UNCHANGED <<klog_lock, IF_>>

(* The same after cpu_local(): the code from back on goes by the CPU that  *)
(* it was on before the log.                                               *)
LogOnCpu(c, back) ==
  /\ stack' = [stack EXCEPT ![on[c]] =
       <<Frame("klog", FALSE), [Head(@) EXCEPT !.pc = back, !.cpu = c]>> \o Tail(@)]
  /\ UNCHANGED <<klog_lock, IF_>>

KlogAcquire(c) ==
  /\ At(c, "klog") /\ ~klog_lock
  /\ klog_lock' = TRUE
  /\ Goto(c, "klog_held")
  /\ UNCHANGED <<switchVars, taskVars, queueVars, IF_, created>>

KlogRelease(c) ==
  /\ At(c, "klog_held")
  /\ klog_lock' = FALSE
  /\ Return(c)
  /\ UNCHANGED <<switchVars, taskVars, queueVars, created>>

-----------------------------------------------------------------------------
(* The loop of kernel_main: task_create leaves a task ready to be started, *)
(* logging twice, and scheduler_enqueue puts it on the queue.              *)
MainCreate(c) ==
  /\ At(c, "main")
  /\ IF created < setup.tasks
     THEN /\ created' = created + 1
          /\ state' = [state EXCEPT ![created + 1] = "READY"]
          /\ klog(c, "main_log")
     ELSE Goto(c, "enter") /\ UNCHANGED <<created, state, klog_lock, IF_>>
  /\ UNCHANGED <<switchVars, current, queueVars>>

MainLog(c) ==
  /\ At(c, "main_log")
  /\ klog(c, "main_lock")
  /\ UNCHANGED <<switchVars, taskVars, queueVars, created>>

MainLock(c) ==
  /\ At(c, "main_lock") /\ acquire
  /\ SetTop(c, [Top(c) EXCEPT !.pc = "main_link", !.task = created])
  /\ UNCHANGED <<switchVars, taskVars, runq, klog_lock, IF_, created>>

MainLink(c) ==
  /\ At(c, "main_link")
  /\ enqueue(Top(c).task)
  /\ SetTop(c, [Top(c) EXCEPT !.pc = "main", !.task = NULL])
  /\ UNCHANGED <<switchVars, taskVars, klog_lock, IF_, created>>

-----------------------------------------------------------------------------
(* cpu_enter_worker up to its loop.  The rsp it stores in the idle task    *)
(* points into a stack that is being executed on.                          *)
EnterLog(c) ==
  /\ At(c, "enter")
  /\ LogOnCpu(c, "enter_set")
  /\ UNCHANGED <<switchVars, taskVars, queueVars, created>>

Enter(c) ==
  /\ At(c, "enter_set")
  /\ rsp' = [rsp EXCEPT ![Idle(c)] = on[c]]
  /\ current' = [current EXCEPT ![Top(c).cpu] = Idle(c)]
  /\ klog(c, "loop")
  /\ UNCHANGED <<on, top, wild, state, queueVars, created>>

WorkerLock(c) ==
  /\ At(c, "loop") /\ acquire
  /\ Goto(c, "loop_pop")
  /\ UNCHANGED <<switchVars, taskVars, runq, klog_lock, IF_, created>>

WorkerPop(c) ==
  /\ At(c, "loop_pop")
  /\ dequeue
  /\ SetTop(c, [Top(c) EXCEPT !.task = First,
                              !.pc = IF First = NULL THEN "loop" ELSE "loop_got"])
  /\ UNCHANGED <<switchVars, taskVars, klog_lock, IF_, created>>

WorkerLog(c) ==
  /\ \E from \in {<<"loop_got", "loop_set">>, <<"loop_back", "loop">>} :
       At(c, from[1]) /\ klog(c, from[2])
  /\ UNCHANGED <<switchVars, taskVars, queueVars, created>>

WorkerSet(c) ==
  /\ At(c, "loop_set")
  /\ state' = [state EXCEPT ![Top(c).task] = "RUNNING"]
  /\ current' = [current EXCEPT ![Top(c).cpu] = Top(c).task]
  /\ Goto(c, "loop_switch")
  /\ UNCHANGED <<switchVars, queueVars, klog_lock, IF_, created>>

(* The idle task_t of the CPU that entered the loop keeps its rsp.         *)
WorkerSwitch(c) ==
  /\ At(c, "loop_switch")
  /\ scheduler_context_switch(c, Idle(c), Top(c).task, "loop_back")
  /\ UNCHANGED <<taskVars, queueVars, klog_lock, IF_, created>>

-----------------------------------------------------------------------------
(* test_task logs, computes, logs and returns into task_exit.              *)
test_task(c) ==
  /\ \E from \in {<<"body", "work">>, <<"work", "exit">>} :
       At(c, from[1]) /\ klog(c, from[2])
  /\ UNCHANGED <<switchVars, taskVars, queueVars, created>>

(* task_exit takes its CPU, logs, and then ends the current task of that   *)
(* CPU.                                                                    *)
ExitLog(c) ==
  /\ At(c, "exit")
  /\ LogOnCpu(c, "exit_dead")
  /\ UNCHANGED <<switchVars, taskVars, queueVars, created>>

task_exit(c) ==
  /\ At(c, "exit_dead")
  /\ state' = [state EXCEPT ![current[Top(c).cpu]] = "DEAD"]
  /\ Call(c, "dead", Frame("yield", FALSE))
  /\ UNCHANGED <<switchVars, current, queueVars, klog_lock, IF_, created>>

(* The code of a task calls scheduler_yield and goes on, as log_task does. *)
TaskYields(c) ==
  /\ At(c, "work") /\ on[c] \in setup.yielders
  /\ Call(c, "work", Frame("yield", FALSE))
  /\ UNCHANGED <<switchVars, taskVars, queueVars, klog_lock, IF_, created>>

(* The LAPIC timer, which only the BSP leaves unmasked: the interrupt gate *)
(* clears IF, timer_handler calls scheduler_tick.                          *)
timer_handler(c) ==
  /\ ~wild /\ c = BSP /\ IF_[c] /\ Top(c).pc \in setup.ticks
  /\ Len(stack[on[c]]) < MaxDepth
  /\ Call(c, Top(c).pc, Frame("yield", TRUE))
  /\ IF_' = [IF_ EXCEPT ![c] = FALSE]
  /\ UNCHANGED <<switchVars, taskVars, queueVars, klog_lock, created>>

-----------------------------------------------------------------------------
(* scheduler_yield, up to the lock of scheduler_dequeue.                   *)
YieldStart(c) ==
  /\ At(c, "yield")
  /\ SetTop(c, [Top(c) EXCEPT !.cpu = c, !.old = current[c], !.pc = "yield_lock"])
  /\ UNCHANGED <<switchVars, taskVars, queueVars, klog_lock, IF_, created>>

YieldLock(c) ==
  /\ At(c, "yield_lock") /\ acquire
  /\ Goto(c, "yield_pop")
  /\ UNCHANGED <<switchVars, taskVars, runq, klog_lock, IF_, created>>

YieldPop(c) ==
  /\ At(c, "yield_pop")
  /\ dequeue
  /\ SetTop(c, [Top(c) EXCEPT !.task = First, !.pc = "yield_pick"])
  /\ UNCHANGED <<switchVars, taskVars, klog_lock, IF_, created>>

OldAny(c) == Top(c).old # NULL
OldRuns(c) == Top(c).old # NULL /\ state[Top(c).old] = "RUNNING"

(* Up to the lock of scheduler_enqueue, or to the return when there is     *)
(* nothing else to run.                                                    *)
YieldPick(c) ==
  /\ At(c, "yield_pick")
  /\ LET next == IF Top(c).task = NULL THEN Idle(c) ELSE Top(c).task
     IN  IF OldRuns(c)
         THEN IF Top(c).task = NULL
              THEN Goto(c, "return") /\ UNCHANGED state
              ELSE /\ state' = [state EXCEPT ![Top(c).old] = "READY"]
                   /\ Goto(c, "requeue_lock")
         ELSE /\ SetTop(c, [Top(c) EXCEPT !.task = next, !.pc = "yield_set"])
              /\ UNCHANGED state
  /\ UNCHANGED <<switchVars, current, queueVars, klog_lock, IF_, created>>

RequeueLock(c) ==
  /\ At(c, "requeue_lock") /\ acquire
  /\ Goto(c, "requeue_link")
  /\ UNCHANGED <<switchVars, taskVars, runq, klog_lock, IF_, created>>

RequeueForget(c) ==
  /\ At(c, "requeue_link")
  /\ locked' = FALSE
  /\ Goto(c, "yield_set")
  /\ UNCHANGED <<switchVars, taskVars, runq, klog_lock, IF_, created>>
RequeueLink(c) ==
  /\ At(c, "requeue_link")
  /\ enqueue(Top(c).old)
  /\ Goto(c, "yield_set")
  /\ UNCHANGED <<switchVars, taskVars, klog_lock, IF_, created>>

YieldSet(c) ==
  /\ At(c, "yield_set")
  /\ state' = [state EXCEPT ![Top(c).task] = "RUNNING"]
  /\ current' = [current EXCEPT ![Top(c).cpu] = Top(c).task]
  /\ Goto(c, "yield_switch")
  /\ UNCHANGED <<switchVars, queueVars, klog_lock, IF_, created>>

(* The task_t that keeps the rsp of the code that yields.                  *)
SavedIdle(c) == Idle(c)
Saved(c) == IF Top(c).old = NULL THEN Idle(c) ELSE Top(c).old

YieldSwitch(c) ==
  /\ At(c, "yield_switch")
  /\ scheduler_context_switch(c, Saved(c), Top(c).task, "return")
  /\ UNCHANGED <<taskVars, queueVars, klog_lock, IF_, created>>

(* scheduler_yield returns to a task, or through iretq to what the timer   *)
(* interrupted, with the interrupt flag that code had.                     *)
YieldReturn(c) ==
  /\ At(c, "return")
  /\ Return(c)
  /\ UNCHANGED <<switchVars, taskVars, queueVars, klog_lock, created>>

-----------------------------------------------------------------------------
Klog(c) == KlogAcquire(c) \/ KlogRelease(c)
Main(c) == MainCreate(c) \/ MainLog(c) \/ MainLock(c) \/ MainLink(c)
Worker(c) == EnterLog(c) \/ Enter(c) \/ WorkerLock(c) \/ WorkerPop(c)
               \/ WorkerLog(c) \/ WorkerSet(c) \/ WorkerSwitch(c)
Task(c) == test_task(c) \/ ExitLog(c) \/ task_exit(c)
Yield(c) == YieldStart(c) \/ YieldLock(c) \/ YieldPop(c) \/ YieldPick(c)
              \/ RequeueLock(c) \/ RequeueLink(c) \/ YieldSet(c)
              \/ YieldSwitch(c) \/ YieldReturn(c)

Code(c) == Klog(c) \/ Main(c) \/ Worker(c) \/ Task(c)
Step(c) == Code(c) \/ Yield(c)

Next ==
  /\ \E c \in setup.cpus : Step(c) \/ TaskYields(c) \/ timer_handler(c)
  /\ UNCHANGED setup

Spec == Init /\ [][Next]_vars

(* A CPU does not stop executing.  On one CPU, code that is interrupted    *)
(* again and again still gets on whenever its context runs, because the    *)
(* timer leaves time between two ticks; and the code of a task ends, as    *)
(* test_task does.                                                         *)
FairSpec ==
  /\ Spec
  /\ \A c \in CPUs : WF_vars(c \in setup.cpus /\ Step(c) /\ UNCHANGED setup)
  /\ \A x \in Tasks \cup {BSP} :
       SF_vars(setup.cpus = {BSP} /\ on[BSP] = x /\ Code(BSP) /\ UNCHANGED setup)

-----------------------------------------------------------------------------
Labels == {"main", "main_log", "main_lock", "main_link", "enter", "enter_set",
           "loop", "loop_pop", "loop_got", "loop_set", "loop_switch",
           "loop_back", "body", "work", "exit", "exit_dead", "dead", "klog",
           "klog_held", "yield", "yield_lock", "yield_pop", "yield_pick",
           "requeue_lock", "requeue_link", "yield_set", "yield_switch", "return"}

(* scheduler_context_switch returns into the new task where that task left *)
(* off, or at its entry: the rsp it loads is the last one stored for a     *)
(* stack that nobody has used since (drivers/scheduler.nasm:13-27).  So no *)
(* two CPUs ever execute on the same stack.                                *)
SwitchReturnsIntoTask ==
  ~wild /\ \A c, d \in CPUs : on[c] = on[d] => c = d

Queued(t) == \E i \in 1..Len(runq) : runq[i] = t

(* A call that has taken t off the queue, or is about to put it there.     *)
Holds(frame, t) ==
  \/ frame.task = t /\ frame.pc \in {"main_link", "loop_got", "loop_set",
       "loop_switch", "yield_pick", "requeue_lock", "requeue_link",
       "yield_set", "yield_switch"}
  \/ created = t /\ frame.pc \in {"main_log", "main_lock"}
  \/ frame.old = t /\ frame.pc \in {"requeue_lock", "requeue_link"}

Holders(t) == {x \in Contexts : \E i \in 1..Len(stack[x]) : Holds(stack[x][i], t)}

(* A created task that has not exited is in one place: on the queue, in    *)
(* the hands of one CPU that is between dequeue and switch, or running.    *)
(* Only while scheduler_yield has requeued it and not yet switched away is *)
(* it both queued and running.  What the stack of an exited task holds,    *)
(* once its CPU has left it, is lost.                                      *)
NoTaskLost ==
  \A t \in 1..created :
    LET queued == Queued(t)
        held == Holders(t) # {}
        running == \E c \in CPUs : on[c] = t
        leaving == Head(stack[t]).pc \in {"yield_set", "yield_switch"}
    IN  /\ state[t] # "DEAD" => queued \/ held \/ running
        /\ ~(queued /\ held)
        /\ running /\ queued => leaving
        /\ running /\ held => Holders(t) = {t}
        /\ Cardinality(Holders(t)) <= 1
        /\ \A x \in Holders(t) : state[x] = "DEAD" => \E c \in CPUs : on[c] = x
        /\ Cardinality({i \in 1..Len(runq) : runq[i] = t}) <= 1

(* The idle task made for a CPU, and the boot stack behind it, run on that *)
(* CPU only (drivers/scheduler.c:40, 161).                                 *)
IdleStaysHome ==
  \A c, d \in CPUs : (current[d] = c \/ on[d] = c) => d = c

(* Only a task itself, by returning into task_exit, makes it exit, and a   *)
(* task that has exited never runs again, nor is it queued again.          *)
DeadIsFinal ==
  [][\A t \in Tasks :
       /\ state[t] # "DEAD" /\ state'[t] = "DEAD" =>
            \E c \in CPUs : on[c] = t /\ Top(c).pc = "exit_dead"
       /\ state[t] = "DEAD" =>
            /\ state'[t] = "DEAD"
            /\ \A c \in CPUs : on'[c] = t => on[c] = t]_vars

(* On one CPU every task that kernel_main creates runs to its end.  With   *)
(* more, the spinlock may leave a CPU waiting for ever.                    *)
TasksFinish ==
  (setup.cpus = {BSP}) ~> (\A t \in 1..setup.tasks : state[t] = "DEAD")
=============================================================================
