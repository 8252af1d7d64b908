-------------------------- MODULE SchedulerProofs ---------------------------
(***************************************************************************)
(* The scheduler without the timer interrupt, for any number of CPUs and   *)
(* of tasks: the tasks run to their end and yield only in task_exit, as    *)
(* test_task does.  With the timer on more than one CPU the same           *)
(* properties do not hold (see the run sched_smp_tick).                    *)
(***************************************************************************)
EXTENDS Scheduler, FiniteSetTheorems, SequenceTheorems, TLAPS

Cooperative == \A s \in Setups : s.ticks = {} /\ s.yielders = {}

(* A stack has one call, of the code of its context, and at most one more, *)
(* of klog or scheduler_yield.                                             *)
Frames == [pc : Labels, cpu : CPUs \cup {NULL}, old : Contexts \cup {NULL},
           task : Contexts \cup {NULL}, iret : BOOLEAN]
NoFrame == Frame("none", FALSE)
IsStack(s) == s \in Seq(Frames) /\ Len(s) \in {1, 2}
Base(s) == IF Len(s) = 2 THEN s[2] ELSE s[1]
Sub(s) == IF Len(s) = 2 THEN s[1] ELSE NoFrame

MainLabels == {"main", "main_log", "main_lock", "main_link"}
LoopLabels == {"loop", "loop_pop", "loop_got", "loop_set", "loop_switch", "loop_back"}
BootLabels == MainLabels \cup LoopLabels \cup {"enter", "enter_set"}
TaskLabels == {"body", "work", "exit", "exit_dead", "dead"}
KlogLabels == {"klog", "klog_held"}
YieldLabels == {"yield", "yield_lock", "yield_pop", "yield_pick", "yield_set",
                "yield_switch", "return"}

(* The inductive invariant.                                                *)
TypeOK ==
  /\ setup \in Setups
  /\ on \in [CPUs -> Contexts]
  /\ stack = [x \in Contexts |-> stack[x]] /\ \A x \in Contexts : IsStack(stack[x])
  /\ rsp \in [Contexts -> Contexts \cup {NULL}]
  /\ top \in [Contexts -> Contexts \cup {NULL}]
  /\ state \in [Contexts -> {"READY", "RUNNING", "DEAD"}]
  /\ current \in [CPUs -> Contexts \cup {NULL}]
  /\ runq \in Seq(Tasks)
  /\ created \in 0..NTasks
  /\ wild = FALSE

(* The calls on the boot stack of CPU x, and on the stack of task x.       *)
BootCalls(x) ==
  LET f == Base(stack[x])
  IN  /\ f.pc \in BootLabels
      /\ Sub(stack[x]).pc \in {"none"} \cup KlogLabels
      /\ f.pc \in MainLabels => x = BSP
      /\ f.pc = "enter_set" => f.cpu = x
      /\ f.pc \in LoopLabels => f.cpu = x /\ rsp[x] = x
      /\ f.pc \in {"main_log", "main_lock", "main_link"} => created \in Tasks
      /\ f.pc = "main_link" => f.task = created
      /\ f.pc \in {"loop_got", "loop_set", "loop_switch"} => f.task \in Tasks
      /\ f.pc = "loop_switch" => current[x] = f.task
TaskCalls(x) ==
  LET f == Base(stack[x])
      g == Sub(stack[x])
  IN  /\ f.pc \in TaskLabels
      /\ g.pc \in {"none"} \cup KlogLabels \cup YieldLabels
      /\ f.pc = "dead" <=> g.pc \in YieldLabels
      /\ f.pc = "dead" => state[x] = "DEAD"

(* CPU c is on its boot stack, or on the stack of a task while its boot    *)
(* stack waits in the loop.  The yield of a task that ends goes on there   *)
(* or with the next task.                                                  *)
OnTask(c) ==
  LET f == Base(stack[on[c]])
      g == Sub(stack[on[c]])
  IN  /\ on[c] \in Tasks /\ on[c] <= created
      /\ f.pc = "exit_dead" => f.cpu = c
      /\ Base(stack[c]).pc = "loop_back" /\ Sub(stack[c]).pc = "none"
      /\ top[c] = c
      /\ g.pc # "return"
      /\ g.pc \in YieldLabels \ {"yield"} => g.cpu = c /\ g.old = on[c]
      /\ g.pc = "yield_pick" => g.task \in Tasks \cup {NULL}
      /\ g.pc \in {"yield_set", "yield_switch"} => g.task \in Tasks \cup {c}
      /\ current[c] = IF g.pc = "yield_switch" THEN g.task ELSE on[c]

CpuInv ==
  /\ \A x \in CPUs : BootCalls(x)
  /\ \A x \in Tasks : TaskCalls(x)
  /\ \A c \in CPUs : on[c] = c \/ OnTask(c)
  /\ \A c \in CPUs : current[c] \in Tasks \cup {NULL, c}
  /\ \A c, d \in CPUs : on[c] = on[d] => c = d

(* The task that the code on stack x has in its hands, if any.             *)
HandOf(f, g) ==
  IF f.pc \in {"main_log", "main_lock"} THEN created
  ELSE IF f.pc \in {"main_link", "loop_got", "loop_set", "loop_switch"} THEN f.task
  ELSE IF g.pc \in {"yield_pick", "yield_set", "yield_switch"} THEN g.task
  ELSE NULL
Hand(x) == HandOf(Base(stack[x]), Sub(stack[x]))

(* No CPU has executed on the stack of t yet.                              *)
Fresh(t) ==
  /\ rsp[t] = t /\ top[t] = t /\ state[t] # "DEAD"
  /\ stack[t] = <<Frame("body", FALSE)>>
  /\ \A c \in CPUs : on[c] # t

(* Task t is in one place.                                                 *)
PlaceOf(t) ==
  /\ t > created => Fresh(t)
  /\ Queued(t) => t <= created /\ Fresh(t)
  /\ \A x \in Contexts : Hand(x) = t =>
       /\ t <= created /\ Fresh(t) /\ ~Queued(t)
       /\ x \in Tasks => \E c \in CPUs : on[c] = x
  /\ \A x, y \in Contexts : Hand(x) = t /\ Hand(y) = t => x = y
  /\ t <= created => \/ state[t] = "DEAD" \/ Queued(t)
                     \/ \E x \in Contexts : Hand(x) = t
                     \/ \E c \in CPUs : on[c] = t
PlaceInv ==
  /\ \A i, j \in 1..Len(runq) : runq[i] = runq[j] => i = j
  /\ \A t \in Tasks : PlaceOf(t)

IInv == TypeOK /\ CpuInv /\ PlaceInv

-----------------------------------------------------------------------------
(* Stacks of one or two calls.                                             *)
LEMMA Labelled == "none" \notin Labels
BY DEF Labels

LEMMA OneCall ==
  ASSUME NEW f \in Frames
  PROVE  IsStack(<<f>>) /\ Base(<<f>>) = f /\ Sub(<<f>>) = NoFrame
BY DEF IsStack, Base, Sub

LEMMA TwoCalls ==
  ASSUME NEW f \in Frames, NEW g \in Frames
  PROVE  IsStack(<<g, f>>) /\ Base(<<g, f>>) = f /\ Sub(<<g, f>>) = g
BY DEF IsStack, Base, Sub

LEMMA StackCases ==
  ASSUME NEW s, IsStack(s)
  PROVE  \/ \E f \in Frames : s = <<f>>
         \/ \E f, g \in Frames : s = <<g, f>>
<1>1. CASE Len(s) = 1
  <2>1. s = <<s[1]>> /\ s[1] \in Frames
    BY <1>1 DEF IsStack
  <2>2. QED
    BY <2>1
<1>2. CASE Len(s) = 2
  <2>1. s = <<s[1], s[2]>> /\ s[1] \in Frames /\ s[2] \in Frames
    BY <1>2 DEF IsStack
  <2>2. QED
    BY <2>1
<1>3. QED
  BY <1>1, <1>2 DEF IsStack

(* What the sequence operators of the model do to them.                    *)
LEMMA Tuples ==
  ASSUME NEW f, NEW g, NEW h, NEW k
  PROVE  /\ Head(<<f>>) = f /\ Head(<<g, f>>) = g
         /\ Tail(<<f>>) = << >> /\ Tail(<<g, f>>) = <<f>>
         /\ <<h>> \o << >> = <<h>>
         /\ <<h>> \o <<f>> = <<h, f>>
         /\ <<h, k>> \o << >> = <<h, k>>
<1>1. Head(<<f>>) = f /\ Head(<<g, f>>) = g
  OBVIOUS
<1>2. Tail(<<f>>) = << >>
  OBVIOUS
<1>3. Tail(<<g, f>>) = <<f>>
  OBVIOUS
<1>4. <<h>> \o << >> = <<h>>
  OBVIOUS
<1>5. <<h>> \o <<f>> = <<h, f>>
  <2>1. /\ <<h>> \in Seq({h, f}) /\ <<f>> \in Seq({h, f}) /\ <<h, f>> \in Seq({h, f})
        /\ Len(<<h>>) = 1 /\ Len(<<f>>) = 1 /\ Len(<<h, f>>) = 2
        /\ <<h>>[1] = h /\ <<f>>[1] = f /\ <<h, f>>[1] = h /\ <<h, f>>[2] = f
    OBVIOUS
  <2>2. PICK u : u = <<h>> \o <<f>>
    OBVIOUS
  <2>3. u \in Seq({h, f}) /\ Len(u) = 2 /\ u[1] = h /\ u[2] = f
    BY <2>1, <2>2, ConcatProperties
  <2>4. \A i \in 1..2 : u[i] = <<h, f>>[i]
    BY <2>1, <2>3
  <2>5. QED
    BY <2>1, <2>2, <2>3, <2>4, SeqEqual
<1>6. <<h, k>> \o << >> = <<h, k>>
  OBVIOUS
<1>7. QED
  BY <1>1, <1>2, <1>3, <1>4, <1>5, <1>6

(* The innermost call, and what the operators of the model do to a stack.  *)
LEMMA TopCall ==
  ASSUME NEW s, IsStack(s)
  PROVE  /\ Base(s) \in Frames
         /\ Sub(s) = NoFrame \/ Sub(s) \in Frames
         /\ Sub(s).pc = "none" <=> Sub(s) = NoFrame
         /\ Sub(s).pc = "none" => Head(s) = Base(s)
         /\ Sub(s).pc # "none" => Head(s) = Sub(s)
<1>1. NoFrame.pc = "none" /\ \A f \in Frames : f.pc # "none"
  BY Labelled DEF NoFrame, Frame, Frames
<1>2. CASE \E f \in Frames : s = <<f>>
  <2>1. PICK f \in Frames : s = <<f>>
    BY <1>2
  <2>2. Base(s) = f /\ Sub(s) = NoFrame /\ Head(s) = f
    BY <2>1, OneCall, Tuples
  <2>3. QED
    BY <1>1, <2>2
<1>3. CASE \E f, g \in Frames : s = <<g, f>>
  BY <1>1, <1>3, TwoCalls, Tuples
<1>4. QED
  BY <1>2, <1>3, StackCases

LEMMA ReplaceTop ==
  ASSUME NEW s, IsStack(s), NEW h \in Frames, NEW u, u = <<h>> \o Tail(s)
  PROVE  /\ IsStack(u)
         /\ Sub(s).pc = "none" => Base(u) = h /\ Sub(u) = NoFrame
         /\ Sub(s).pc # "none" => Base(u) = Base(s) /\ Sub(u) = h
<1>1. NoFrame.pc = "none" /\ \A f \in Frames : f.pc # "none"
  BY Labelled DEF NoFrame, Frame, Frames
<1>2. ASSUME NEW f \in Frames, s = <<f>>
      PROVE  u = <<h>> /\ Sub(s).pc = "none"
  BY <1>1, <1>2, OneCall, Tuples
<1>3. ASSUME NEW f \in Frames, NEW g \in Frames, s = <<g, f>>
      PROVE  u = <<h, f>> /\ Sub(s).pc # "none" /\ Base(s) = f
  BY <1>1, <1>3, TwoCalls, Tuples
<1>4. CASE \E f \in Frames : s = <<f>>
  <2>1. u = <<h>> /\ Sub(s).pc = "none"
    BY <1>2, <1>4
  <2>2. QED
    BY <2>1, OneCall
<1>5. CASE \E f, g \in Frames : s = <<g, f>>
  <2>1. PICK f \in Frames : u = <<h, f>> /\ Sub(s).pc # "none" /\ Base(s) = f
    BY <1>3, <1>5
  <2>2. QED
    BY <2>1, TwoCalls
<1>6. QED
  BY <1>4, <1>5, StackCases

LEMMA PushCall ==
  ASSUME NEW s, IsStack(s), Sub(s).pc = "none",
         NEW h \in Frames, NEW k \in Frames, NEW u, u = <<h, k>> \o Tail(s)
  PROVE  IsStack(u) /\ Base(u) = k /\ Sub(u) = h
<1>1. \A f \in Frames : f.pc # "none"
  BY Labelled DEF Frames
<1>2. PICK f \in Frames : s = <<f>>
  BY <1>1, StackCases, TwoCalls
<1>3. u = <<h, k>>
  BY <1>2, Tuples
<1>4. QED
  BY <1>3, TwoCalls

LEMMA PopCall ==
  ASSUME NEW s, IsStack(s), Sub(s).pc # "none", NEW u, u = Tail(s)
  PROVE  IsStack(u) /\ Base(u) = Base(s) /\ Sub(u) = NoFrame
<1>1. NoFrame.pc = "none"
  BY DEF NoFrame, Frame
<1>2. PICK f \in Frames, g \in Frames : s = <<g, f>>
  BY <1>1, StackCases, OneCall
<1>3. u = <<f>> /\ Base(s) = f
  BY <1>2, Tuples, TwoCalls
<1>4. QED
  BY <1>3, OneCall

LEMMA FrameIs ==
  ASSUME NEW l \in Labels, NEW b \in BOOLEAN
  PROVE  /\ Frame(l, b) \in Frames
         /\ Frame(l, b).pc = l /\ Frame(l, b).cpu = NULL
         /\ Frame(l, b).old = NULL /\ Frame(l, b).task = NULL
BY DEF Frame, Frames

-----------------------------------------------------------------------------
LEMMA Constants ==
  /\ BSP \in CPUs /\ CPUs \subseteq Contexts /\ Tasks \subseteq Contexts
  /\ NULL \notin CPUs /\ NULL \notin Tasks /\ NULL \notin Contexts
  /\ \A c \in CPUs : c \notin Tasks
  /\ Contexts = Tasks \cup CPUs
  /\ NTasks \in Nat
  /\ \A t : t \in Tasks <=> t \in Nat /\ 1 <= t /\ t <= NTasks
BY SchedulerAssumption DEF Contexts, Tasks

(* A step of CPU c on the stack x it executes on.                          *)
Local(c, x) ==
  /\ x = on[c]
  /\ setup' = setup /\ on' = on /\ top' = top /\ wild' = wild
  /\ DOMAIN stack' = Contexts /\ stack' = [y \in Contexts |-> stack'[y]]
  /\ IsStack(stack'[x])
  /\ \A y \in Contexts : y # x => stack'[y] = stack[y]
  /\ rsp' \in [Contexts -> Contexts \cup {NULL}]
  /\ \A y \in Contexts : y # c => rsp'[y] = rsp[y]
  /\ rsp'[c] \in {rsp[c], c}
  /\ state' \in [Contexts -> {"READY", "RUNNING", "DEAD"}]
  /\ \A y \in Tasks : state[y] = "DEAD" => state'[y] = "DEAD"
  /\ \A y \in Tasks : state'[y] = "DEAD" =>
       state[y] = "DEAD" \/ (y = x /\ Top(c).pc = "exit_dead")
  /\ current' \in [CPUs -> Contexts \cup {NULL}]
  /\ \A d \in CPUs : d # c => current'[d] = current[d]
  /\ current'[c] \in Tasks \cup {NULL, c}
  /\ runq' \in Seq(Tasks)
  /\ created' \in 0..NTasks /\ created <= created'
  /\ created' # created => x = BSP
  /\ x \in CPUs => BootCalls(x)'
  /\ x \in Tasks => TaskCalls(x)' /\ OnTask(c)'

LEMMA LocalStep ==
  ASSUME IInv, NEW c \in CPUs, NEW x, Local(c, x)
  PROVE  /\ TypeOK' /\ CpuInv'
         /\ \A t \in Tasks : Fresh(t) => Fresh(t)'
         /\ \A y \in Contexts : y # x => Hand(y)' = Hand(y)
<1>1. TypeOK'
  BY DEF IInv, TypeOK, Local
<1>2. x \in Contexts /\ (x = c \/ x \in Tasks)
  BY DEF Local, IInv, TypeOK, CpuInv, OnTask
<1>3. ASSUME NEW y \in CPUs PROVE BootCalls(y)'
  <2>1. CASE y = x
    BY <2>1 DEF Local
  <2>2. CASE y # x
    <3>1. BootCalls(y) /\ stack'[y] = stack[y]
      BY <2>2, Constants DEF IInv, CpuInv, Local
    <3>2. rsp[y] = y => rsp'[y] = y
      BY <2>2, Constants DEF Local
    <3>6. Base(stack[y]).pc = "loop_switch" => current'[y] = current[y]
      <4>1. CASE y # c
        BY <4>1 DEF Local
      <4>2. CASE y = c
        <5>1. OnTask(c)
          BY <2>2, <4>2 DEF Local, IInv, CpuInv
        <5>2. QED
          BY <4>2, <5>1 DEF OnTask
      <4>3. QED
        BY <4>1, <4>2
    <3>3. CASE created' = created
      BY <3>1, <3>2, <3>3, <3>6 DEF BootCalls
    <3>4. CASE created' # created
      <4>1. y # BSP
        BY <2>2, <3>4 DEF Local
      <4>2. Base(stack[y]).pc \notin MainLabels
        BY <3>1, <4>1 DEF BootCalls
      <4>3. QED
        BY <3>1, <3>2, <3>6, <4>1, <4>2 DEF BootCalls, MainLabels
    <3>5. QED
      BY <3>3, <3>4
  <2>3. QED
    BY <2>1, <2>2
<1>4. ASSUME NEW y \in Tasks PROVE TaskCalls(y)'
  <2>1. CASE y = x
    BY <2>1 DEF Local
  <2>2. CASE y # x
    <3>1. TaskCalls(y) /\ stack'[y] = stack[y] /\ (state[y] = "DEAD" => state'[y] = "DEAD")
      BY <2>2, Constants DEF IInv, CpuInv, Local
    <3>2. QED
      BY <3>1 DEF TaskCalls
  <2>3. QED
    BY <2>1, <2>2
<1>5. ASSUME NEW d \in CPUs PROVE on'[d] = d \/ OnTask(d)'
  <2>1. CASE d = c
    <3>1. x = c \/ OnTask(c)'
      BY <1>2 DEF Local
    <3>2. QED
      BY <2>1, <3>1 DEF Local
  <2>2. CASE d # c
    <3>1. on[d] # x /\ on[d] \in Contexts
      BY <2>2 DEF Local, IInv, CpuInv, TypeOK
    <3>2. CASE on[d] = d
      BY <3>2 DEF Local
    <3>3. CASE OnTask(d)
      <4>1. d # x
        BY <1>2, <2>2, Constants
      <4>2. stack'[d] = stack[d] /\ stack'[on[d]] = stack[on[d]]
        BY <3>1, <4>1, Constants DEF Local
      <4>3. current'[d] = current[d] /\ top' = top /\ on' = on
        BY <2>2 DEF Local
      <4>4. on[d] <= created'
        <5>1. on[d] <= created /\ created <= created' /\ on[d] \in Nat
              /\ created \in Nat /\ created' \in Nat
          BY <3>3, Constants DEF OnTask, Local, IInv, TypeOK
        <5>2. QED
          BY <5>1
      <4>5. QED
        BY <3>3, <4>2, <4>3, <4>4 DEF OnTask
    <3>4. QED
      BY <3>2, <3>3 DEF IInv, CpuInv
  <2>3. QED
    BY <2>1, <2>2
<1>6. CpuInv'
  <2>1. \A d \in CPUs : current'[d] \in Tasks \cup {NULL, d}
    BY DEF IInv, CpuInv, Local
  <2>2. \A d, e \in CPUs : on'[d] = on'[e] => d = e
    BY DEF IInv, CpuInv, Local
  <2>3. QED
    BY <1>3, <1>4, <1>5, <2>1, <2>2 DEF CpuInv
<1>7. ASSUME NEW t \in Tasks, Fresh(t) PROVE Fresh(t)'
  <2>1. t # x /\ t # c /\ t \in Contexts
    BY <1>7, Constants DEF Fresh, Local
  <2>2. QED
    BY <1>7, <2>1 DEF Fresh, Local
<1>8. ASSUME NEW y \in Contexts, y # x PROVE Hand(y)' = Hand(y)
  <2>1. stack'[y] = stack[y]
    BY <1>8 DEF Local
  <2>2. CASE created' = created
    BY <2>1, <2>2 DEF Hand, HandOf
  <2>3. CASE created' # created
    <3>1. y # BSP
      BY <1>8, <2>3 DEF Local
    <3>2. Base(stack[y]).pc \notin MainLabels
      <4>1. CASE y \in CPUs
        BY <3>1, <4>1 DEF IInv, CpuInv, BootCalls
      <4>2. CASE y \in Tasks
        BY <4>2 DEF IInv, CpuInv, TaskCalls, TaskLabels, MainLabels
      <4>3. QED
        BY <4>1, <4>2, Constants
    <3>3. QED
      BY <2>1, <3>2 DEF Hand, HandOf, MainLabels
  <2>4. QED
    BY <2>2, <2>3
<1>9. QED
  BY <1>1, <1>6, <1>7, <1>8

-----------------------------------------------------------------------------
(* A task exits by its own task_exit only; then it stays so, and no CPU    *)
(* enters its stack.                                                       *)
Final ==
  \A t \in Tasks :
    /\ state[t] # "DEAD" /\ state'[t] = "DEAD" =>
         \E c \in CPUs : on[c] = t /\ Top(c).pc = "exit_dead"
    /\ state[t] = "DEAD" =>
         /\ state'[t] = "DEAD"
         /\ \A c \in CPUs : on'[c] = t => on[c] = t

LEMMA LocalFinal ==
  ASSUME NEW c \in CPUs, NEW x, Local(c, x)
  PROVE  Final
BY DEF Final, Local

(* A step that does not touch task t.                                      *)
LEMMA SamePlace ==
  ASSUME NEW t \in Tasks, PlaceOf(t), created \in Nat, created' \in Nat,
         t <= created' <=> t <= created,
         Fresh(t) => Fresh(t)',
         Queued(t)' <=> Queued(t),
         \A y \in Contexts : Hand(y)' = t <=> Hand(y) = t,
         state[t] = "DEAD" => state'[t] = "DEAD",
         \A c \in CPUs : on[c] = t => on'[c] = t \/ state[t] = "DEAD",
         \A y \in Tasks : Hand(y) = t => \A c \in CPUs : on[c] = y => on'[c] = y
  PROVE  PlaceOf(t)'
<1>1. t \in Nat
  BY Constants
<1>2. t > created' <=> t > created
  BY <1>1
<1>3. (t > created => Fresh(t))'
  BY <1>2 DEF PlaceOf
<1>4. (Queued(t) => t <= created /\ Fresh(t))'
  BY DEF PlaceOf
<1>5. ASSUME NEW x \in Contexts, Hand(x)' = t
      PROVE  (/\ t <= created /\ Fresh(t) /\ ~Queued(t)
              /\ x \in Tasks => \E c \in CPUs : on[c] = x)'
  BY <1>5 DEF PlaceOf
<1>6. \A x, y \in Contexts : Hand(x)' = t /\ Hand(y)' = t => x = y
  BY DEF PlaceOf
<1>7. ASSUME t <= created'
      PROVE  \/ state'[t] = "DEAD" \/ Queued(t)'
             \/ \E x \in Contexts : Hand(x)' = t
             \/ \E c \in CPUs : on'[c] = t
  BY <1>7 DEF PlaceOf
<1>8. QED
  BY <1>3, <1>4, <1>5, <1>6, <1>7 DEF PlaceOf

LEMMA LocalPlace ==
  ASSUME IInv, NEW c \in CPUs, NEW x, Local(c, x), NEW t \in Tasks,
         t <= created' <=> t <= created,
         Queued(t)' <=> Queued(t),
         Hand(x)' = t <=> Hand(x) = t
  PROVE  PlaceOf(t)'
<1>1. /\ Fresh(t) => Fresh(t)'
      /\ \A y \in Contexts : y # x => Hand(y)' = Hand(y)
  BY LocalStep
<1>2. PlaceOf(t) /\ created \in Nat /\ created' \in Nat
  BY DEF IInv, PlaceInv, TypeOK, Local
<1>3. on' = on /\ (state[t] = "DEAD" => state'[t] = "DEAD")
  BY DEF Local
<1>4. \A y \in Contexts : Hand(y)' = t <=> Hand(y) = t
  BY <1>1
<1>5. QED
  BY <1>1, <1>2, <1>3, <1>4, SamePlace

(* A step after which the same task is in the hands of the CPU.            *)
LEMMA Quiet ==
  ASSUME IInv, NEW c \in CPUs, NEW x, Local(c, x), runq' = runq, created' = created,
         \A t \in Tasks : Hand(x)' = t <=> Hand(x) = t
  PROVE  IInv' /\ Final
<1>1. TypeOK' /\ CpuInv'
  BY LocalStep
<1>2. ASSUME NEW t \in Tasks PROVE PlaceOf(t)'
  <2>1. Queued(t)' <=> Queued(t)
    BY DEF Queued
  <2>2. QED
    BY <2>1, LocalPlace
<1>3. PlaceInv'
  BY <1>2 DEF IInv, PlaceInv
<1>4. QED
  BY <1>1, <1>3, LocalFinal DEF IInv

(* A step that takes the head of the queue.                                *)
LEMMA Takes ==
  ASSUME IInv, NEW c \in CPUs, NEW x, Local(c, x), created' = created,
         \A t \in Tasks : Hand(x) # t,
         runq # << >>, runq' = Tail(runq), Hand(x)' = Head(runq)
  PROVE  IInv' /\ Final
<1>1. TypeOK' /\ CpuInv'
  BY LocalStep
<1>2. /\ runq \in Seq(Tasks) /\ Len(runq) \in Nat /\ Len(runq) > 0
      /\ \A i, j \in 1..Len(runq) : runq[i] = runq[j] => i = j
  BY DEF IInv, PlaceInv, TypeOK
<1>3. PICK h \in Tasks : h = Head(runq) /\ h = runq[1]
  BY <1>2
<1>4. Len(runq') = Len(runq) - 1 /\ \A i \in 1..Len(runq') : runq'[i] = runq[i + 1]
  BY <1>2
<1>5. \A i, j \in 1..Len(runq') : runq'[i] = runq'[j] => i = j
  BY <1>2, <1>4
<1>6. \A t \in Tasks : Queued(t)' <=> Queued(t) /\ t # h
  <2>1. ASSUME NEW t \in Tasks, Queued(t)' PROVE Queued(t) /\ t # h
    <3>1. PICK i \in 1..Len(runq') : runq'[i] = t
      BY <2>1 DEF Queued
    <3>2. i + 1 \in 1..Len(runq) /\ runq[i + 1] = t /\ i + 1 # 1 /\ 1 \in 1..Len(runq)
      BY <1>2, <1>4, <3>1
    <3>3. QED
      BY <1>2, <1>3, <3>2 DEF Queued
  <2>2. ASSUME NEW t \in Tasks, Queued(t), t # h PROVE Queued(t)'
    <3>1. PICK i \in 1..Len(runq) : runq[i] = t
      BY <2>2 DEF Queued
    <3>2. i # 1
      BY <1>3, <2>2, <3>1
    <3>3. PICK j \in Nat : j + 1 = i /\ j \in 1..Len(runq')
      <4>1. i - 1 \in Nat /\ (i - 1) + 1 = i /\ i - 1 \in 1..Len(runq')
        BY <1>2, <1>4, <3>1, <3>2
      <4>2. QED
        BY <4>1
    <3>4. runq'[j] = t
      BY <1>4, <3>1, <3>3
    <3>5. QED
      BY <3>3, <3>4 DEF Queued
  <2>3. QED
    BY <2>1, <2>2
<1>7. ASSUME NEW t \in Tasks, t # h PROVE PlaceOf(t)'
  <2>1. (Queued(t)' <=> Queued(t)) /\ Hand(x)' # t
    BY <1>3, <1>6, <1>7
  <2>2. QED
    BY <2>1, LocalPlace
<1>8. PlaceOf(h)'
  <2>1. Queued(h) /\ PlaceOf(h)
    BY <1>2, <1>3 DEF Queued, IInv, PlaceInv
  <2>2. h <= created /\ Fresh(h) /\ \A y \in Contexts : Hand(y) # h
    BY <2>1 DEF PlaceOf
  <2>3. Fresh(h)' /\ (\A y \in Contexts : y # x => Hand(y)' = Hand(y))
    BY <2>2, LocalStep
  <2>4. ~Queued(h)' /\ Hand(x)' = h /\ \A y \in Contexts : y # x => Hand(y)' # h
    BY <1>3, <1>6, <2>2, <2>3
  <2>5. x \in Contexts /\ on'[c] = x
    BY DEF Local, IInv, TypeOK
  <2>6. h <= created' /\ ~(h > created')
    BY <2>2, Constants DEF IInv, TypeOK
  <2>7. QED
    BY <2>3, <2>4, <2>5, <2>6 DEF PlaceOf
<1>9. QED
  BY <1>1, <1>5, <1>7, <1>8, LocalFinal DEF IInv, PlaceInv

(* A step that puts the task in hand on the queue.                         *)
LEMMA Puts ==
  ASSUME IInv, NEW c \in CPUs, NEW x, Local(c, x), created' = created,
         NEW h \in Tasks, Hand(x) = h, runq' = Append(runq, h),
         \A t \in Tasks : Hand(x)' # t
  PROVE  IInv' /\ Final
<1>1. TypeOK' /\ CpuInv'
  BY LocalStep
<1>2. /\ runq \in Seq(Tasks) /\ Len(runq) \in Nat
      /\ \A i, j \in 1..Len(runq) : runq[i] = runq[j] => i = j
  BY DEF IInv, PlaceInv, TypeOK
<1>3. x \in Contexts /\ PlaceOf(h)
  BY DEF Local, IInv, TypeOK, PlaceInv
<1>4. h <= created /\ Fresh(h) /\ ~Queued(h) /\ \A y \in Contexts : y # x => Hand(y) # h
  BY <1>3 DEF PlaceOf
<1>5. /\ Len(runq') = Len(runq) + 1 /\ runq'[Len(runq')] = h
      /\ \A i \in 1..Len(runq) : runq'[i] = runq[i]
  BY <1>2
<1>6. \A i \in 1..Len(runq) : runq[i] # h
  BY <1>4 DEF Queued
<1>7. \A i, j \in 1..Len(runq') : runq'[i] = runq'[j] => i = j
  <2>1. ASSUME NEW i \in 1..Len(runq'), NEW j \in 1..Len(runq'), runq'[i] = runq'[j], i # j
        PROVE  FALSE
    <3>1. CASE i \in 1..Len(runq) /\ j \in 1..Len(runq)
      BY <1>2, <1>5, <2>1, <3>1
    <3>2. CASE i \in 1..Len(runq) /\ j = Len(runq')
      BY <1>5, <1>6, <2>1, <3>2
    <3>3. CASE j \in 1..Len(runq) /\ i = Len(runq')
      BY <1>5, <1>6, <2>1, <3>3
    <3>4. QED
      BY <1>2, <1>5, <2>1, <3>1, <3>2, <3>3
  <2>2. QED
    BY <2>1
<1>8. \A t \in Tasks : Queued(t)' <=> Queued(t) \/ t = h
  <2>1. Queued(h)'
    BY <1>2, <1>5 DEF Queued
  <2>2. ASSUME NEW t \in Tasks, Queued(t) PROVE Queued(t)'
    BY <1>2, <1>5, <2>2 DEF Queued
  <2>3. ASSUME NEW t \in Tasks, Queued(t)', t # h PROVE Queued(t)
    <3>1. PICK i \in 1..Len(runq') : runq'[i] = t
      BY <2>3 DEF Queued
    <3>2. i # Len(runq')
      BY <1>5, <2>3, <3>1
    <3>3. i \in 1..Len(runq)
      BY <1>2, <1>5, <3>1, <3>2
    <3>4. QED
      BY <1>5, <3>1, <3>3 DEF Queued
  <2>4. QED
    BY <2>1, <2>2, <2>3
<1>9. ASSUME NEW t \in Tasks, t # h PROVE PlaceOf(t)'
  <2>1. (Queued(t)' <=> Queued(t)) /\ Hand(x)' # t /\ Hand(x) # t
    BY <1>8, <1>9
  <2>2. QED
    BY <2>1, LocalPlace
<1>10. PlaceOf(h)'
  <2>1. Fresh(h)' /\ (\A y \in Contexts : y # x => Hand(y)' = Hand(y))
    BY <1>4, LocalStep
  <2>2. Queued(h)' /\ \A y \in Contexts : Hand(y)' # h
    BY <1>4, <1>8, <2>1
  <2>3. h <= created' /\ ~(h > created')
    BY <1>4, Constants DEF IInv, TypeOK
  <2>4. QED
    BY <2>1, <2>2, <2>3 DEF PlaceOf
<1>11. QED
  BY <1>1, <1>7, <1>9, <1>10, LocalFinal DEF IInv, PlaceInv

(* A step that creates the next task.                                      *)
LEMMA Creates ==
  ASSUME IInv, NEW c \in CPUs, NEW x, Local(c, x), runq' = runq,
         created' = created + 1, Hand(x)' = created',
         \A t \in Tasks : Hand(x) # t
  PROVE  IInv' /\ Final
<1>1. TypeOK' /\ CpuInv'
  BY LocalStep
<1>2. \A t \in Tasks : Queued(t)' <=> Queued(t)
  BY DEF Queued
<1>3. PICK h \in Tasks : h = created' /\ h > created /\ ~(h <= created)
  BY Constants DEF Local, IInv, TypeOK
<1>4. ASSUME NEW t \in Tasks, t # h PROVE PlaceOf(t)'
  <2>1. Hand(x)' # t
    BY <1>3, <1>4
  <2>2. t <= created' <=> t <= created
    BY <1>3, <1>4, Constants DEF IInv, TypeOK
  <2>3. QED
    BY <1>2, <2>1, <2>2, LocalPlace
<1>5. PlaceOf(h)'
  <2>1. PlaceOf(h)
    BY DEF IInv, PlaceInv
  <2>2. Fresh(h) /\ ~Queued(h) /\ \A y \in Contexts : Hand(y) # h
    BY <1>3, <2>1 DEF PlaceOf
  <2>3. Fresh(h)' /\ (\A y \in Contexts : y # x => Hand(y)' = Hand(y))
    BY <2>2, LocalStep
  <2>4. ~Queued(h)' /\ Hand(x)' = h /\ \A y \in Contexts : y # x => Hand(y)' # h
    BY <1>2, <1>3, <2>2, <2>3
  <2>5. x \in Contexts /\ on'[c] = x
    BY DEF Local, IInv, TypeOK
  <2>6. h <= created' /\ ~(h > created')
    BY <1>3, Constants
  <2>7. QED
    BY <2>3, <2>4, <2>5, <2>6 DEF PlaceOf
<1>6. QED
  BY <1>1, <1>4, <1>5, LocalFinal DEF IInv, PlaceInv

-----------------------------------------------------------------------------
(* The stack x becomes a call f with a call g in it.                       *)
Becomes(x, f, g) ==
  /\ DOMAIN stack' = Contexts /\ stack' = [y \in Contexts |-> stack'[y]]
  /\ \A y \in Contexts : y # x => stack'[y] = stack[y]
  /\ IsStack(stack'[x])
  /\ Base(stack'[x]) = f /\ Sub(stack'[x]) = g

LEMMA SetsBase ==
  ASSUME TypeOK, NEW c \in CPUs, NEW x, x = on[c], Sub(stack[x]).pc = "none",
         NEW h \in Frames, SetTop(c, h)
  PROVE  Becomes(x, h, NoFrame)
<1>1. x \in Contexts /\ IsStack(stack[x])
  BY DEF TypeOK
<1>2. stack' = [stack EXCEPT ![x] = <<h>> \o Tail(stack[x])]
  BY DEF SetTop
<1>3. stack'[x] = <<h>> \o Tail(stack[x])
  BY <1>1, <1>2 DEF TypeOK
<1>4. IsStack(stack'[x]) /\ Base(stack'[x]) = h /\ Sub(stack'[x]) = NoFrame
  <2>1. PICK s, u : s = stack[x] /\ u = stack'[x]
    OBVIOUS
  <2>2. IsStack(s) /\ u = <<h>> \o Tail(s) /\ Sub(s) = Sub(stack[x])
    BY <1>1, <1>3, <2>1
  <2>3. /\ IsStack(u)
        /\ Sub(s).pc = "none" => Base(u) = h /\ Sub(u) = NoFrame
        /\ Sub(s).pc # "none" => Base(u) = Base(s) /\ Sub(u) = h
    BY <2>2, ReplaceTop
  <2>4. QED
    BY <2>1, <2>2, <2>3
<1>5. QED
  BY <1>2, <1>4 DEF Becomes, TypeOK

LEMMA SetsSub ==
  ASSUME TypeOK, NEW c \in CPUs, NEW x, x = on[c], Sub(stack[x]).pc # "none",
         NEW h \in Frames, SetTop(c, h)
  PROVE  Becomes(x, Base(stack[x]), h)
<1>1. x \in Contexts /\ IsStack(stack[x])
  BY DEF TypeOK
<1>2. stack' = [stack EXCEPT ![x] = <<h>> \o Tail(stack[x])]
  BY DEF SetTop
<1>3. stack'[x] = <<h>> \o Tail(stack[x])
  BY <1>1, <1>2 DEF TypeOK
<1>4. IsStack(stack'[x]) /\ Base(stack'[x]) = Base(stack[x]) /\ Sub(stack'[x]) = h
  <2>1. PICK s, u : s = stack[x] /\ u = stack'[x]
    OBVIOUS
  <2>2. IsStack(s) /\ u = <<h>> \o Tail(s) /\ Sub(s) = Sub(stack[x])
    BY <1>1, <1>3, <2>1
  <2>3. /\ IsStack(u)
        /\ Sub(s).pc = "none" => Base(u) = h /\ Sub(u) = NoFrame
        /\ Sub(s).pc # "none" => Base(u) = Base(s) /\ Sub(u) = h
    BY <2>2, ReplaceTop
  <2>4. QED
    BY <2>1, <2>2, <2>3
<1>5. QED
  BY <1>2, <1>4 DEF Becomes, TypeOK

LEMMA Pushes ==
  ASSUME TypeOK, NEW c \in CPUs, NEW x, x = on[c], Sub(stack[x]).pc = "none",
         NEW h \in Frames, NEW k \in Frames,
         stack' = [stack EXCEPT ![x] = <<h, k>> \o Tail(stack[x])]
  PROVE  Becomes(x, k, h)
<1>1. x \in Contexts /\ IsStack(stack[x])
  BY DEF TypeOK
<1>2. stack'[x] = <<h, k>> \o Tail(stack[x])
  BY <1>1 DEF TypeOK
<1>3. IsStack(stack'[x]) /\ Base(stack'[x]) = k /\ Sub(stack'[x]) = h
  <2>1. PICK s, u : s = stack[x] /\ u = stack'[x]
    OBVIOUS
  <2>2. IsStack(s) /\ u = <<h, k>> \o Tail(s) /\ Sub(s).pc = "none"
    BY <1>1, <1>2, <2>1
  <2>3. IsStack(u) /\ Base(u) = k /\ Sub(u) = h
    BY <2>2, PushCall
  <2>4. QED
    BY <2>1, <2>3
<1>4. QED
  BY <1>3 DEF Becomes, TypeOK

LEMMA Returns ==
  ASSUME TypeOK, NEW c \in CPUs, NEW x, x = on[c], Sub(stack[x]).pc # "none", Return(c)
  PROVE  Becomes(x, Base(stack[x]), NoFrame)
<1>1. x \in Contexts /\ IsStack(stack[x])
  BY DEF TypeOK
<1>2. stack' = [stack EXCEPT ![x] = Tail(stack[x])]
  BY DEF Return
<1>3. stack'[x] = Tail(stack[x])
  BY <1>1, <1>2 DEF TypeOK
<1>4. IsStack(stack'[x]) /\ Base(stack'[x]) = Base(stack[x]) /\ Sub(stack'[x]) = NoFrame
  BY <1>1, <1>3, PopCall
<1>5. QED
  BY <1>2, <1>4 DEF Becomes, TypeOK

LEMMA PcSet ==
  ASSUME NEW f \in Frames, NEW l \in Labels
  PROVE  /\ [f EXCEPT !.pc = l] \in Frames
         /\ [f EXCEPT !.pc = l].pc = l /\ [f EXCEPT !.pc = l].cpu = f.cpu
         /\ [f EXCEPT !.pc = l].old = f.old /\ [f EXCEPT !.pc = l].task = f.task
BY DEF Frames

(* Which call a label belongs to.                                          *)
LEMMA Where ==
  ASSUME IInv, NEW c \in CPUs, NEW x, x = on[c], NEW l, At(c, l)
  PROVE  /\ x \in Contexts /\ IsStack(stack[x]) /\ Base(stack[x]) \in Frames
         /\ l \in BootLabels =>
              /\ x = c /\ BootCalls(c)
              /\ Sub(stack[x]) = NoFrame /\ Sub(stack[x]).pc = "none"
              /\ Top(c) = Base(stack[x]) /\ Base(stack[x]).pc = l
         /\ l \in TaskLabels =>
              /\ x \in Tasks /\ OnTask(c) /\ TaskCalls(x) /\ l # "dead"
              /\ Sub(stack[x]) = NoFrame /\ Sub(stack[x]).pc = "none"
              /\ Top(c) = Base(stack[x]) /\ Base(stack[x]).pc = l
         /\ l \in KlogLabels =>
              /\ (x = c /\ BootCalls(c)) \/ (x \in Tasks /\ OnTask(c) /\ TaskCalls(x))
              /\ Top(c) = Sub(stack[x]) /\ Sub(stack[x]).pc = l /\ Sub(stack[x]) \in Frames
         /\ l \in YieldLabels =>
              /\ x \in Tasks /\ OnTask(c) /\ TaskCalls(x) /\ l # "return"
              /\ Base(stack[x]).pc = "dead"
              /\ Top(c) = Sub(stack[x]) /\ Sub(stack[x]).pc = l /\ Sub(stack[x]) \in Frames
         /\ l # "requeue_lock" /\ l # "requeue_link"
<1>1. x \in Contexts /\ IsStack(stack[x])
  BY DEF IInv, TypeOK
<1>2. PICK f, g : f = Base(stack[x]) /\ g = Sub(stack[x])
  OBVIOUS
<1>3. /\ f \in Frames /\ (g.pc = "none" <=> g = NoFrame) /\ (g = NoFrame \/ g \in Frames)
      /\ g.pc = "none" => Top(c) = f
      /\ g.pc # "none" => Top(c) = g
  BY <1>1, <1>2, TopCall DEF Top
<1>4. Top(c).pc = l
  BY DEF At
<1>5. CASE x = c /\ BootCalls(c)
  <2>1. f.pc \in BootLabels /\ g.pc \in {"none"} \cup KlogLabels
    BY <1>2, <1>5 DEF BootCalls
  <2>2. CASE g.pc = "none"
    <3>1. l = f.pc /\ Top(c) = f /\ g = NoFrame
      BY <1>3, <1>4, <2>2
    <3>2. l \in BootLabels /\ l \notin TaskLabels /\ l \notin KlogLabels /\ l \notin YieldLabels
          /\ l # "requeue_lock" /\ l # "requeue_link"
      BY <2>1, <3>1 DEF BootLabels, MainLabels, LoopLabels, TaskLabels, KlogLabels, YieldLabels
    <3>3. QED
      BY <1>1, <1>2, <1>3, <1>5, <2>2, <3>1, <3>2
  <2>3. CASE g.pc # "none"
    <3>1. l = g.pc /\ Top(c) = g /\ g \in Frames
      BY <1>3, <1>4, <2>3
    <3>2. l \in KlogLabels /\ l \notin TaskLabels /\ l \notin BootLabels /\ l \notin YieldLabels
          /\ l # "requeue_lock" /\ l # "requeue_link"
      BY <2>1, <2>3, <3>1 DEF BootLabels, MainLabels, LoopLabels, TaskLabels, KlogLabels, YieldLabels
    <3>3. /\ x = c /\ BootCalls(c)
          /\ Top(c) = Sub(stack[x]) /\ Sub(stack[x]).pc = l /\ Sub(stack[x]) \in Frames
      BY <1>2, <1>5, <3>1
    <3>4. QED
      BY <1>1, <1>2, <1>3, <3>2, <3>3
  <2>4. QED
    BY <2>2, <2>3
<1>6. CASE x \in Tasks /\ OnTask(c) /\ TaskCalls(x)
  <2>1. f.pc \in TaskLabels /\ g.pc \in {"none"} \cup KlogLabels \cup YieldLabels
        /\ (f.pc = "dead" <=> g.pc \in YieldLabels) /\ g.pc # "return"
    BY <1>2, <1>6 DEF TaskCalls, OnTask
  <2>2. CASE g.pc = "none"
    <3>1. l = f.pc /\ Top(c) = f /\ g = NoFrame
      BY <1>3, <1>4, <2>2
    <3>2. l \in TaskLabels /\ l \notin BootLabels /\ l \notin KlogLabels /\ l \notin YieldLabels
          /\ l # "requeue_lock" /\ l # "requeue_link" /\ l # "dead"
      BY <2>1, <2>2, <3>1 DEF BootLabels, MainLabels, LoopLabels, TaskLabels, KlogLabels, YieldLabels
    <3>3. QED
      BY <1>1, <1>2, <1>3, <1>6, <2>2, <3>1, <3>2
  <2>3. CASE g.pc \in KlogLabels
    <3>1. l = g.pc /\ Top(c) = g /\ g \in Frames
      BY <1>3, <1>4, <2>3, Labelled DEF KlogLabels, Labels
    <3>2. l \in KlogLabels /\ l \notin TaskLabels /\ l \notin BootLabels /\ l \notin YieldLabels
          /\ l # "requeue_lock" /\ l # "requeue_link"
      BY <2>3, <3>1 DEF BootLabels, MainLabels, LoopLabels, TaskLabels, KlogLabels, YieldLabels
    <3>3. QED
      BY <1>1, <1>2, <1>3, <1>6, <3>1, <3>2
  <2>4. CASE g.pc \in YieldLabels
    <3>1. l = g.pc /\ Top(c) = g /\ g \in Frames
      BY <1>3, <1>4, <2>4, Labelled DEF YieldLabels, Labels
    <3>2. l \in YieldLabels /\ l \notin TaskLabels /\ l \notin BootLabels /\ l \notin KlogLabels
          /\ l # "requeue_lock" /\ l # "requeue_link" /\ l # "return" /\ f.pc = "dead"
      BY <2>1, <2>4, <3>1 DEF BootLabels, MainLabels, LoopLabels, TaskLabels, KlogLabels, YieldLabels
    <3>3. QED
      BY <1>1, <1>2, <1>3, <1>6, <3>1, <3>2
  <2>5. QED
    BY <2>1, <2>2, <2>3, <2>4
<1>7. (x = c /\ BootCalls(c)) \/ (x \in Tasks /\ OnTask(c) /\ TaskCalls(x))
  <2>1. on[c] = c \/ OnTask(c)
    BY DEF IInv, CpuInv
  <2>2. CASE on[c] = c
    BY <2>2 DEF IInv, CpuInv
  <2>3. CASE OnTask(c)
    <3>1. x \in Tasks
      BY <2>3 DEF OnTask
    <3>2. QED
      BY <2>3, <3>1 DEF IInv, CpuInv
  <2>4. QED
    BY <2>1, <2>2, <2>3
<1>8. QED
  BY <1>5, <1>6, <1>7

-----------------------------------------------------------------------------
(* What a step of c on stack x must establish of its calls.                *)
CallsOK(c, x) ==
  /\ x \in CPUs => BootCalls(x)
  /\ x \in Tasks => TaskCalls(x) /\ OnTask(c)

LEMMA PlainLocal ==
  ASSUME IInv, NEW c \in CPUs, NEW x, x = on[c], NEW f, NEW g, Becomes(x, f, g),
         UNCHANGED <<setup, switchVars, taskVars, created>>,
         runq' \in Seq(Tasks), CallsOK(c, x)'
  PROVE  Local(c, x)
<1>1. /\ rsp \in [Contexts -> Contexts \cup {NULL}]
      /\ state \in [Contexts -> {"READY", "RUNNING", "DEAD"}]
      /\ current \in [CPUs -> Contexts \cup {NULL}]
      /\ current[c] \in Tasks \cup {NULL, c}
      /\ created \in 0..NTasks /\ created <= created
  BY Constants DEF IInv, TypeOK, CpuInv
<1>2. /\ setup' = setup /\ on' = on /\ top' = top /\ wild' = wild /\ rsp' = rsp
      /\ state' = state /\ current' = current /\ created' = created
  BY DEF switchVars, taskVars
<1>3. x \in CPUs => BootCalls(x)'
  BY DEF CallsOK
<1>4. x \in Tasks => TaskCalls(x)' /\ OnTask(c)'
  BY DEF CallsOK
<1>5. QED
  BY <1>1, <1>2, <1>3, <1>4 DEF Local, Becomes

LEMMA HandAfter ==
  ASSUME NEW x, NEW f, NEW g, Becomes(x, f, g)
  PROVE  Hand(x)' = HandOf(f, g)'
BY DEF Becomes, Hand, HandOf

(* klog takes its lock or returns.                                         *)
LEMMA InKlog ==
  ASSUME IInv, NEW c \in CPUs, NEW x, x = on[c],
         Sub(stack[x]).pc \in KlogLabels,
         NEW h, h.pc \in {"none"} \cup KlogLabels, Becomes(x, Base(stack[x]), h),
         UNCHANGED <<setup, switchVars, taskVars, runq, created>>
  PROVE  IInv' /\ Final
<1>1. PICK f, g : f = Base(stack[x]) /\ g = Sub(stack[x])
  OBVIOUS
<1>2. g.pc \in KlogLabels /\ Becomes(x, f, h) /\ x \in Contexts
  BY <1>1 DEF IInv, TypeOK
<1>3. Base(stack'[x]) = f /\ Sub(stack'[x]) = h
  BY <1>2 DEF Becomes
<1>4. g.pc \notin YieldLabels /\ h.pc \notin YieldLabels
  BY <1>2 DEF YieldLabels, KlogLabels
<1>5. /\ on' = on /\ top' = top /\ rsp' = rsp /\ state' = state
      /\ current' = current /\ created' = created
  BY DEF switchVars, taskVars
<1>6. x \in CPUs => BootCalls(x)'
  <2>1. SUFFICES ASSUME x \in CPUs PROVE BootCalls(x)'
    OBVIOUS
  <2>2. BootCalls(x)
    BY <2>1 DEF IInv, CpuInv
  <2>3. QED
    BY <1>1, <1>3, <1>5, <2>2 DEF BootCalls
<1>7. x \in Tasks => TaskCalls(x)' /\ OnTask(c)'
  <2>1. SUFFICES ASSUME x \in Tasks PROVE TaskCalls(x)' /\ OnTask(c)'
    OBVIOUS
  <2>2. TaskCalls(x) /\ OnTask(c) /\ x # c
    BY <2>1, Constants DEF IInv, CpuInv
  <2>3. stack'[c] = stack[c]
    BY <1>2, <2>2, Constants DEF Becomes
  <2>4. TaskCalls(x)'
    BY <1>1, <1>3, <1>4, <1>5, <2>2 DEF TaskCalls
  <2>5. /\ h.pc # "return" /\ h.pc # "yield_pick" /\ h.pc # "yield_switch" /\ h.pc # "yield_set"
        /\ g.pc # "return" /\ g.pc # "yield_pick" /\ g.pc # "yield_switch" /\ g.pc # "yield_set"
    BY <1>4 DEF YieldLabels
  <2>6. OnTask(c)'
    BY <1>1, <1>3, <1>4, <1>5, <2>2, <2>3, <2>5 DEF OnTask
  <2>7. QED
    BY <2>4, <2>6
<1>8. Local(c, x)
  <2>1. CallsOK(c, x)'
    BY <1>6, <1>7 DEF CallsOK
  <2>2. runq' \in Seq(Tasks)
    BY DEF IInv, TypeOK
  <2>3. QED
    BY <1>2, <2>1, <2>2, PlainLocal
<1>9. Hand(x)' = Hand(x)
  <2>1. Hand(x)' = HandOf(f, h)' /\ Hand(x) = HandOf(f, g)
    BY <1>1, <1>2, HandAfter DEF Hand
  <2>2. QED
    BY <1>2, <1>5, <2>1 DEF HandOf, KlogLabels
<1>10. QED
  BY <1>8, <1>9, Quiet

LEMMA KlogAcquireStep ==
  ASSUME IInv, NEW c \in CPUs, KlogAcquire(c), UNCHANGED setup
  PROVE  IInv' /\ Final
<1>1. PICK x : x = on[c]
  OBVIOUS
<1>2. At(c, "klog") /\ "klog" \in KlogLabels /\ "klog_held" \in Labels
  BY DEF KlogAcquire, KlogLabels, Labels
<1>3. /\ Top(c) = Sub(stack[x]) /\ Sub(stack[x]).pc = "klog" /\ Sub(stack[x]) \in Frames
  BY <1>1, <1>2, Where
<1>4. PICK h : h = [Top(c) EXCEPT !.pc = "klog_held"]
  OBVIOUS
<1>5. h \in Frames /\ h.pc = "klog_held"
  BY <1>2, <1>3, <1>4, PcSet
<1>6. SetTop(c, h)
  BY <1>4 DEF KlogAcquire, Goto
<1>7. Becomes(x, Base(stack[x]), h)
  BY <1>1, <1>3, <1>5, <1>6, SetsSub DEF IInv
<1>8. UNCHANGED <<setup, switchVars, taskVars, runq, created>>
  BY DEF KlogAcquire, queueVars
<1>9. QED
  BY <1>1, <1>3, <1>5, <1>7, <1>8, InKlog DEF KlogLabels

LEMMA KlogReleaseStep ==
  ASSUME IInv, NEW c \in CPUs, KlogRelease(c), UNCHANGED setup
  PROVE  IInv' /\ Final
<1>1. PICK x : x = on[c]
  OBVIOUS
<1>2. At(c, "klog_held") /\ "klog_held" \in KlogLabels /\ Return(c)
  BY DEF KlogRelease, KlogLabels
<1>3. Sub(stack[x]).pc = "klog_held"
  BY <1>1, <1>2, Where
<1>4. Becomes(x, Base(stack[x]), NoFrame) /\ NoFrame.pc = "none"
  BY <1>1, <1>2, <1>3, Returns DEF IInv, NoFrame, Frame
<1>5. UNCHANGED <<setup, switchVars, taskVars, runq, created>>
  BY DEF KlogRelease, queueVars
<1>6. QED
  BY <1>1, <1>3, <1>4, <1>5, InKlog DEF KlogLabels

-----------------------------------------------------------------------------
(* A call from the code of a stack.                                        *)
LEMMA Calls ==
  ASSUME IInv, NEW c \in CPUs, NEW x, x = on[c], NEW l, At(c, l),
         l \in BootLabels \cup TaskLabels,
         NEW back \in Labels, NEW h \in Frames, Call(c, back, h)
  PROVE  \E k \in Frames : /\ Becomes(x, k, h)
                           /\ k.pc = back /\ k.cpu = Base(stack[x]).cpu
                           /\ k.task = Base(stack[x]).task
<1>1. /\ Base(stack[x]) \in Frames /\ Sub(stack[x]).pc = "none"
      /\ Top(c) = Base(stack[x])
  BY Where
<1>2. PICK k : k = [Base(stack[x]) EXCEPT !.pc = back]
  OBVIOUS
<1>3. /\ k \in Frames /\ k.pc = back /\ k.cpu = Base(stack[x]).cpu
      /\ k.task = Base(stack[x]).task
  BY <1>1, <1>2, PcSet
<1>4. Head(stack[x]) = Base(stack[x])
  BY <1>1 DEF Top
<1>5. stack' = [stack EXCEPT ![x] = <<h, k>> \o Tail(stack[x])]
  BY <1>2, <1>4 DEF Call
<1>6. Becomes(x, k, h)
  BY <1>1, <1>3, <1>5, Pushes DEF IInv
<1>7. QED
  BY <1>3, <1>6

(* A call of klog after cpu_local().                                       *)
KlogCall == Frame("klog", FALSE)

LEMMA LogsOnCpu ==
  ASSUME IInv, NEW c \in CPUs, NEW x, x = on[c], NEW l, At(c, l),
         l \in BootLabels \cup TaskLabels,
         NEW back \in Labels, NEW h \in Frames, h = KlogCall, LogOnCpu(c, back)
  PROVE  \E k \in Frames : /\ Becomes(x, k, h)
                           /\ k.pc = back /\ k.cpu = c
                           /\ k.task = Base(stack[x]).task
<1>1. /\ Base(stack[x]) \in Frames /\ Sub(stack[x]).pc = "none"
      /\ Top(c) = Base(stack[x])
  BY Where
<1>2. PICK k : k = [Base(stack[x]) EXCEPT !.pc = back, !.cpu = c]
  OBVIOUS
<1>3. k \in Frames /\ k.pc = back /\ k.cpu = c /\ k.task = Base(stack[x]).task
  BY <1>1, <1>2 DEF Frames
<1>4. Head(stack[x]) = Base(stack[x])
  BY <1>1 DEF Top
<1>5. stack' = [stack EXCEPT ![x] = <<h, k>> \o Tail(stack[x])]
  BY <1>2, <1>4 DEF LogOnCpu, KlogCall
<1>6. Becomes(x, k, h)
  BY <1>1, <1>3, <1>5, Pushes DEF IInv
<1>7. QED
  BY <1>3, <1>6

LEMMA KlogFrame ==
  /\ Frame("klog", FALSE) \in Frames /\ Frame("klog", FALSE).pc = "klog"
  /\ NoFrame.pc = "none"
BY FrameIs DEF Labels, NoFrame, Frame

(* The code on a boot stack calls klog or goes on.                         *)
LEMMA BootGoesOn ==
  ASSUME IInv, NEW c \in CPUs, on[c] = c, NEW f, NEW g, Becomes(c, f, g),
         UNCHANGED <<setup, switchVars, taskVars, runq, created>>,
         g.pc \in {"none"} \cup KlogLabels, BootCalls(c)',
         \A t \in Tasks : HandOf(f, g)' = t <=> Hand(c) = t
  PROVE  IInv' /\ Final
<1>1. CallsOK(c, c)'
  BY Constants DEF CallsOK
<1>2. runq' \in Seq(Tasks)
  BY DEF IInv, TypeOK
<1>3. Local(c, c)
  BY <1>1, <1>2, PlainLocal
<1>4. Hand(c)' = HandOf(f, g)'
  BY HandAfter
<1>5. QED
  BY <1>3, <1>4, Quiet

LEMMA BootLogs ==
  ASSUME IInv, NEW c \in CPUs, NEW l, NEW back, At(c, l),
         \/ l = "main_log" /\ back = "main_lock" /\ klog(c, back)
         \/ l = "enter" /\ back = "enter_set" /\ LogOnCpu(c, back)
         \/ l = "loop_got" /\ back = "loop_set" /\ klog(c, back)
         \/ l = "loop_back" /\ back = "loop" /\ klog(c, back),
         UNCHANGED <<setup, switchVars, taskVars, runq, created>>
  PROVE  IInv' /\ Final
<1>1. l \in BootLabels /\ back \in Labels
  BY DEF BootLabels, MainLabels, LoopLabels, Labels
<1>2. PICK f, g, h : f = Base(stack[c]) /\ g = Sub(stack[c]) /\ h = Frame("klog", FALSE)
  OBVIOUS
<1>3. on[c] = c /\ BootCalls(c) /\ g.pc = "none" /\ f.pc = l
  BY <1>1, <1>2, Where
<1>4. PICK k \in Frames : /\ Becomes(c, k, h) /\ k.pc = back /\ k.task = f.task
                           /\ k.cpu = IF l = "enter" THEN c ELSE f.cpu
  <2>1. l \in BootLabels \cup TaskLabels /\ c = on[c] /\ h \in Frames
    BY <1>1, <1>2, <1>3, KlogFrame
  <2>2. CASE l = "enter"
    <3>1. LogOnCpu(c, back) /\ h = KlogCall
      BY <1>2, <2>2 DEF KlogCall
    <3>2. \E k \in Frames : /\ Becomes(c, k, h)
                             /\ k.pc = back /\ k.cpu = c
                             /\ k.task = Base(stack[c]).task
      BY <1>1, <2>1, <3>1, LogsOnCpu
    <3>3. QED
      BY <1>2, <2>2, <3>2
  <2>3. CASE l # "enter"
    <3>1. Call(c, back, h)
      BY <1>2, <2>3 DEF klog
    <3>2. \E k \in Frames : /\ Becomes(c, k, h)
                             /\ k.pc = back /\ k.cpu = Base(stack[c]).cpu
                             /\ k.task = Base(stack[c]).task
      BY <1>1, <2>1, <3>1, Calls
    <3>3. QED
      BY <1>2, <2>3, <3>2
  <2>4. QED
    BY <2>2, <2>3
<1>5. h.pc = "klog"
  BY <1>2, KlogFrame
<1>6. /\ Base(stack'[c]) = k /\ Sub(stack'[c]) = h
      /\ rsp' = rsp /\ current' = current /\ created' = created
  BY <1>4 DEF Becomes, switchVars, taskVars
<1>7. BootCalls(c)'
  BY <1>1, <1>2, <1>3, <1>4, <1>5, <1>6
     DEF BootCalls, BootLabels, MainLabels, LoopLabels, KlogLabels
<1>8. HandOf(k, h)' = HandOf(f, g)
  BY <1>3, <1>4, <1>5, <1>6 DEF HandOf
<1>9. \A t \in Tasks : HandOf(k, h)' = t <=> Hand(c) = t
  BY <1>2, <1>8 DEF Hand
<1>10. h.pc \in {"none"} \cup KlogLabels
  BY <1>5 DEF KlogLabels
<1>11. QED
  BY <1>3, <1>4, <1>7, <1>9, <1>10, BootGoesOn

LEMMA MainLogStep ==
  ASSUME IInv, NEW c \in CPUs, MainLog(c), UNCHANGED setup
  PROVE  IInv' /\ Final
<1>1. At(c, "main_log") /\ klog(c, "main_lock")
  BY DEF MainLog
<1>2. UNCHANGED <<setup, switchVars, taskVars, runq, created>>
  BY DEF MainLog, queueVars
<1>3. QED
  BY <1>1, <1>2, BootLogs

LEMMA EnterLogStep ==
  ASSUME IInv, NEW c \in CPUs, EnterLog(c), UNCHANGED setup
  PROVE  IInv' /\ Final
<1>1. At(c, "enter") /\ LogOnCpu(c, "enter_set")
  BY DEF EnterLog
<1>2. UNCHANGED <<setup, switchVars, taskVars, runq, created>>
  BY DEF EnterLog, queueVars
<1>3. QED
  BY <1>1, <1>2, BootLogs

LEMMA WorkerLogStep ==
  ASSUME IInv, NEW c \in CPUs, WorkerLog(c), UNCHANGED setup
  PROVE  IInv' /\ Final
<1>1. UNCHANGED <<setup, switchVars, taskVars, runq, created>>
  BY DEF WorkerLog, queueVars
<1>2. \/ At(c, "loop_got") /\ klog(c, "loop_set")
      \/ At(c, "loop_back") /\ klog(c, "loop")
  BY DEF WorkerLog
<1>3. CASE At(c, "loop_got") /\ klog(c, "loop_set")
  BY <1>1, <1>3, BootLogs
<1>4. CASE At(c, "loop_back") /\ klog(c, "loop")
  BY <1>1, <1>4, BootLogs
<1>5. QED
  BY <1>2, <1>3, <1>4

(* A step of a boot stack to another label of the same code.               *)
LEMMA BootSets ==
  ASSUME IInv, NEW c \in CPUs, NEW l \in BootLabels, At(c, l), NEW h \in Frames, SetTop(c, h)
  PROVE  /\ on[c] = c /\ BootCalls(c) /\ Base(stack[c]).pc = l /\ Base(stack[c]) \in Frames
         /\ Sub(stack[c]) = NoFrame /\ Top(c) = Base(stack[c])
         /\ Becomes(c, h, NoFrame) /\ Base(stack'[c]) = h /\ Sub(stack'[c]) = NoFrame
<1>1. /\ on[c] = c /\ BootCalls(c) /\ Base(stack[c]).pc = l /\ Base(stack[c]) \in Frames
      /\ Sub(stack[c]) = NoFrame /\ Top(c) = Base(stack[c]) /\ Sub(stack[c]).pc = "none"
  BY Where
<1>2. Becomes(c, h, NoFrame)
  BY <1>1, SetsBase DEF IInv
<1>3. QED
  BY <1>1, <1>2 DEF Becomes

LEMMA MainLockStep ==
  ASSUME IInv, NEW c \in CPUs, MainLock(c), UNCHANGED setup
  PROVE  IInv' /\ Final
<1>1. PICK f, h : f = Base(stack[c]) /\ h = [Top(c) EXCEPT !.pc = "main_link", !.task = created]
  OBVIOUS
<1>2. At(c, "main_lock") /\ SetTop(c, h) /\ "main_lock" \in BootLabels
  BY <1>1 DEF MainLock, BootLabels, MainLabels
<1>3. on[c] = c /\ BootCalls(c) /\ f.pc = "main_lock" /\ f \in Frames /\ Top(c) = f
  BY <1>1, <1>2, Where
<1>4. created \in Tasks
  BY <1>1, <1>3 DEF BootCalls
<1>5. h \in Frames /\ h.pc = "main_link" /\ h.task = created
  BY <1>1, <1>3, <1>4, Constants DEF Frames, Labels
<1>6. Becomes(c, h, NoFrame) /\ Base(stack'[c]) = h /\ Sub(stack'[c]) = NoFrame
      /\ Sub(stack[c]) = NoFrame
  BY <1>2, <1>5, BootSets
<1>7. UNCHANGED <<setup, switchVars, taskVars, runq, created>>
  BY DEF MainLock
<1>8. rsp' = rsp /\ current' = current /\ created' = created
  BY <1>7 DEF switchVars, taskVars
<1>9. BootCalls(c)'
  BY <1>1, <1>3, <1>4, <1>5, <1>6, <1>8, KlogFrame
     DEF BootCalls, BootLabels, MainLabels, LoopLabels
<1>10. HandOf(h, NoFrame)' = Hand(c)
  BY <1>1, <1>3, <1>5, <1>8 DEF HandOf, Hand
<1>11. QED
  BY <1>3, <1>6, <1>7, <1>9, <1>10, KlogFrame, BootGoesOn

LEMMA WorkerLockStep ==
  ASSUME IInv, NEW c \in CPUs, WorkerLock(c), UNCHANGED setup
  PROVE  IInv' /\ Final
<1>1. PICK f, h : f = Base(stack[c]) /\ h = [Top(c) EXCEPT !.pc = "loop_pop"]
  OBVIOUS
<1>2. At(c, "loop") /\ SetTop(c, h) /\ "loop" \in BootLabels /\ "loop_pop" \in Labels
  BY <1>1 DEF WorkerLock, Goto, BootLabels, LoopLabels, Labels
<1>3. on[c] = c /\ BootCalls(c) /\ f.pc = "loop" /\ f \in Frames /\ Top(c) = f
  BY <1>1, <1>2, Where
<1>4. h \in Frames /\ h.pc = "loop_pop" /\ h.cpu = f.cpu
  BY <1>1, <1>2, <1>3, PcSet
<1>5. Becomes(c, h, NoFrame) /\ Base(stack'[c]) = h /\ Sub(stack'[c]) = NoFrame
      /\ Sub(stack[c]) = NoFrame
  BY <1>2, <1>4, BootSets
<1>6. UNCHANGED <<setup, switchVars, taskVars, runq, created>>
  BY DEF WorkerLock
<1>7. rsp' = rsp /\ current' = current /\ created' = created
  BY <1>6 DEF switchVars, taskVars
<1>8. BootCalls(c)'
  BY <1>1, <1>3, <1>4, <1>5, <1>7, KlogFrame
     DEF BootCalls, BootLabels, MainLabels, LoopLabels
<1>9. HandOf(h, NoFrame)' = Hand(c)
  BY <1>1, <1>3, <1>4, <1>5, KlogFrame DEF HandOf, Hand
<1>10. QED
  BY <1>3, <1>5, <1>6, <1>8, <1>9, KlogFrame, BootGoesOn

LEMMA MainLinkStep ==
  ASSUME IInv, NEW c \in CPUs, MainLink(c), UNCHANGED setup
  PROVE  IInv' /\ Final
<1>1. PICK f, h : f = Base(stack[c]) /\ h = [Top(c) EXCEPT !.pc = "main", !.task = NULL]
  OBVIOUS
<1>2. At(c, "main_link") /\ SetTop(c, h) /\ "main_link" \in BootLabels
  BY <1>1 DEF MainLink, BootLabels, MainLabels
<1>3. on[c] = c /\ BootCalls(c) /\ f.pc = "main_link" /\ f \in Frames /\ Top(c) = f
  BY <1>1, <1>2, Where
<1>4. PICK t \in Tasks : t = f.task
  BY <1>1, <1>3 DEF BootCalls
<1>5. h \in Frames /\ h.pc = "main"
  BY <1>1, <1>3 DEF Frames, Labels
<1>6. Becomes(c, h, NoFrame) /\ Base(stack'[c]) = h /\ Sub(stack'[c]) = NoFrame
  BY <1>2, <1>5, BootSets
<1>7. runq' = Append(runq, t) /\ UNCHANGED <<setup, switchVars, taskVars, created>>
  BY <1>3, <1>4 DEF MainLink, enqueue
<1>8. runq' \in Seq(Tasks)
  BY <1>7 DEF IInv, TypeOK
<1>9. rsp' = rsp /\ current' = current /\ created' = created
  BY <1>7 DEF switchVars, taskVars
<1>10. BootCalls(c)'
  BY <1>1, <1>3, <1>5, <1>6, <1>9, KlogFrame
     DEF BootCalls, BootLabels, MainLabels, LoopLabels
<1>11. CallsOK(c, c)'
  BY <1>10, Constants DEF CallsOK
<1>12. Local(c, c)
  BY <1>3, <1>6, <1>7, <1>8, <1>11, PlainLocal
<1>13. Hand(c) = t
  BY <1>1, <1>3, <1>4 DEF Hand, HandOf
<1>14. Hand(c)' = HandOf(h, NoFrame)'
  BY <1>6, HandAfter
<1>15. Hand(c)' = NULL
  BY <1>5, <1>14, KlogFrame DEF HandOf
<1>16. \A y \in Tasks : Hand(c)' # y
  BY <1>15, Constants
<1>17. QED
  BY <1>7, <1>9, <1>12, <1>13, <1>16, Puts

LEMMA MainCreateStep ==
  ASSUME IInv, NEW c \in CPUs, MainCreate(c), UNCHANGED setup
  PROVE  IInv' /\ Final
<1>1. PICK f : f = Base(stack[c])
  OBVIOUS
<1>2. At(c, "main") /\ "main" \in BootLabels /\ "enter" \in Labels /\ "main_log" \in Labels
  BY DEF MainCreate, BootLabels, MainLabels, Labels
<1>3. /\ on[c] = c /\ BootCalls(c) /\ f.pc = "main" /\ f \in Frames /\ Top(c) = f
      /\ Sub(stack[c]) = NoFrame
  BY <1>1, <1>2, Where
<1>4. Hand(c) = NULL
  BY <1>1, <1>3, KlogFrame DEF Hand, HandOf
<1>5. c = BSP
  BY <1>1, <1>3 DEF BootCalls, MainLabels
<1>6. on' = on /\ top' = top /\ wild' = wild /\ rsp' = rsp /\ current' = current /\ runq' = runq
  BY DEF MainCreate, switchVars, queueVars
<1>7. CASE created < setup.tasks
  <2>1. /\ created' = created + 1 /\ klog(c, "main_log")
        /\ state' = [state EXCEPT ![created + 1] = "READY"]
    BY <1>7 DEF MainCreate
  <2>2. PICK h : h = Frame("klog", FALSE)
    OBVIOUS
  <2>3. h \in Frames /\ h.pc = "klog" /\ Call(c, "main_log", h)
    BY <2>1, <2>2, KlogFrame DEF klog
  <2>4. PICK k \in Frames : Becomes(c, k, h) /\ k.pc = "main_log"
    <3>1. "main" \in BootLabels \cup TaskLabels /\ c = on[c]
      BY <1>2, <1>3
    <3>2. \E k \in Frames : /\ Becomes(c, k, h)
                            /\ k.pc = "main_log" /\ k.cpu = Base(stack[c]).cpu
                            /\ k.task = Base(stack[c]).task
      BY <1>2, <2>3, <3>1, Calls
    <3>3. QED
      BY <3>2
  <2>5. Base(stack'[c]) = k /\ Sub(stack'[c]) = h
    BY <2>4 DEF Becomes
  <2>6. setup.tasks \in 0..NTasks /\ created \in 0..NTasks
    BY SchedulerAssumption DEF IInv, TypeOK
  <2>7. created' \in 0..NTasks /\ created <= created' /\ created' \in Tasks /\ created' > created
    BY <1>7, <2>1, <2>6, Constants
  <2>8. PICK t \in Tasks : t = created' /\ t > created
    BY <2>7
  <2>9. Fresh(t)
    BY <2>8 DEF IInv, PlaceInv, PlaceOf
  <2>10. /\ state' \in [Contexts -> {"READY", "RUNNING", "DEAD"}]
         /\ \A y \in Tasks : state[y] = "DEAD" => state'[y] = "DEAD"
         /\ \A y \in Tasks : y # c /\ state'[y] = "DEAD" => state[y] = "DEAD"
    BY <2>1, <2>8, <2>9, Constants DEF IInv, TypeOK, Fresh
  <2>11. BootCalls(c)'
    BY <1>5, <2>3, <2>4, <2>5, <2>7
       DEF BootCalls, BootLabels, MainLabels, LoopLabels, KlogLabels
  <2>12. /\ rsp \in [Contexts -> Contexts \cup {NULL}]
         /\ current \in [CPUs -> Contexts \cup {NULL}]
         /\ current[c] \in Tasks \cup {NULL, c}
         /\ runq \in Seq(Tasks)
    BY DEF IInv, TypeOK, CpuInv
  <2>13. Local(c, c)
    BY <1>3, <1>5, <1>6, <2>4, <2>7, <2>10, <2>11, <2>12, Constants DEF Local, Becomes
  <2>14. Hand(c)' = HandOf(k, h)'
    BY <2>4, HandAfter
  <2>15. Hand(c)' = created'
    BY <2>4, <2>14 DEF HandOf
  <2>16. \A y \in Tasks : Hand(c) # y
    BY <1>4, Constants
  <2>17. QED
    BY <1>6, <2>1, <2>13, <2>15, <2>16, Creates
<1>8. CASE ~(created < setup.tasks)
  <2>1. PICK h : h = [Top(c) EXCEPT !.pc = "enter"]
    OBVIOUS
  <2>2. SetTop(c, h) /\ state' = state /\ created' = created
    BY <1>8, <2>1 DEF MainCreate, Goto
  <2>3. h \in Frames /\ h.pc = "enter"
    BY <1>2, <1>3, <2>1, PcSet
  <2>4. Becomes(c, h, NoFrame) /\ Base(stack'[c]) = h /\ Sub(stack'[c]) = NoFrame
    BY <1>2, <2>2, <2>3, BootSets
  <2>5. BootCalls(c)'
    BY <2>3, <2>4, KlogFrame DEF BootCalls, BootLabels, MainLabels, LoopLabels
  <2>6. HandOf(h, NoFrame)' = Hand(c)
    BY <1>4, <2>3, KlogFrame DEF HandOf
  <2>7. UNCHANGED <<setup, switchVars, taskVars, runq, created>>
    BY <1>6, <2>2 DEF switchVars, taskVars
  <2>8. QED
    BY <1>3, <2>4, <2>5, <2>6, <2>7, KlogFrame, BootGoesOn
<1>9. QED
  BY <1>7, <1>8

LEMMA EnterStep ==
  ASSUME IInv, NEW c \in CPUs, Enter(c), UNCHANGED setup
  PROVE  IInv' /\ Final
<1>1. PICK f, h : f = Base(stack[c]) /\ h = Frame("klog", FALSE)
  OBVIOUS
<1>2. At(c, "enter_set") /\ "enter_set" \in BootLabels
  BY DEF Enter, BootLabels
<1>3. /\ on[c] = c /\ BootCalls(c) /\ f.pc = "enter_set" /\ f \in Frames /\ Top(c) = f
      /\ f.cpu = c /\ Idle(c) = c
      /\ Sub(stack[c]) = NoFrame /\ Sub(stack[c]).pc = "none"
  BY <1>1, <1>2, Where DEF BootCalls, Idle
<1>4. PICK k : k = [f EXCEPT !.pc = "loop"]
  OBVIOUS
<1>5. k \in Frames /\ k.pc = "loop" /\ k.cpu = c /\ h \in Frames /\ h.pc = "klog"
  BY <1>1, <1>3, <1>4, KlogFrame DEF Frames, Labels
<1>6. stack' = [stack EXCEPT ![c] = <<h, k>> \o Tail(stack[c])]
  <2>1. Head(stack[c]) = f
    BY <1>3 DEF Top
  <2>2. QED
    BY <1>1, <1>3, <1>4, <2>1 DEF Enter, klog, Call
<1>7. Becomes(c, k, h)
  BY <1>3, <1>5, <1>6, Pushes DEF IInv
<1>8. /\ rsp' = [rsp EXCEPT ![c] = c] /\ current' = [current EXCEPT ![c] = c]
      /\ on' = on /\ top' = top /\ wild' = wild /\ state' = state
      /\ runq' = runq /\ created' = created
  BY <1>3 DEF Enter, queueVars
<1>9. /\ rsp' \in [Contexts -> Contexts \cup {NULL}]
      /\ \A y \in Contexts : y # c => rsp'[y] = rsp[y]
      /\ rsp'[c] = c
      /\ current' \in [CPUs -> Contexts \cup {NULL}]
      /\ \A d \in CPUs : d # c => current'[d] = current[d]
      /\ current'[c] = c
  BY <1>8, Constants DEF IInv, TypeOK
<1>10. BootCalls(c)'
  <2>1. Base(stack'[c]) = k /\ Sub(stack'[c]) = h
    BY <1>7 DEF Becomes
  <2>2. QED
    BY <1>5, <1>9, <2>1 DEF BootCalls, BootLabels, MainLabels, LoopLabels, KlogLabels
<1>11. /\ state' \in [Contexts -> {"READY", "RUNNING", "DEAD"}]
       /\ runq' \in Seq(Tasks) /\ created' \in 0..NTasks /\ created <= created'
  BY <1>8, Constants DEF IInv, TypeOK
<1>12. Local(c, c)
  BY <1>3, <1>7, <1>8, <1>9, <1>10, <1>11, Constants DEF Local, Becomes
<1>13. Hand(c) = NULL
  BY <1>1, <1>3, KlogFrame DEF Hand, HandOf
<1>14. Hand(c)' = HandOf(k, h)'
  BY <1>7, HandAfter
<1>15. Hand(c)' = NULL
  BY <1>5, <1>14 DEF HandOf
<1>16. QED
  BY <1>8, <1>12, <1>13, <1>15, Quiet

LEMMA WorkerPopStep ==
  ASSUME IInv, NEW c \in CPUs, WorkerPop(c), UNCHANGED setup
  PROVE  IInv' /\ Final
<1>1. PICK f : f = Base(stack[c])
  OBVIOUS
<1>2. At(c, "loop_pop") /\ "loop_pop" \in BootLabels
  BY DEF WorkerPop, BootLabels, LoopLabels
<1>3. /\ on[c] = c /\ BootCalls(c) /\ f.pc = "loop_pop" /\ f \in Frames /\ Top(c) = f
      /\ Sub(stack[c]) = NoFrame
  BY <1>1, <1>2, Where
<1>4. Hand(c) = NULL /\ \A t \in Tasks : Hand(c) # t
  BY <1>1, <1>3, KlogFrame, Constants DEF Hand, HandOf
<1>5. f.cpu = c /\ rsp[c] = c
  BY <1>1, <1>3 DEF BootCalls, LoopLabels
<1>6. UNCHANGED <<setup, switchVars, taskVars, created>> /\ runq \in Seq(Tasks)
  BY DEF WorkerPop, IInv, TypeOK
<1>7. rsp' = rsp /\ current' = current /\ created' = created
  BY <1>6 DEF switchVars, taskVars
<1>8. PICK h : h = [Top(c) EXCEPT !.task = First,
                                  !.pc = IF First = NULL THEN "loop" ELSE "loop_got"]
  OBVIOUS
<1>9. SetTop(c, h) /\ runq' = IF First = NULL THEN runq ELSE Tail(runq)
  BY <1>8 DEF WorkerPop, dequeue
<1>10. CASE runq = << >>
  <2>1. First = NULL
    BY <1>10 DEF First
  <2>2. h \in Frames /\ h.pc = "loop" /\ h.cpu = c
    BY <1>3, <1>5, <1>8, <2>1 DEF Frames, Labels
  <2>3. Becomes(c, h, NoFrame) /\ Base(stack'[c]) = h /\ Sub(stack'[c]) = NoFrame
    BY <1>2, <1>9, <2>2, BootSets
  <2>4. BootCalls(c)'
    BY <1>5, <1>7, <2>2, <2>3, KlogFrame DEF BootCalls, BootLabels, MainLabels, LoopLabels
  <2>5. HandOf(h, NoFrame)' = NULL
    BY <2>2, KlogFrame DEF HandOf
  <2>6. UNCHANGED <<setup, switchVars, taskVars, runq, created>>
    BY <1>6, <1>9, <2>1
  <2>7. QED
    BY <1>3, <1>4, <2>3, <2>4, <2>5, <2>6, KlogFrame, BootGoesOn
<1>11. CASE runq # << >>
  <2>1. PICK t \in Tasks : t = Head(runq)
    BY <1>6, <1>11
  <2>2. First = t /\ First # NULL
    BY <1>11, <2>1, Constants DEF First
  <2>3. h \in Frames /\ h.pc = "loop_got" /\ h.cpu = c /\ h.task = t
    BY <1>3, <1>5, <1>8, <2>2, Constants DEF Frames, Labels
  <2>4. Becomes(c, h, NoFrame) /\ Base(stack'[c]) = h /\ Sub(stack'[c]) = NoFrame
    BY <1>2, <1>9, <2>3, BootSets
  <2>5. BootCalls(c)'
    BY <1>5, <1>7, <2>3, <2>4, KlogFrame DEF BootCalls, BootLabels, MainLabels, LoopLabels
  <2>6. runq' = Tail(runq)
    BY <1>9, <2>2
  <2>7. runq' \in Seq(Tasks)
    BY <1>6, <1>11, <2>6
  <2>8. CallsOK(c, c)'
    BY <2>5, Constants DEF CallsOK
  <2>9. Local(c, c)
    BY <1>3, <1>6, <2>4, <2>7, <2>8, PlainLocal
  <2>10. Hand(c)' = HandOf(h, NoFrame)'
    BY <2>4, HandAfter
  <2>11. Hand(c)' = Head(runq)
    BY <2>1, <2>3, <2>10 DEF HandOf
  <2>12. QED
    BY <1>4, <1>7, <1>11, <2>6, <2>9, <2>11, Takes
<1>12. QED
  BY <1>10, <1>11

LEMMA WorkerSetStep ==
  ASSUME IInv, NEW c \in CPUs, WorkerSet(c), UNCHANGED setup
  PROVE  IInv' /\ Final
<1>1. PICK f, h : f = Base(stack[c]) /\ h = [Top(c) EXCEPT !.pc = "loop_switch"]
  OBVIOUS
<1>2. /\ At(c, "loop_set") /\ SetTop(c, h) /\ "loop_set" \in BootLabels
      /\ "loop_switch" \in Labels
  BY <1>1 DEF WorkerSet, Goto, BootLabels, LoopLabels, Labels
<1>3. on[c] = c /\ BootCalls(c) /\ f.pc = "loop_set" /\ f \in Frames /\ Top(c) = f
  BY <1>1, <1>2, Where
<1>4. f.task \in Tasks /\ f.cpu = c /\ rsp[c] = c
  BY <1>1, <1>3 DEF BootCalls, LoopLabels
<1>5. PICK t \in Tasks : t = f.task
  BY <1>4
<1>6. h \in Frames /\ h.pc = "loop_switch" /\ h.cpu = c /\ h.task = t
  BY <1>1, <1>2, <1>3, <1>4, <1>5, PcSet
<1>7. Becomes(c, h, NoFrame) /\ Base(stack'[c]) = h /\ Sub(stack'[c]) = NoFrame
  BY <1>2, <1>6, BootSets
<1>8. /\ state' = [state EXCEPT ![t] = "RUNNING"] /\ current' = [current EXCEPT ![c] = t]
      /\ on' = on /\ top' = top /\ wild' = wild /\ rsp' = rsp
      /\ runq' = runq /\ created' = created
  BY <1>3, <1>4, <1>5 DEF WorkerSet, switchVars, queueVars
<1>9. Hand(c) = t
  BY <1>1, <1>3, <1>5 DEF Hand, HandOf
<1>10. state[t] # "DEAD"
  BY <1>9, Constants DEF IInv, PlaceInv, PlaceOf, Fresh
<1>11. /\ current' \in [CPUs -> Contexts \cup {NULL}]
       /\ \A d \in CPUs : d # c => current'[d] = current[d]
       /\ current'[c] = t
  BY <1>8, Constants DEF IInv, TypeOK
<1>12. /\ state' \in [Contexts -> {"READY", "RUNNING", "DEAD"}]
       /\ \A y \in Tasks : state[y] = "DEAD" => state'[y] = "DEAD"
       /\ \A y \in Tasks : y # c /\ state'[y] = "DEAD" => state[y] = "DEAD"
  BY <1>8, <1>10, Constants DEF IInv, TypeOK
<1>13. BootCalls(c)'
  BY <1>4, <1>6, <1>7, <1>8, <1>11, KlogFrame DEF BootCalls, BootLabels, MainLabels, LoopLabels
<1>14. /\ rsp' \in [Contexts -> Contexts \cup {NULL}]
       /\ runq' \in Seq(Tasks) /\ created' \in 0..NTasks /\ created <= created'
  BY <1>8, Constants DEF IInv, TypeOK
<1>15. Local(c, c)
  BY <1>3, <1>7, <1>8, <1>11, <1>12, <1>13, <1>14, Constants DEF Local, Becomes
<1>16. Hand(c)' = HandOf(h, NoFrame)'
  BY <1>7, HandAfter
<1>17. Hand(c)' = t
  BY <1>6, <1>16 DEF HandOf
<1>18. QED
  BY <1>8, <1>9, <1>15, <1>17, Quiet

-----------------------------------------------------------------------------
(* The code on the stack of a task.                                        *)
LEMMA TaskGoesOn ==
  ASSUME IInv, NEW c \in CPUs, NEW x \in Tasks, x = on[c], NEW f, NEW g, Becomes(x, f, g),
         UNCHANGED <<setup, switchVars, taskVars, runq, created>>,
         TaskCalls(x)', OnTask(c)',
         \A t \in Tasks : HandOf(f, g)' = t <=> Hand(x) = t
  PROVE  IInv' /\ Final
<1>1. CallsOK(c, x)'
  BY Constants DEF CallsOK
<1>2. runq' \in Seq(Tasks)
  BY DEF IInv, TypeOK
<1>3. Local(c, x)
  BY <1>1, <1>2, PlainLocal
<1>4. Hand(x)' = HandOf(f, g)'
  BY HandAfter
<1>5. QED
  BY <1>3, <1>4, Quiet

(* Task x runs on CPU c, the boot stack of which waits in the loop.        *)
Runs(c, x) ==
  /\ on[c] = x /\ x <= created
  /\ Base(stack[c]).pc = "loop_back" /\ Sub(stack[c]).pc = "none"
  /\ top[c] = c

LEMMA BootWaits ==
  ASSUME IInv, NEW c \in CPUs, NEW x \in Tasks, x = on[c], OnTask(c), NEW f, NEW g, Becomes(x, f, g),
         created' = created, on' = on, top' = top
  PROVE  Runs(c, x)'
<1>1. c # x /\ c \in Contexts
  BY Constants
<1>2. stack'[c] = stack[c]
  BY <1>1 DEF Becomes
<1>3. QED
  BY <1>2 DEF OnTask, Runs

LEMMA TaskLogs ==
  ASSUME IInv, NEW c \in CPUs, NEW l, NEW back, At(c, l),
         \/ l = "body" /\ back = "work" /\ klog(c, back)
         \/ l = "work" /\ back = "exit" /\ klog(c, back)
         \/ l = "exit" /\ back = "exit_dead" /\ LogOnCpu(c, back),
         UNCHANGED <<setup, switchVars, taskVars, runq, created>>
  PROVE  IInv' /\ Final
<1>1. l \in TaskLabels /\ back \in Labels
  BY DEF TaskLabels, Labels
<1>2. PICK x, f, g, h : /\ x = on[c] /\ f = Base(stack[x]) /\ g = Sub(stack[x])
                        /\ h = Frame("klog", FALSE)
  OBVIOUS
<1>3. x \in Tasks /\ TaskCalls(x) /\ OnTask(c) /\ g.pc = "none" /\ f.pc = l
  BY <1>1, <1>2, Where
<1>4. PICK k \in Frames : Becomes(x, k, h) /\ k.pc = back /\ (k.pc = "exit_dead" => k.cpu = c)
  <2>1. l \in BootLabels \cup TaskLabels /\ x = on[c] /\ h \in Frames
    BY <1>1, <1>2, KlogFrame
  <2>2. CASE back = "exit_dead"
    <3>1. LogOnCpu(c, back) /\ h = KlogCall
      BY <1>2, <2>2 DEF KlogCall
    <3>2. \E k \in Frames : /\ Becomes(x, k, h)
                             /\ k.pc = back /\ k.cpu = c
                             /\ k.task = Base(stack[x]).task
      BY <1>1, <2>1, <3>1, LogsOnCpu
    <3>3. QED
      BY <1>2, <3>2
  <2>3. CASE back # "exit_dead"
    <3>1. Call(c, back, h)
      BY <1>2, <2>3 DEF klog
    <3>2. \E k \in Frames : /\ Becomes(x, k, h)
                             /\ k.pc = back /\ k.cpu = Base(stack[x]).cpu
                             /\ k.task = Base(stack[x]).task
      BY <1>1, <2>1, <3>1, Calls
    <3>3. QED
      BY <2>3, <3>2
  <2>4. QED
    BY <2>2, <2>3
<1>5. h.pc = "klog"
  BY <1>2, KlogFrame
<1>6. on' = on /\ top' = top /\ current' = current /\ created' = created /\ state' = state
  BY DEF switchVars, taskVars
<1>7. Runs(c, x)' /\ Base(stack'[x]) = k /\ Sub(stack'[x]) = h
  <2>1. Runs(c, x)'
    BY <1>2, <1>3, <1>4, <1>6, BootWaits
  <2>2. QED
    BY <1>2, <1>3, <1>4, <1>6, <2>1 DEF Becomes
<1>8. TaskCalls(x)'
  BY <1>4, <1>5, <1>7 DEF TaskCalls, TaskLabels, KlogLabels, YieldLabels
<1>9. current[c] = x
  BY <1>2, <1>3 DEF OnTask
<1>10. OnTask(c)'
  BY <1>3, <1>4, <1>5, <1>6, <1>7, <1>9 DEF OnTask, Runs, YieldLabels
<1>11. HandOf(k, h)' = HandOf(f, g)
  BY <1>3, <1>4, <1>5 DEF HandOf
<1>12. \A t \in Tasks : HandOf(k, h)' = t <=> Hand(x) = t
  BY <1>2, <1>11 DEF Hand
<1>13. x = on[c] /\ Becomes(x, k, h) /\ x \in Tasks
  BY <1>2, <1>3, <1>4
<1>14. QED
  BY <1>8, <1>10, <1>12, <1>13, TaskGoesOn

LEMMA TestTaskStep ==
  ASSUME IInv, NEW c \in CPUs, test_task(c), UNCHANGED setup
  PROVE  IInv' /\ Final
<1>1. UNCHANGED <<setup, switchVars, taskVars, runq, created>>
  BY DEF test_task, queueVars
<1>2. \/ At(c, "body") /\ klog(c, "work")
      \/ At(c, "work") /\ klog(c, "exit")
  BY DEF test_task
<1>3. CASE At(c, "body") /\ klog(c, "work")
  BY <1>1, <1>3, TaskLogs
<1>4. CASE At(c, "work") /\ klog(c, "exit")
  BY <1>1, <1>4, TaskLogs
<1>5. QED
  BY <1>2, <1>3, <1>4

LEMMA ExitLogStep ==
  ASSUME IInv, NEW c \in CPUs, ExitLog(c), UNCHANGED setup
  PROVE  IInv' /\ Final
<1>1. At(c, "exit") /\ LogOnCpu(c, "exit_dead")
  BY DEF ExitLog
<1>2. UNCHANGED <<setup, switchVars, taskVars, runq, created>>
  BY DEF ExitLog, queueVars
<1>3. QED
  BY <1>1, <1>2, TaskLogs

LEMMA TaskExitStep ==
  ASSUME IInv, NEW c \in CPUs, task_exit(c), UNCHANGED setup
  PROVE  IInv' /\ Final
<1>1. /\ At(c, "exit_dead") /\ "exit_dead" \in TaskLabels
      /\ "dead" \in Labels /\ "yield" \in Labels
  BY DEF task_exit, TaskLabels, Labels
<1>2. PICK x, f, g, h : /\ x = on[c] /\ f = Base(stack[x]) /\ g = Sub(stack[x])
                        /\ h = Frame("yield", FALSE)
  OBVIOUS
<1>3. x \in Tasks /\ TaskCalls(x) /\ OnTask(c) /\ g.pc = "none" /\ f.pc = "exit_dead"
  BY <1>1, <1>2, Where
<1>4. h \in Frames /\ h.pc = "yield"
  BY <1>1, <1>2, FrameIs
<1>5. PICK k \in Frames : Becomes(x, k, h) /\ k.pc = "dead"
  <2>1. Call(c, "dead", h)
    BY <1>2 DEF task_exit
  <2>2. "exit_dead" \in BootLabels \cup TaskLabels /\ x = on[c]
    BY <1>1, <1>2
  <2>3. \E k \in Frames : /\ Becomes(x, k, h)
                           /\ k.pc = "dead" /\ k.cpu = Base(stack[x]).cpu
                           /\ k.task = Base(stack[x]).task
    BY <1>1, <1>4, <2>1, <2>2, Calls
  <2>4. QED
    BY <2>3
<1>6. current[c] = x /\ Top(c).cpu = c /\ Top(c).pc = "exit_dead"
  <2>1. Top(c) = f
    BY <1>1, <1>2, Where
  <2>2. QED
    BY <1>2, <1>3, <2>1 DEF OnTask
<1>7. /\ state' = [state EXCEPT ![x] = "DEAD"]
      /\ on' = on /\ top' = top /\ wild' = wild /\ rsp' = rsp /\ current' = current
      /\ runq' = runq /\ created' = created
  BY <1>6 DEF task_exit, switchVars, queueVars
<1>8. Runs(c, x)' /\ Base(stack'[x]) = k /\ Sub(stack'[x]) = h
  <2>1. Runs(c, x)'
    BY <1>2, <1>3, <1>5, <1>7, BootWaits
  <2>2. QED
    BY <1>2, <1>3, <1>5, <1>7, <2>1 DEF Becomes
<1>9. /\ state' \in [Contexts -> {"READY", "RUNNING", "DEAD"}] /\ state'[x] = "DEAD"
      /\ \A y \in Tasks : state[y] = "DEAD" => state'[y] = "DEAD"
      /\ \A y \in Tasks : state'[y] = "DEAD" => state[y] = "DEAD" \/ y = x
  BY <1>3, <1>7, Constants DEF IInv, TypeOK
<1>10. TaskCalls(x)'
  BY <1>4, <1>5, <1>8, <1>9 DEF TaskCalls, TaskLabels, YieldLabels
<1>11. OnTask(c)'
  BY <1>3, <1>4, <1>5, <1>6, <1>7, <1>8 DEF OnTask, Runs, YieldLabels
<1>12. /\ rsp' \in [Contexts -> Contexts \cup {NULL}]
       /\ current' \in [CPUs -> Contexts \cup {NULL}]
       /\ current'[c] \in Tasks \cup {NULL, c}
       /\ runq' \in Seq(Tasks) /\ created' \in 0..NTasks /\ created <= created'
  BY <1>7, Constants DEF IInv, TypeOK, CpuInv
<1>13. Local(c, x)
  BY <1>2, <1>3, <1>5, <1>6, <1>7, <1>9, <1>10, <1>11, <1>12, Constants DEF Local, Becomes
<1>14. Hand(x) = NULL
  BY <1>2, <1>3 DEF Hand, HandOf
<1>15. Hand(x)' = HandOf(k, h)'
  BY <1>5, HandAfter
<1>16. Hand(x)' = NULL
  BY <1>4, <1>5, <1>15 DEF HandOf
<1>17. QED
  BY <1>7, <1>13, <1>14, <1>16, Quiet

-----------------------------------------------------------------------------
(* A step of scheduler_yield, which a task calls only when it has ended.   *)
LEMMA YieldSets ==
  ASSUME IInv, NEW c \in CPUs, NEW x, x = on[c], NEW l \in YieldLabels, At(c, l),
         NEW h \in Frames, SetTop(c, h)
  PROVE  /\ x \in Tasks /\ OnTask(c) /\ TaskCalls(x) /\ state[x] = "DEAD"
         /\ Base(stack[x]).pc = "dead" /\ Sub(stack[x]).pc = l
         /\ Becomes(x, Base(stack[x]), h)
<1>1. /\ x \in Tasks /\ OnTask(c) /\ TaskCalls(x)
      /\ Base(stack[x]).pc = "dead" /\ Sub(stack[x]).pc = l
  BY Where
<1>2. Sub(stack[x]).pc # "none"
  BY <1>1 DEF YieldLabels
<1>3. Becomes(x, Base(stack[x]), h)
  BY <1>2, SetsSub DEF IInv
<1>4. state[x] = "DEAD"
  BY <1>1 DEF TaskCalls
<1>5. QED
  BY <1>1, <1>3, <1>4

LEMMA YieldGoesOn ==
  ASSUME IInv, NEW c \in CPUs, NEW x \in Tasks, x = on[c], OnTask(c), state[x] = "DEAD",
         NEW f, f.pc = "dead", NEW h, Becomes(x, f, h),
         h.pc \in YieldLabels \ {"return", "yield", "yield_switch"},
         h.cpu = c, h.old = x,
         h.pc = "yield_pick" => h.task \in Tasks \cup {NULL},
         h.pc = "yield_set" => h.task \in Tasks \cup {c},
         Sub(stack[x]).pc # "yield_switch",
         UNCHANGED <<setup, switchVars, taskVars, created>>, runq' \in Seq(Tasks)
  PROVE  Local(c, x)
<1>1. /\ on' = on /\ top' = top /\ current' = current /\ created' = created /\ state' = state
  BY DEF switchVars, taskVars
<1>2. Runs(c, x)' /\ Base(stack'[x]) = f /\ Sub(stack'[x]) = h
  <2>1. Runs(c, x)'
    BY <1>1, BootWaits
  <2>2. QED
    BY <1>1, <2>1 DEF Becomes
<1>3. current[c] = x
  BY DEF OnTask
<1>4. TaskCalls(x)'
  BY <1>1, <1>2 DEF TaskCalls, TaskLabels
<1>5. OnTask(c)'
  BY <1>1, <1>2, <1>3 DEF OnTask, Runs
<1>6. CallsOK(c, x)'
  BY <1>4, <1>5, Constants DEF CallsOK
<1>7. QED
  BY <1>6, PlainLocal

(* Where the innermost call of scheduler_yield is, and what it knows.      *)
LEMMA YieldAt ==
  ASSUME IInv, NEW c \in CPUs, NEW x, x = on[c], NEW l \in YieldLabels, At(c, l)
  PROVE  /\ x \in Tasks /\ OnTask(c) /\ state[x] = "DEAD"
         /\ Base(stack[x]).pc = "dead" /\ Top(c) = Sub(stack[x]) /\ Top(c) \in Frames
         /\ Top(c).pc = l /\ l # "return"
         /\ l # "yield" => Top(c).cpu = c /\ Top(c).old = x
         /\ l # "yield_switch" => current[c] = x
         /\ l = "yield_switch" => current[c] = Top(c).task
         /\ l = "yield_pick" => Top(c).task \in Tasks \cup {NULL}
         /\ l \in {"yield_set", "yield_switch"} => Top(c).task \in Tasks \cup {c}
<1>1. PICK g : g = Sub(stack[x])
  OBVIOUS
<1>2. /\ x \in Tasks /\ OnTask(c) /\ TaskCalls(x) /\ l # "return"
      /\ Base(stack[x]).pc = "dead" /\ Top(c) = g /\ g.pc = l /\ g \in Frames
  BY <1>1, Where
<1>3. state[x] = "DEAD"
  BY <1>2 DEF TaskCalls
<1>4. /\ l # "yield" => g.cpu = c /\ g.old = x
      /\ l # "yield_switch" => current[c] = x
      /\ l = "yield_switch" => current[c] = g.task
      /\ l = "yield_pick" => g.task \in Tasks \cup {NULL}
      /\ l \in {"yield_set", "yield_switch"} => g.task \in Tasks \cup {c}
  BY <1>1, <1>2 DEF OnTask
<1>5. QED
  BY <1>1, <1>2, <1>3, <1>4

LEMMA YieldStartStep ==
  ASSUME IInv, NEW c \in CPUs, YieldStart(c), UNCHANGED setup
  PROVE  IInv' /\ Final
<1>1. PICK x, f, h : /\ x = on[c] /\ f = Base(stack[x])
                     /\ h = [Top(c) EXCEPT !.cpu = c, !.old = current[c], !.pc = "yield_lock"]
  OBVIOUS
<1>2. At(c, "yield") /\ SetTop(c, h) /\ "yield" \in YieldLabels
  BY <1>1 DEF YieldStart, YieldLabels
<1>3. /\ x \in Tasks /\ OnTask(c) /\ state[x] = "DEAD" /\ f.pc = "dead"
      /\ Top(c) = Sub(stack[x]) /\ Top(c) \in Frames /\ Top(c).pc = "yield" /\ current[c] = x
  BY <1>1, <1>2, YieldAt
<1>4. h \in Frames /\ h.pc = "yield_lock" /\ h.cpu = c /\ h.old = x
  BY <1>1, <1>3, Constants DEF Frames, Labels
<1>5. Becomes(x, f, h)
  BY <1>1, <1>2, <1>4, YieldSets
<1>6. UNCHANGED <<setup, switchVars, taskVars, created>> /\ runq' = runq
      /\ created' = created /\ runq' \in Seq(Tasks)
  BY DEF YieldStart, queueVars, IInv, TypeOK
<1>7. Local(c, x)
  <2>1. h.pc \in YieldLabels \ {"return", "yield", "yield_switch"}
    BY <1>4 DEF YieldLabels
  <2>2. Sub(stack[x]).pc # "yield_switch"
    BY <1>3
  <2>3. QED
    BY <1>1, <1>3, <1>4, <1>5, <1>6, <2>1, <2>2, YieldGoesOn
<1>8. Hand(x)' = HandOf(f, h)'
  BY <1>5, HandAfter
<1>9. Hand(x)' = Hand(x)
  BY <1>1, <1>3, <1>4, <1>8 DEF Hand, HandOf
<1>10. QED
  BY <1>6, <1>7, <1>9, Quiet

LEMMA YieldLockStep ==
  ASSUME IInv, NEW c \in CPUs, YieldLock(c), UNCHANGED setup
  PROVE  IInv' /\ Final
<1>1. PICK x, f, h : /\ x = on[c] /\ f = Base(stack[x])
                     /\ h = [Top(c) EXCEPT !.pc = "yield_pop"]
  OBVIOUS
<1>2. At(c, "yield_lock") /\ SetTop(c, h) /\ "yield_lock" \in YieldLabels
      /\ "yield_pop" \in Labels
  BY <1>1 DEF YieldLock, Goto, YieldLabels, Labels
<1>3. /\ x \in Tasks /\ OnTask(c) /\ state[x] = "DEAD" /\ f.pc = "dead"
      /\ Top(c) = Sub(stack[x]) /\ Top(c) \in Frames /\ Top(c).pc = "yield_lock"
      /\ Top(c).cpu = c /\ Top(c).old = x
  BY <1>1, <1>2, YieldAt
<1>4. h \in Frames /\ h.pc = "yield_pop" /\ h.cpu = c /\ h.old = x
  BY <1>1, <1>2, <1>3, PcSet
<1>5. Becomes(x, f, h)
  BY <1>1, <1>2, <1>4, YieldSets
<1>6. UNCHANGED <<setup, switchVars, taskVars, created>> /\ runq' = runq
      /\ created' = created /\ runq' \in Seq(Tasks)
  BY DEF YieldLock, IInv, TypeOK
<1>7. Local(c, x)
  <2>1. h.pc \in YieldLabels \ {"return", "yield", "yield_switch"}
    BY <1>4 DEF YieldLabels
  <2>2. Sub(stack[x]).pc # "yield_switch"
    BY <1>3
  <2>3. QED
    BY <1>1, <1>3, <1>4, <1>5, <1>6, <2>1, <2>2, YieldGoesOn
<1>8. Hand(x)' = HandOf(f, h)'
  BY <1>5, HandAfter
<1>9. Hand(x)' = Hand(x)
  BY <1>1, <1>3, <1>4, <1>8 DEF Hand, HandOf
<1>10. QED
  BY <1>6, <1>7, <1>9, Quiet

LEMMA YieldPopStep ==
  ASSUME IInv, NEW c \in CPUs, YieldPop(c), UNCHANGED setup
  PROVE  IInv' /\ Final
<1>1. PICK x, f, h : /\ x = on[c] /\ f = Base(stack[x])
                     /\ h = [Top(c) EXCEPT !.task = First, !.pc = "yield_pick"]
  OBVIOUS
<1>2. At(c, "yield_pop") /\ SetTop(c, h) /\ "yield_pop" \in YieldLabels
      /\ runq' = IF First = NULL THEN runq ELSE Tail(runq)
  BY <1>1 DEF YieldPop, dequeue, YieldLabels
<1>3. /\ x \in Tasks /\ OnTask(c) /\ state[x] = "DEAD" /\ f.pc = "dead"
      /\ Top(c) = Sub(stack[x]) /\ Top(c) \in Frames /\ Top(c).pc = "yield_pop"
      /\ Top(c).cpu = c /\ Top(c).old = x
  BY <1>1, <1>2, YieldAt
<1>4. UNCHANGED <<setup, switchVars, taskVars, created>> /\ created' = created
      /\ runq \in Seq(Tasks)
  BY DEF YieldPop, IInv, TypeOK
<1>5. \/ runq = << >> /\ First = NULL /\ runq' = runq
      \/ /\ runq # << >> /\ First \in Tasks /\ First = Head(runq)
         /\ runq' = Tail(runq) /\ runq' \in Seq(Tasks)
  <2>1. CASE runq = << >>
    BY <1>2, <2>1 DEF First
  <2>2. CASE runq # << >>
    <3>1. Head(runq) \in Tasks /\ Tail(runq) \in Seq(Tasks)
      BY <1>4, <2>2
    <3>2. QED
      BY <1>2, <2>2, <3>1, Constants DEF First
  <2>3. QED
    BY <2>1, <2>2
<1>6. /\ h \in Frames /\ h.pc = "yield_pick" /\ h.cpu = c /\ h.old = x
      /\ h.task = First /\ First \in Tasks \cup {NULL}
  BY <1>1, <1>3, <1>5, Constants DEF Frames, Labels
<1>7. Becomes(x, f, h)
  BY <1>1, <1>2, <1>6, YieldSets
<1>8. Local(c, x)
  <2>1. h.pc \in YieldLabels \ {"return", "yield", "yield_switch"}
    BY <1>6 DEF YieldLabels
  <2>2. Sub(stack[x]).pc # "yield_switch"
    BY <1>3
  <2>3. runq' \in Seq(Tasks)
    BY <1>4, <1>5
  <2>4. /\ h.cpu = c /\ h.old = x /\ h.pc # "yield_set"
        /\ h.pc = "yield_pick" => h.task \in Tasks \cup {NULL}
    BY <1>6
  <2>5. QED
    BY <1>1, <1>3, <1>4, <1>7, <2>1, <2>2, <2>3, <2>4, YieldGoesOn
<1>9. Hand(x) = NULL
  BY <1>1, <1>3 DEF Hand, HandOf
<1>10. Hand(x)' = HandOf(f, h)'
  BY <1>7, HandAfter
<1>11. Hand(x)' = First
  BY <1>3, <1>6, <1>10 DEF HandOf
<1>12. \A t \in Tasks : Hand(x) # t
  BY <1>9, Constants
<1>13. CASE runq = << >>
  <2>1. First = NULL /\ runq' = runq
    BY <1>5, <1>13
  <2>2. QED
    BY <1>4, <1>8, <1>9, <1>11, <2>1, Quiet
<1>14. CASE runq # << >>
  <2>1. First = Head(runq) /\ runq' = Tail(runq)
    BY <1>5, <1>14
  <2>2. Hand(x)' = Head(runq)
    BY <1>11, <2>1
  <2>3. QED
    BY <1>4, <1>8, <1>12, <1>14, <2>1, <2>2, Takes
<1>15. QED
  BY <1>13, <1>14

LEMMA YieldPickStep ==
  ASSUME IInv, NEW c \in CPUs, YieldPick(c), UNCHANGED setup
  PROVE  IInv' /\ Final
<1>1. PICK x, f, g : x = on[c] /\ f = Base(stack[x]) /\ g = Top(c)
  OBVIOUS
<1>2. At(c, "yield_pick") /\ "yield_pick" \in YieldLabels
  BY <1>1 DEF YieldPick, YieldLabels
<1>3. /\ x \in Tasks /\ OnTask(c) /\ state[x] = "DEAD" /\ f.pc = "dead"
      /\ g = Sub(stack[x]) /\ g \in Frames /\ g.pc = "yield_pick"
      /\ g.cpu = c /\ g.old = x /\ g.task \in Tasks \cup {NULL}
  BY <1>1, <1>2, YieldAt
<1>4. ~OldRuns(c)
  BY <1>1, <1>3 DEF OldRuns
<1>5. PICK n : n = IF g.task = NULL THEN c ELSE g.task
  OBVIOUS
<1>6. PICK h : h = [g EXCEPT !.task = n, !.pc = "yield_set"]
  OBVIOUS
<1>7. SetTop(c, h) /\ state' = state
  BY <1>1, <1>3, <1>4, <1>5, <1>6 DEF YieldPick, Idle
<1>8. n \in Tasks \cup {c}
  BY <1>3, <1>5
<1>9. h \in Frames /\ h.pc = "yield_set" /\ h.cpu = c /\ h.old = x /\ h.task = n
  BY <1>3, <1>6, <1>8, Constants DEF Frames, Labels
<1>10. Becomes(x, f, h)
  BY <1>1, <1>2, <1>7, <1>9, YieldSets
<1>11. UNCHANGED <<setup, switchVars, taskVars, created>> /\ runq' = runq
       /\ created' = created /\ runq' \in Seq(Tasks)
  BY <1>7 DEF YieldPick, IInv, TypeOK, queueVars, taskVars
<1>12. Local(c, x)
  <2>1. h.pc \in YieldLabels \ {"return", "yield", "yield_switch"}
    BY <1>9 DEF YieldLabels
  <2>2. Sub(stack[x]).pc # "yield_switch"
    BY <1>3
  <2>3. QED
    BY <1>1, <1>3, <1>8, <1>9, <1>10, <1>11, <2>1, <2>2, YieldGoesOn
<1>13. Hand(x) = g.task
  BY <1>1, <1>3 DEF Hand, HandOf
<1>14. Hand(x)' = HandOf(f, h)'
  BY <1>10, HandAfter
<1>15. Hand(x)' = n
  BY <1>3, <1>9, <1>14 DEF HandOf
<1>16. \A t \in Tasks : Hand(x)' = t <=> Hand(x) = t
  BY <1>3, <1>5, <1>13, <1>15, Constants
<1>17. QED
  BY <1>11, <1>12, <1>16, Quiet

LEMMA YieldSetStep ==
  ASSUME IInv, NEW c \in CPUs, YieldSet(c), UNCHANGED setup
  PROVE  IInv' /\ Final
<1>1. PICK x, f, g, h : /\ x = on[c] /\ f = Base(stack[x]) /\ g = Top(c)
                        /\ h = [g EXCEPT !.pc = "yield_switch"]
  OBVIOUS
<1>2. /\ At(c, "yield_set") /\ "yield_set" \in YieldLabels /\ SetTop(c, h)
      /\ "yield_switch" \in Labels
  BY <1>1 DEF YieldSet, Goto, YieldLabels, Labels
<1>3. /\ x \in Tasks /\ OnTask(c) /\ state[x] = "DEAD" /\ f.pc = "dead"
      /\ g = Sub(stack[x]) /\ g \in Frames /\ g.pc = "yield_set"
      /\ g.cpu = c /\ g.old = x /\ g.task \in Tasks \cup {c}
  BY <1>1, <1>2, YieldAt
<1>4. PICK n : n = g.task
  OBVIOUS
<1>5. h \in Frames /\ h.pc = "yield_switch" /\ h.cpu = c /\ h.old = x /\ h.task = n
  BY <1>1, <1>2, <1>3, <1>4, PcSet
<1>6. Becomes(x, f, h)
  BY <1>1, <1>2, <1>5, YieldSets
<1>7. /\ state' = [state EXCEPT ![n] = "RUNNING"] /\ current' = [current EXCEPT ![c] = n]
      /\ on' = on /\ top' = top /\ wild' = wild /\ rsp' = rsp
      /\ runq' = runq /\ created' = created
  BY <1>1, <1>3, <1>4 DEF YieldSet, switchVars, queueVars
<1>8. n \in Contexts /\ n \in Tasks \cup {c}
  BY <1>3, <1>4, Constants
<1>9. Hand(x) = n
  BY <1>1, <1>3, <1>4 DEF Hand, HandOf
<1>10. n \in Tasks => state[n] # "DEAD"
  <2>1. SUFFICES ASSUME n \in Tasks PROVE state[n] # "DEAD"
    OBVIOUS
  <2>2. PlaceOf(n) /\ x \in Contexts
    BY <1>3, <2>1, Constants DEF IInv, PlaceInv
  <2>3. QED
    BY <1>9, <2>2 DEF PlaceOf, Fresh
<1>11. /\ current' \in [CPUs -> Contexts \cup {NULL}]
       /\ \A d \in CPUs : d # c => current'[d] = current[d]
       /\ current'[c] = n
  BY <1>7, <1>8, Constants DEF IInv, TypeOK
<1>12. /\ state' \in [Contexts -> {"READY", "RUNNING", "DEAD"}]
       /\ \A y \in Tasks : state[y] = "DEAD" => state'[y] = "DEAD"
       /\ \A y \in Tasks : state'[y] = "DEAD" => state[y] = "DEAD"
  BY <1>7, <1>8, <1>10, Constants DEF IInv, TypeOK
<1>13. Runs(c, x)' /\ Base(stack'[x]) = f /\ Sub(stack'[x]) = h
  <2>1. Runs(c, x)'
    BY <1>1, <1>3, <1>6, <1>7, BootWaits
  <2>2. QED
    BY <1>6, <2>1 DEF Becomes
<1>14. TaskCalls(x)'
  BY <1>3, <1>5, <1>12, <1>13 DEF TaskCalls, TaskLabels, YieldLabels
<1>15. OnTask(c)'
  BY <1>3, <1>5, <1>8, <1>11, <1>13 DEF OnTask, Runs, YieldLabels
<1>16. /\ rsp' \in [Contexts -> Contexts \cup {NULL}]
       /\ runq' \in Seq(Tasks) /\ created' \in 0..NTasks /\ created <= created'
  BY <1>7, Constants DEF IInv, TypeOK
<1>17. Local(c, x)
  BY <1>1, <1>3, <1>6, <1>7, <1>8, <1>11, <1>12, <1>14, <1>15, <1>16, Constants
     DEF Local, Becomes
<1>18. Hand(x)' = HandOf(f, h)'
  BY <1>6, HandAfter
<1>19. Hand(x)' = n
  BY <1>3, <1>5, <1>18 DEF HandOf
<1>20. QED
  BY <1>7, <1>9, <1>17, <1>19, Quiet

-----------------------------------------------------------------------------
(* A context switch of CPU c from stack x to y: a task that has not run    *)
(* yet, or the boot stack of c.                                            *)
LEMMA Switch ==
  ASSUME IInv, NEW c \in CPUs, NEW x, x = on[c], NEW y \in Contexts, x # y,
         y = c \/ y \in Tasks, Hand(x) = y,
         current[c] = y,
         on' = [on EXCEPT ![c] = y],
         rsp' = [rsp EXCEPT ![x] = x],
         top' = [[top EXCEPT ![x] = x] EXCEPT ![y] = NULL],
         wild' = FALSE,
         UNCHANGED <<setup, state, current, runq, created>>,
         NEW f, NEW g, Becomes(x, f, g),
         x = c => f.pc = "loop_back" /\ f.cpu = c /\ g = NoFrame,
         x # c => f.pc = "dead" /\ g.pc = "return" /\ state[x] = "DEAD" /\ OnTask(c)
  PROVE  IInv' /\ Final
<1>1. x \in Contexts /\ c \in Contexts /\ (x = c \/ (x \in Tasks /\ OnTask(c)))
  BY Constants DEF IInv, TypeOK, CpuInv, OnTask
<1>2. TypeOK'
  <2>1. /\ on' \in [CPUs -> Contexts] /\ rsp' \in [Contexts -> Contexts \cup {NULL}]
        /\ top' \in [Contexts -> Contexts \cup {NULL}]
    BY <1>1 DEF IInv, TypeOK
  <2>2. stack' = [z \in Contexts |-> stack'[z]] /\ \A z \in Contexts : IsStack(stack'[z])
    BY <1>1 DEF IInv, TypeOK, Becomes
  <2>3. QED
    BY <2>1, <2>2 DEF IInv, TypeOK
<1>3. /\ on'[c] = y /\ \A d \in CPUs : d # c => on'[d] = on[d]
      /\ rsp'[x] = x /\ \A z \in Contexts : z # x => rsp'[z] = rsp[z]
      /\ top'[x] = x /\ \A z \in Contexts : z # x /\ z # y => top'[z] = top[z]
  BY <1>1 DEF IInv, TypeOK
<1>4. /\ Base(stack'[x]) = f /\ Sub(stack'[x]) = g
      /\ \A z \in Contexts : z # x => stack'[z] = stack[z]
  BY DEF Becomes
<1>5. ASSUME y \in Tasks
      PROVE  /\ Fresh(y) /\ y <= created /\ ~Queued(y)
             /\ \A z \in Contexts : z # x => Hand(z) # y
  <2>1. PlaceOf(y)
    BY <1>5 DEF IInv, PlaceInv
  <2>2. QED
    BY <1>1, <2>1 DEF PlaceOf
<1>6. \A d \in CPUs : d # c => on[d] # y
  <2>1. SUFFICES ASSUME NEW d \in CPUs, d # c, on[d] = y PROVE FALSE
    OBVIOUS
  <2>2. CASE y = c
    <3>1. OnTask(d)
      BY <2>1, <2>2 DEF IInv, CpuInv
    <3>2. QED
      BY <2>1, <2>2, <3>1, Constants DEF OnTask
  <2>3. CASE y \in Tasks
    BY <1>5, <2>1, <2>3 DEF Fresh
  <2>4. QED
    BY <2>2, <2>3
<1>7. NoFrame.pc = "none"
  BY KlogFrame
<1>8. ASSUME NEW d \in CPUs PROVE BootCalls(d)'
  <2>1. BootCalls(d) /\ d \in Contexts
    BY Constants DEF IInv, CpuInv
  <2>2. CASE d = x
    <3>1. d = c
      BY <1>1, <2>2, Constants
    <3>2. QED
      BY <1>3, <1>4, <1>7, <2>2, <3>1 DEF BootCalls, BootLabels, LoopLabels, MainLabels
  <2>3. CASE d # x
    BY <1>3, <1>4, <2>1, <2>3 DEF BootCalls
  <2>4. QED
    BY <2>2, <2>3
<1>9. ASSUME NEW d \in Tasks PROVE TaskCalls(d)'
  <2>1. TaskCalls(d) /\ d \in Contexts
    BY <1>9, Constants DEF IInv, CpuInv
  <2>2. CASE d = x
    <3>1. x # c
      BY <1>9, <2>2, Constants
    <3>2. f.pc = "dead" /\ g.pc = "return" /\ state[x] = "DEAD"
      BY <3>1
    <3>3. QED
      BY <1>4, <2>2, <3>2 DEF TaskCalls, TaskLabels, YieldLabels
  <2>3. CASE d # x
    BY <1>4, <2>1, <2>3 DEF TaskCalls
  <2>4. QED
    BY <2>2, <2>3
<1>10. ASSUME y \in Tasks PROVE OnTask(c)'
  <2>1. y # c
    BY <1>10, Constants
  <2>2. Base(stack'[c]).pc = "loop_back" /\ Sub(stack'[c]).pc = "none" /\ top'[c] = c
    <3>1. CASE x = c
      BY <1>3, <1>4, <1>7, <3>1
    <3>2. CASE x # c
      BY <1>1, <1>3, <1>4, <2>1, <3>2 DEF OnTask
    <3>3. QED
      BY <3>1, <3>2
  <2>3. Sub(stack'[y]).pc = "none" /\ Base(stack'[y]).pc = "body"
    <3>1. stack'[y] = <<Frame("body", FALSE)>>
      BY <1>4, <1>5, <1>10 DEF Fresh
    <3>2. Frame("body", FALSE) \in Frames /\ Frame("body", FALSE).pc = "body"
      BY FrameIs DEF Labels
    <3>3. QED
      BY <1>7, <3>1, <3>2, OneCall
  <2>4. y <= created
    BY <1>5, <1>10
  <2>5. QED
    BY <1>3, <1>10, <2>2, <2>3, <2>4 DEF OnTask, YieldLabels
<1>11. ASSUME NEW d \in CPUs PROVE on'[d] = d \/ OnTask(d)'
  <2>1. CASE d = c
    BY <1>3, <1>10, <2>1
  <2>2. CASE d # c
    <3>1. CASE on[d] = d
      BY <1>3, <2>2, <3>1
    <3>2. CASE OnTask(d)
      <4>1. on[d] # x /\ d # x /\ on[d] # y /\ d # y /\ d \in Contexts /\ on[d] \in Contexts
        <5>1. on[d] # x /\ on[d] \in Contexts
          BY <2>2 DEF IInv, CpuInv, TypeOK
        <5>2. d # x /\ d # y
          BY <1>1, <2>2, Constants
        <5>3. QED
          BY <1>6, <2>2, <5>1, <5>2, Constants
      <4>2. stack'[d] = stack[d] /\ stack'[on[d]] = stack[on[d]] /\ top'[d] = top[d] /\ on'[d] = on[d]
        BY <1>3, <1>4, <2>2, <4>1
      <4>3. QED
        BY <3>2, <4>2 DEF OnTask
    <3>3. QED
      BY <3>1, <3>2 DEF IInv, CpuInv
  <2>3. QED
    BY <2>1, <2>2
<1>12. CpuInv'
  <2>1. \A d \in CPUs : current'[d] \in Tasks \cup {NULL, d}
    BY DEF IInv, CpuInv
  <2>2. \A d, e \in CPUs : on'[d] = on'[e] => d = e
    BY <1>3, <1>6 DEF IInv, CpuInv
  <2>3. QED
    BY <1>8, <1>9, <1>11, <2>1, <2>2 DEF CpuInv
<1>13. Hand(x)' = NULL /\ \A z \in Contexts : z # x => Hand(z)' = Hand(z)
  <2>1. Hand(x)' = HandOf(f, g)'
    BY HandAfter
  <2>2. HandOf(f, g)' = NULL
    BY <1>7 DEF HandOf
  <2>3. ASSUME NEW z \in Contexts, z # x PROVE Hand(z)' = Hand(z)
    BY <1>4, <2>3 DEF Hand, HandOf
  <2>4. QED
    BY <2>1, <2>2, <2>3
<1>14. ASSUME NEW t \in Tasks, t # y, Fresh(t) PROVE Fresh(t)'
  <2>1. t # x /\ t \in Contexts
    BY <1>14, Constants DEF Fresh
  <2>2. rsp'[t] = rsp[t] /\ top'[t] = top[t] /\ stack'[t] = stack[t]
    BY <1>3, <1>4, <1>14, <2>1
  <2>3. \A d \in CPUs : on'[d] # t
    BY <1>3, <1>14 DEF Fresh
  <2>4. QED
    BY <1>14, <2>2, <2>3 DEF Fresh
<1>15. \A t \in Tasks : Queued(t)' <=> Queued(t)
  BY DEF Queued
<1>16. created \in Nat /\ created' = created
  BY DEF IInv, TypeOK
<1>17. ASSUME NEW t \in Tasks, t # y PROVE PlaceOf(t)'
  <2>1. PlaceOf(t) /\ t \in Contexts
    BY Constants DEF IInv, PlaceInv
  <2>2. \A z \in Contexts : Hand(z)' = t <=> Hand(z) = t
    BY <1>13, <1>17, Constants
  <2>3. on[c] = t => state[t] = "DEAD"
    BY <1>1, Constants
  <2>4. \A d \in CPUs : on[d] = t => on'[d] = t \/ state[t] = "DEAD"
    BY <1>3, <2>3
  <2>5. \A z \in Tasks : Hand(z) = t => \A d \in CPUs : on[d] = z => on'[d] = z
    <3>1. SUFFICES ASSUME NEW z \in Tasks, Hand(z) = t, NEW d \in CPUs, on[d] = z
                   PROVE  on'[d] = z
      OBVIOUS
    <3>2. d # c
      BY <1>17, <3>1
    <3>3. QED
      BY <1>3, <3>1, <3>2
  <2>6. /\ t <= created' <=> t <= created
        /\ Fresh(t) => Fresh(t)'
        /\ Queued(t)' <=> Queued(t)
        /\ state[t] = "DEAD" => state'[t] = "DEAD"
        /\ created' \in Nat /\ created \in Nat
    BY <1>14, <1>15, <1>16, <1>17
  <2>7. QED
    BY <2>1, <2>2, <2>4, <2>5, <2>6, SamePlace
<1>18. ASSUME y \in Tasks PROVE PlaceOf(y)'
  <2>1. y <= created' /\ ~Queued(y)' /\ ~(y > created')
    BY <1>5, <1>15, <1>16, <1>18, Constants
  <2>2. \A z \in Contexts : Hand(z)' # y
    BY <1>5, <1>13, <1>18, Constants
  <2>3. QED
    BY <1>3, <2>1, <2>2 DEF PlaceOf
<1>19. PlaceInv'
  BY <1>17, <1>18 DEF IInv, PlaceInv
<1>20. Final
  <2>1. ASSUME NEW t \in Tasks, state[t] = "DEAD", NEW d \in CPUs, on'[d] = t
        PROVE  on[d] = t
    <3>1. y # t
      BY <1>5, <2>1 DEF Fresh
    <3>2. QED
      BY <1>3, <2>1, <3>1
  <2>2. QED
    BY <2>1 DEF Final
<1>21. QED
  BY <1>2, <1>12, <1>19, <1>20 DEF IInv

(* What scheduler_context_switch does when the rsp of the new task is good. *)
Loads(c, x, y, after) ==
  /\ on' = [on EXCEPT ![c] = y]
  /\ rsp' = [rsp EXCEPT ![x] = x]
  /\ top' = [[top EXCEPT ![x] = x] EXCEPT ![y] = NULL]
  /\ wild' = FALSE
  /\ SetTop(c, [Top(c) EXCEPT !.pc = after])

LEMMA GoodLoad ==
  ASSUME IInv, NEW c \in CPUs, NEW x, x = on[c], NEW y \in Contexts, x # y, NEW after,
         rsp[y] = y, top[y] = y, scheduler_context_switch(c, x, y, after)
  PROVE  Loads(c, x, y, after)
<1>1. x \in Contexts
  BY DEF IInv, TypeOK
<1>2. PICK r, p : r = [rsp EXCEPT ![x] = x] /\ p = [top EXCEPT ![x] = x]
  OBVIOUS
<1>3. r[y] = y /\ p[y] = y
  BY <1>1, <1>2 DEF IInv, TypeOK
<1>4. /\ rsp' = r /\ on' = [on EXCEPT ![c] = r[y]]
      /\ top' = [p EXCEPT ![r[y]] = NULL] /\ wild' = (p[r[y]] # y)
      /\ SetTop(c, [Top(c) EXCEPT !.pc = after])
  BY <1>2, Zenon DEF scheduler_context_switch, Goto
<1>5. wild' = FALSE
  BY <1>3, <1>4
<1>6. on' = [on EXCEPT ![c] = y] /\ top' = [p EXCEPT ![y] = NULL]
  BY <1>3, <1>4
<1>7. QED
  BY <1>2, <1>4, <1>5, <1>6 DEF Loads

LEMMA WorkerSwitchStep ==
  ASSUME IInv, NEW c \in CPUs, WorkerSwitch(c), UNCHANGED setup
  PROVE  IInv' /\ Final
<1>1. PICK f, h : f = Base(stack[c]) /\ h = [Top(c) EXCEPT !.pc = "loop_back"]
  OBVIOUS
<1>2. At(c, "loop_switch") /\ "loop_switch" \in BootLabels /\ "loop_back" \in Labels
  BY DEF WorkerSwitch, BootLabels, LoopLabels, Labels
<1>3. on[c] = c /\ BootCalls(c) /\ f.pc = "loop_switch" /\ f \in Frames /\ Top(c) = f
  BY <1>1, <1>2, Where
<1>4. f.task \in Tasks /\ f.cpu = c /\ current[c] = f.task
  BY <1>1, <1>3 DEF BootCalls, LoopLabels
<1>5. PICK t \in Tasks : t = f.task
  BY <1>4
<1>6. Hand(c) = t /\ t \in Contexts /\ c \in Contexts /\ c # t
  BY <1>1, <1>3, <1>5, Constants DEF Hand, HandOf
<1>7. rsp[t] = t /\ top[t] = t
  <2>1. PlaceOf(t)
    BY DEF IInv, PlaceInv
  <2>2. QED
    BY <1>6, <2>1 DEF PlaceOf, Fresh
<1>8. scheduler_context_switch(c, c, t, "loop_back")
  <2>1. Idle(c) = c /\ Top(c).task = t
    BY <1>3, <1>4, <1>5 DEF Idle
  <2>2. QED
    BY <2>1 DEF WorkerSwitch
<1>9. /\ on' = [on EXCEPT ![c] = t]
      /\ rsp' = [rsp EXCEPT ![c] = c]
      /\ top' = [[top EXCEPT ![c] = c] EXCEPT ![t] = NULL]
      /\ wild' = FALSE
      /\ SetTop(c, h)
  <2>1. Loads(c, c, t, "loop_back")
    BY <1>3, <1>6, <1>7, <1>8, GoodLoad
  <2>2. QED
    BY <1>1, <2>1 DEF Loads
<1>10. h \in Frames /\ h.pc = "loop_back" /\ h.cpu = c
  BY <1>1, <1>2, <1>3, <1>4, PcSet
<1>11. Becomes(c, h, NoFrame)
  BY <1>2, <1>9, <1>10, BootSets
<1>12. UNCHANGED <<setup, state, current, runq, created>>
  BY DEF WorkerSwitch, taskVars, queueVars
<1>13. current[c] = t
  BY <1>4, <1>5
<1>14. QED
  BY <1>3, <1>6, <1>9, <1>10, <1>11, <1>12, <1>13, Switch

LEMMA YieldSwitchStep ==
  ASSUME IInv, NEW c \in CPUs, YieldSwitch(c), UNCHANGED setup
  PROVE  IInv' /\ Final
<1>1. PICK x, f, g, h : /\ x = on[c] /\ f = Base(stack[x]) /\ g = Top(c)
                        /\ h = [Top(c) EXCEPT !.pc = "return"]
  OBVIOUS
<1>2. At(c, "yield_switch") /\ "yield_switch" \in YieldLabels /\ "return" \in Labels
  BY DEF YieldSwitch, YieldLabels, Labels
<1>3. /\ x \in Tasks /\ OnTask(c) /\ state[x] = "DEAD" /\ f.pc = "dead"
      /\ g = Sub(stack[x]) /\ g \in Frames /\ g.pc = "yield_switch"
      /\ g.cpu = c /\ g.old = x /\ g.task \in Tasks \cup {c} /\ current[c] = g.task
  BY <1>1, <1>2, YieldAt
<1>4. PICK y \in Contexts : y = g.task /\ (y = c \/ y \in Tasks)
  BY <1>3, Constants
<1>5. Hand(x) = y /\ current[c] = y
  BY <1>1, <1>3, <1>4 DEF Hand, HandOf
<1>6. x # y /\ rsp[y] = y /\ top[y] = y
  <2>1. CASE y = c
    <3>1. BootCalls(c) /\ Base(stack[c]).pc = "loop_back" /\ top[c] = c
      BY <1>3 DEF IInv, CpuInv, OnTask
    <3>2. rsp[c] = c
      BY <3>1 DEF BootCalls, LoopLabels
    <3>3. QED
      BY <1>3, <2>1, <3>1, <3>2, Constants
  <2>2. CASE y \in Tasks
    <3>1. PlaceOf(y) /\ x \in Contexts
      BY <1>3, <2>2, Constants DEF IInv, PlaceInv
    <3>2. Fresh(y)
      BY <1>5, <3>1 DEF PlaceOf
    <3>3. QED
      BY <1>1, <3>2 DEF Fresh
  <2>3. QED
    BY <1>4, <2>1, <2>2
<1>7. scheduler_context_switch(c, x, y, "return")
  <2>1. Saved(c) = x /\ Top(c).task = y
    BY <1>1, <1>3, <1>4, Constants DEF Saved
  <2>2. QED
    BY <2>1 DEF YieldSwitch
<1>8. /\ on' = [on EXCEPT ![c] = y]
      /\ rsp' = [rsp EXCEPT ![x] = x]
      /\ top' = [[top EXCEPT ![x] = x] EXCEPT ![y] = NULL]
      /\ wild' = FALSE
      /\ SetTop(c, h)
  <2>1. Loads(c, x, y, "return")
    BY <1>1, <1>6, <1>7, GoodLoad
  <2>2. QED
    BY <1>1, <2>1 DEF Loads
<1>9. h \in Frames /\ h.pc = "return"
  BY <1>1, <1>2, <1>3, PcSet
<1>10. Becomes(x, f, h)
  BY <1>1, <1>2, <1>8, <1>9, YieldSets
<1>11. UNCHANGED <<setup, state, current, runq, created>>
  BY DEF YieldSwitch, taskVars, queueVars
<1>12. x # c
  BY <1>3, Constants
<1>13. QED
  BY <1>1, <1>3, <1>4, <1>5, <1>6, <1>8, <1>9, <1>10, <1>11, <1>12, Switch

-----------------------------------------------------------------------------
LEMMA InitIInv == Init => IInv
<1> SUFFICES ASSUME Init PROVE IInv
  OBVIOUS
<1>1. \A x \in Contexts : \E l \in {"body", "main", "enter"} :
        /\ stack[x] = <<Frame(l, FALSE)>>
        /\ (l = "body" <=> x \in Tasks) /\ (l = "main" => x = BSP)
  <2>1. SUFFICES ASSUME NEW x \in Contexts
                 PROVE  \E l \in {"body", "main", "enter"} :
                          /\ stack[x] = <<Frame(l, FALSE)>>
                          /\ (l = "body" <=> x \in Tasks) /\ (l = "main" => x = BSP)
    OBVIOUS
  <2>2. stack[x] = <<Frame(IF x \in Tasks THEN "body"
                           ELSE IF x = BSP THEN "main" ELSE "enter", FALSE)>>
    BY <2>1 DEF Init
  <2>3. CASE x \in Tasks
    BY <2>2, <2>3
  <2>4. CASE x \notin Tasks /\ x = BSP
    BY <2>2, <2>4
  <2>5. CASE x \notin Tasks /\ x # BSP
    BY <2>2, <2>5
  <2>6. QED
    BY <2>3, <2>4, <2>5
<1>2. \A x \in Contexts :
        /\ IsStack(stack[x]) /\ Sub(stack[x]).pc = "none"
        /\ x \in Tasks => Base(stack[x]).pc = "body"
        /\ x \notin Tasks => Base(stack[x]).pc \in {"main", "enter"}
        /\ Base(stack[x]).pc = "main" => x = BSP
  <2>1. SUFFICES ASSUME NEW x \in Contexts
                 PROVE  /\ IsStack(stack[x]) /\ Sub(stack[x]).pc = "none"
                        /\ x \in Tasks => Base(stack[x]).pc = "body"
                        /\ x \notin Tasks => Base(stack[x]).pc \in {"main", "enter"}
                        /\ Base(stack[x]).pc = "main" => x = BSP
    OBVIOUS
  <2>2. PICK l \in {"body", "main", "enter"} :
               /\ stack[x] = <<Frame(l, FALSE)>>
               /\ (l = "body" <=> x \in Tasks) /\ (l = "main" => x = BSP)
    BY <1>1, <2>1
  <2>3. Frame(l, FALSE) \in Frames /\ Frame(l, FALSE).pc = l
    <3>1. l \in Labels
      BY DEF Labels
    <3>2. QED
      BY <3>1, FrameIs
  <2>4. IsStack(stack[x]) /\ Base(stack[x]).pc = l /\ Sub(stack[x]).pc = "none"
    BY <2>2, <2>3, OneCall, KlogFrame
  <2>5. QED
    BY <2>2, <2>4
<1>3. TypeOK
  <2>1. \A x \in Contexts : IsStack(stack[x])
    BY <1>2
  <2>2. runq \in Seq(Tasks) /\ created \in 0..NTasks
    BY Constants DEF Init
  <2>3. /\ setup \in Setups /\ on \in [CPUs -> Contexts]
        /\ stack = [x \in Contexts |-> stack[x]]
        /\ rsp \in [Contexts -> Contexts \cup {NULL}]
        /\ top \in [Contexts -> Contexts \cup {NULL}]
        /\ state \in [Contexts -> {"READY", "RUNNING", "DEAD"}]
        /\ current \in [CPUs -> Contexts \cup {NULL}]
        /\ wild = FALSE
    BY Constants DEF Init
  <2>4. QED
    BY <2>1, <2>2, <2>3 DEF TypeOK
<1>4. CpuInv
  <2>1. ASSUME NEW x \in CPUs PROVE BootCalls(x)
    BY <1>2, Constants DEF BootCalls, BootLabels, MainLabels, LoopLabels
  <2>2. ASSUME NEW x \in Tasks PROVE TaskCalls(x)
    BY <1>2, Constants DEF TaskCalls, TaskLabels, YieldLabels
  <2>3. \A c \in CPUs : on[c] = c /\ current[c] = NULL
    BY DEF Init
  <2>4. QED
    BY <2>1, <2>2, <2>3 DEF CpuInv
<1>5. PlaceInv
  <2>1. \A x \in Contexts : Hand(x) = NULL
    BY <1>2, Constants DEF Hand, HandOf
  <2>2. runq = << >> /\ created = 0 /\ Len(runq) = 0
    BY DEF Init
  <2>3. ASSUME NEW t \in Tasks PROVE PlaceOf(t)
    <3>1. t > created /\ ~(t <= created)
      BY <2>2, Constants
    <3>2. ~Queued(t)
      BY <2>2 DEF Queued
    <3>3. \A x \in Contexts : Hand(x) # t
      BY <2>1, Constants
    <3>4. Fresh(t)
      <4>1. /\ rsp[t] = t /\ top[t] = t /\ state[t] = "READY"
            /\ \A c \in CPUs : on[c] = c
        BY Constants DEF Init
      <4>2. stack[t] = <<Frame("body", FALSE)>>
        BY <1>1, Constants
      <4>3. QED
        BY <4>1, <4>2, Constants DEF Fresh
    <3>5. QED
      BY <3>1, <3>2, <3>3, <3>4 DEF PlaceOf
  <2>4. QED
    BY <2>2, <2>3 DEF PlaceInv
<1>6. QED
  BY <1>3, <1>4, <1>5 DEF IInv

LEMMA NextIInv ==
  ASSUME Cooperative, IInv, [Next]_vars
  PROVE  IInv' /\ Final
<1>1. CASE UNCHANGED vars
  <2>1. /\ setup' = setup /\ on' = on /\ stack' = stack /\ rsp' = rsp /\ top' = top
        /\ state' = state /\ current' = current /\ runq' = runq /\ created' = created
        /\ wild' = wild
    BY <1>1 DEF vars, switchVars, taskVars, queueVars
  <2>2. TypeOK'
    BY <2>1 DEF IInv, TypeOK
  <2>3. CpuInv'
    BY <2>1 DEF IInv, CpuInv, BootCalls, TaskCalls, OnTask
  <2>4. PlaceInv'
    <3>1. \A t \in Tasks : (Fresh(t)' <=> Fresh(t)) /\ (Queued(t)' <=> Queued(t))
      BY <2>1 DEF Fresh, Queued
    <3>2. \A x \in Contexts : Hand(x)' = Hand(x)
      BY <2>1 DEF Hand, HandOf
    <3>3. ASSUME NEW t \in Tasks PROVE PlaceOf(t)'
      <4>1. PlaceOf(t) /\ created \in Nat /\ created' \in Nat
        BY <2>1 DEF IInv, PlaceInv, TypeOK
      <4>2. QED
        BY <2>1, <3>1, <3>2, <4>1, SamePlace
    <3>4. QED
      BY <2>1, <3>3 DEF IInv, PlaceInv
  <2>5. Final
    BY <2>1 DEF Final
  <2>6. QED
    BY <2>2, <2>3, <2>4, <2>5 DEF IInv
<1>2. CASE Next
  <2>1. setup.ticks = {} /\ setup.yielders = {} /\ setup.cpus \subseteq CPUs
    BY SchedulerAssumption DEF Cooperative, IInv, TypeOK
  <2>2. PICK c \in CPUs : Step(c) \/ TaskYields(c) \/ timer_handler(c)
    BY <1>2, <2>1 DEF Next
  <2>3. UNCHANGED setup
    BY <1>2 DEF Next
  <2>4. CASE Klog(c)
    BY <2>3, <2>4, KlogAcquireStep, KlogReleaseStep DEF Klog
  <2>5. CASE Main(c)
    BY <2>3, <2>5, MainCreateStep, MainLogStep, MainLockStep, MainLinkStep DEF Main
  <2>6. CASE Worker(c)
    BY <2>3, <2>6, EnterLogStep, EnterStep, WorkerLockStep, WorkerPopStep, WorkerLogStep,
       WorkerSetStep, WorkerSwitchStep DEF Worker
  <2>7. CASE Task(c)
    BY <2>3, <2>7, TestTaskStep, ExitLogStep, TaskExitStep DEF Task
  <2>8. CASE Yield(c)
    <3>1. ASSUME RequeueLock(c) \/ RequeueLink(c) PROVE FALSE
      <4>1. At(c, "requeue_lock") \/ At(c, "requeue_link")
        BY <3>1 DEF RequeueLock, RequeueLink
      <4>2. QED
        BY <4>1, Where
    <3>2. ASSUME YieldReturn(c) PROVE FALSE
      <4>1. At(c, "return") /\ "return" \in YieldLabels
        BY <3>2 DEF YieldReturn, YieldLabels
      <4>2. QED
        BY <4>1, Where
    <3>3. QED
      BY <2>3, <2>8, <3>1, <3>2, YieldStartStep, YieldLockStep, YieldPopStep, YieldPickStep,
         YieldSetStep, YieldSwitchStep DEF Yield
  <2>9. ~TaskYields(c) /\ ~timer_handler(c)
    BY <2>1 DEF TaskYields, timer_handler
  <2>10. QED
    BY <2>2, <2>4, <2>5, <2>6, <2>7, <2>8, <2>9 DEF Step, Code
<1>3. QED
  BY <1>1, <1>2

(* The inductive invariant holds of the scheduler without the timer, for   *)
(* any number of CPUs and tasks.                                           *)
THEOREM Invariance ==
  ASSUME Cooperative
  PROVE  Spec => []IInv
<1>1. Init => IInv
  BY InitIInv
<1>2. IInv /\ [Next]_vars => IInv'
  BY NextIInv
<1>3. QED
  BY <1>1, <1>2, PTL DEF Spec

(* Every scheduler_context_switch loads an rsp that is good, and no two    *)
(* CPUs execute on the same stack (drivers/scheduler.nasm:13-27).          *)
THEOREM SwitchReturnsHolds ==
  ASSUME Cooperative
  PROVE  Spec => []SwitchReturnsIntoTask
<1>1. IInv => SwitchReturnsIntoTask
  BY DEF IInv, TypeOK, CpuInv, SwitchReturnsIntoTask
<1>2. QED
  BY <1>1, Invariance, PTL

(* The idle task and the boot stack of a CPU run there only                *)
(* (drivers/scheduler.c:40, 161).                                          *)
THEOREM IdleStaysHomeHolds ==
  ASSUME Cooperative
  PROVE  Spec => []IdleStaysHome
<1>1. ASSUME IInv, NEW c \in CPUs, NEW d \in CPUs, current[d] = c \/ on[d] = c
      PROVE  d = c
  <2>1. current[d] \in Tasks \cup {NULL, d} /\ (on[d] = d \/ OnTask(d))
    BY <1>1 DEF IInv, CpuInv
  <2>2. on[d] = d \/ on[d] \in Tasks
    BY <2>1 DEF OnTask
  <2>3. QED
    BY <1>1, <2>1, <2>2, Constants
<1>2. IInv => IdleStaysHome
  BY <1>1 DEF IdleStaysHome
<1>3. QED
  BY <1>2, Invariance, PTL

(* A task exits by its own task_exit only, and never runs again.           *)
THEOREM DeadIsFinalHolds ==
  ASSUME Cooperative
  PROVE  Spec => DeadIsFinal
<1>1. IInv /\ [Next]_vars =>
        [\A t \in Tasks :
           /\ state[t] # "DEAD" /\ state'[t] = "DEAD" =>
                \E c \in CPUs : on[c] = t /\ Top(c).pc = "exit_dead"
           /\ state[t] = "DEAD" =>
                /\ state'[t] = "DEAD"
                /\ \A c \in CPUs : on'[c] = t => on[c] = t]_vars
  BY NextIInv DEF Final
<1>2. QED
  BY <1>1, Invariance, PTL DEF Spec, DeadIsFinal

-----------------------------------------------------------------------------
(* Who holds a task.                                                       *)
LEMMA HandOfFrames ==
  ASSUME NEW f, NEW g, NEW t \in Tasks,
         \/ f.pc \in BootLabels /\ g.pc \in {"none"} \cup KlogLabels
         \/ f.pc \in TaskLabels /\ g.pc \in {"none"} \cup KlogLabels \cup YieldLabels
  PROVE  (Holds(f, t) \/ Holds(g, t)) <=> HandOf(f, g) = t
<1>1. NULL # t
  BY Constants
<1>2. CASE f.pc \in BootLabels /\ g.pc \in {"none"} \cup KlogLabels
  BY <1>1, <1>2 DEF Holds, HandOf, BootLabels, MainLabels, LoopLabels, KlogLabels
<1>3. CASE f.pc \in TaskLabels /\ g.pc \in {"none"} \cup KlogLabels \cup YieldLabels
  BY <1>1, <1>3 DEF Holds, HandOf, TaskLabels, KlogLabels, YieldLabels
<1>4. QED
  BY <1>2, <1>3

LEMMA HolderHand ==
  ASSUME IInv, NEW t \in Tasks, NEW x \in Contexts
  PROVE  x \in Holders(t) <=> Hand(x) = t
<1>1. PICK s : s = stack[x]
  OBVIOUS
<1>2. IsStack(s)
  BY <1>1 DEF IInv, TypeOK
<1>3. \/ Base(s).pc \in BootLabels /\ Sub(s).pc \in {"none"} \cup KlogLabels
      \/ Base(s).pc \in TaskLabels /\ Sub(s).pc \in {"none"} \cup KlogLabels \cup YieldLabels
  <2>1. CASE x \in CPUs
    BY <1>1, <2>1 DEF IInv, CpuInv, BootCalls
  <2>2. CASE x \in Tasks
    BY <1>1, <2>2 DEF IInv, CpuInv, TaskCalls
  <2>3. QED
    BY <2>1, <2>2, Constants
<1>4. (Holds(Base(s), t) \/ Holds(Sub(s), t)) <=> Hand(x) = t
  BY <1>1, <1>3, HandOfFrames DEF Hand
<1>5. (\E i \in 1..Len(s) : Holds(s[i], t)) <=> Holds(Base(s), t) \/ Holds(Sub(s), t)
  <2>1. CASE Len(s) = 1
    <3>1. Base(s) = s[1] /\ Sub(s) = NoFrame
      BY <2>1 DEF Base, Sub
    <3>2. ~Holds(NoFrame, t)
      BY KlogFrame DEF Holds
    <3>3. \A i : i \in 1..Len(s) <=> i = 1
      BY <2>1
    <3>4. QED
      BY <3>1, <3>2, <3>3
  <2>2. CASE Len(s) = 2
    <3>1. Base(s) = s[2] /\ Sub(s) = s[1]
      BY <2>2 DEF Base, Sub
    <3>2. \A i : i \in 1..Len(s) <=> i = 1 \/ i = 2
      BY <2>2
    <3>3. QED
      BY <3>1, <3>2
  <2>3. QED
    BY <1>2, <2>1, <2>2 DEF IsStack
<1>6. QED
  BY <1>1, <1>4, <1>5 DEF Holders

LEMMA AtMostOne ==
  ASSUME NEW S, \A x, y \in S : x = y
  PROVE  Cardinality(S) <= 1
<1>1. CASE S = {}
  BY <1>1, FS_EmptySet
<1>2. CASE S # {}
  <2>1. PICK x : S = {x}
    BY <1>2
  <2>2. QED
    BY <2>1, FS_Singleton
<1>3. QED
  BY <1>1, <1>2

(* No task is lost, and none is in two places: on the queue, in the hands  *)
(* of one CPU, or running.                                                 *)
THEOREM NoTaskLostHolds ==
  ASSUME Cooperative
  PROVE  Spec => []NoTaskLost
<1>1. ASSUME IInv, NEW t \in 1..created
      PROVE  LET queued == Queued(t)
                 held == Holders(t) # {}
                 running == \E c \in CPUs : on[c] = t
                 leaving == Head(stack[t]).pc \in {"yield_set", "yield_switch"}
             IN  /\ state[t] # "DEAD" => queued \/ held \/ running
                 /\ ~(queued /\ held)
                 /\ running /\ queued => leaving
                 /\ running /\ held => Holders(t) = {t}
                 /\ Cardinality(Holders(t)) <= 1
                 /\ \A x \in Holders(t) : state[x] = "DEAD" => \E c \in CPUs : on[c] = x
                 /\ Cardinality({i \in 1..Len(runq) : runq[i] = t}) <= 1
  <2>1. t \in Tasks /\ t <= created
    BY <1>1, Constants DEF IInv, TypeOK
  <2>2. PlaceOf(t)
    BY <1>1, <2>1 DEF IInv, PlaceInv
  <2>3. /\ Holders(t) \subseteq Contexts
        /\ \A x \in Contexts : x \in Holders(t) <=> Hand(x) = t
    BY <1>1, <2>1, HolderHand DEF Holders
  <2>4. state[t] # "DEAD" => Queued(t) \/ Holders(t) # {} \/ \E c \in CPUs : on[c] = t
    BY <2>1, <2>2, <2>3 DEF PlaceOf
  <2>5. ~(Queued(t) /\ Holders(t) # {})
    BY <2>2, <2>3 DEF PlaceOf
  <2>6. Queued(t) \/ Holders(t) # {} => \A c \in CPUs : on[c] # t
    BY <2>2, <2>3 DEF PlaceOf, Fresh
  <2>7. Cardinality(Holders(t)) <= 1
    <3>1. \A x, y \in Holders(t) : x = y
      BY <2>2, <2>3 DEF PlaceOf
    <3>2. QED
      BY <3>1, AtMostOne
  <2>8. ASSUME NEW x \in Holders(t) PROVE \E c \in CPUs : on[c] = x
    <3>1. x \in Contexts /\ Hand(x) = t
      BY <2>3, <2>8
    <3>2. CASE x \in Tasks
      BY <2>2, <3>1, <3>2 DEF PlaceOf
    <3>3. CASE x \in CPUs
      <4>1. CASE OnTask(x)
        <5>1. Hand(x) = NULL
          BY <4>1 DEF OnTask, Hand, HandOf
        <5>2. QED
          BY <2>1, <3>1, <5>1, Constants
      <4>2. QED
        BY <1>1, <3>3, <4>1 DEF IInv, CpuInv
    <3>4. QED
      BY <3>1, <3>2, <3>3, Constants
  <2>9. Cardinality({i \in 1..Len(runq) : runq[i] = t}) <= 1
    <3>1. \A x, y \in {i \in 1..Len(runq) : runq[i] = t} : x = y
      BY <1>1 DEF IInv, PlaceInv
    <3>2. QED
      BY <3>1, AtMostOne
  <2>10. QED
    BY <2>4, <2>5, <2>6, <2>7, <2>8, <2>9
<1>2. IInv => NoTaskLost
  BY <1>1 DEF NoTaskLost
<1>3. QED
  BY <1>2, Invariance, PTL
=============================================================================
