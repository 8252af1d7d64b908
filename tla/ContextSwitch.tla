--------------------------- MODULE ContextSwitch ----------------------------
(***************************************************************************)
(* Registers and stacks in a context switch: the pushes and pops of        *)
(* scheduler_context_switch (drivers/scheduler.nasm) and of the interrupt  *)
(* and exception entries (drivers/idt.nasm), the first frame task_create   *)
(* builds and what task_trampoline takes from it (drivers/scheduler.c),    *)
(* and what exception_handler is told (drivers/idt.c).  Which task comes   *)
(* next is the subject of Scheduler.tla; here it is any other one.         *)
(*                                                                         *)
(* A stack is the sequence of its words, the top first; a word is a        *)
(* register's value, or an address to return to, written as the place it   *)
(* leads to.  The code of a task is not known: it has its own values in    *)
(* all registers, calls scheduler_yield, is interrupted, and may fault.    *)
(* Of what the CPU pushes for an interrupt, the return address stands for  *)
(* all but the error code.                                                 *)
(***************************************************************************)
EXTENDS Integers, Sequences

CONSTANTS
  Tasks,      \* tasks made by task_create
  Boot,       \* the context of cpu_enter_worker
  Versions,   \* values a register may take in the code of one context
  Vectors,    \* exceptions the code of a context may raise
  ErrorCodes  \* error codes the CPU may push for them

ASSUME ContextSwitchAssumption ==
  /\ Boot \notin Tasks
  /\ Vectors \subseteq 0..31

Contexts == Tasks \cup {Boot}

(* In the order in which each routine pushes them.                         *)
CalleeSaved == <<"rbp", "rbx", "r12", "r13", "r14", "r15">>
AllRegs == <<"rax", "rbx", "rcx", "rdx", "rsi", "rdi", "rbp", "r8", "r9",
             "r10", "r11", "r12", "r13", "r14", "r15">>

Names(order) == {order[i] : i \in DOMAIN order}
Regs == Names(AllRegs)

VARIABLES
  on,        \* the context the CPU executes on
  pc,        \* where
  regs,      \* the general registers
  stack,     \* the words on each context's stack
  want,      \* history: what each context must find when it goes on
  started,   \* what task_trampoline has called: <<function, argument>>
  raised,    \* history: the exception the CPU raised: <<vector, code>>
  report     \* what exception_handler prints: <<vector, code, rip>>

vars == <<on, pc, regs, stack, want, started, raised, report>>
exceptionVars == <<raised, report>>

Any == <<"any">>
None == << >>

Value(x, r, v) == <<x, r, v>>
VectorWord(v) == <<"cpu", "vector", v>>
CodeWord(c) == <<"cpu", "code", c>>
File(x, v) == [r \in Regs |-> Value(x, r, v)]

-----------------------------------------------------------------------------
(* A stack after the registers have been pushed, and the registers after   *)
(* they have been popped in the opposite order.                            *)
Pushed(s, order) ==
  [i \in DOMAIN order |-> regs[order[Len(order) + 1 - i]]] \o s
PoppedForward(s, order) ==
  [r \in Regs |-> IF r \in Names(order)
                  THEN s[CHOOSE i \in DOMAIN order : order[i] = r]
                  ELSE regs[r]]
Popped(s, order) ==
  [r \in Regs |-> IF r \in Names(order)
                  THEN s[CHOOSE i \in DOMAIN order : order[Len(order) + 1 - i] = r]
                  ELSE regs[r]]
Drop(s, n) == SubSeq(s, n + 1, Len(s))

(* The first frame of a task, from rsp up: the words are written downwards *)
(* in the order r15, r14, r13, r12, rbx, rbp.                              *)
TaskFrameNoExit(t) ==
  <<"0", "0", Value(t, "entry", 0), Value(t, "arg", 0), "0", "0",
    "task_trampoline">>
TaskFrame(t) ==
  <<"0", "0", Value(t, "entry", 0), Value(t, "arg", 0), "0", "0",
    "task_trampoline", "task_exit">>

Init ==
  /\ on = Boot /\ pc = "run"
  /\ \E v \in Versions : regs = File(Boot, v)
  /\ stack = [x \in Contexts |-> IF x \in Tasks THEN TaskFrame(x) ELSE << >>]
  /\ want = [x \in Contexts |-> IF x = Boot THEN regs ELSE [r \in Regs |-> Any]]
  /\ started = [t \in Tasks |-> None]
  /\ raised = None /\ report = None

(* Compiled code keeps the callee-saved registers of its caller only.      *)
Clobbered == [r \in Regs |-> IF r \in Names(CalleeSaved) THEN regs[r] ELSE Any]

-----------------------------------------------------------------------------
(* The code of the context computes.                                       *)
Compute(v) ==
  /\ pc = "run"
  /\ regs' = File(on, v)
  /\ want' = [want EXCEPT ![on] = regs']
  /\ UNCHANGED <<on, pc, stack, started, exceptionVars>>

(* It calls scheduler_yield, or cpu_enter_worker switches.                 *)
scheduler_yield ==
  /\ pc = "run"
  /\ stack' = [stack EXCEPT ![on] = <<"run">> \o @]
  /\ regs' = Clobbered
  /\ want' = [want EXCEPT ![on] = Clobbered]
  /\ pc' = "yield"
  /\ UNCHANGED <<on, started, exceptionVars>>

(* It is interrupted: everything is pushed, then timer_handler called.     *)
isr_timer ==
  /\ pc = "run"
  /\ stack' = [stack EXCEPT ![on] = <<"isr_pop">> \o Pushed(<<"run">> \o @, AllRegs)]
  /\ regs' = Clobbered
  /\ want' = [want EXCEPT ![on] = regs]
  /\ pc' = "yield"
  /\ UNCHANGED <<on, started, exceptionVars>>

(* A spurious interrupt: spurious_handler logs and returns.                *)
isr_spurious ==
  /\ pc = "run"
  /\ stack' = [stack EXCEPT ![on] = Pushed(<<"run">> \o @, AllRegs)]
  /\ regs' = Clobbered
  /\ want' = [want EXCEPT ![on] = regs]
  /\ pc' = "isr_pop"
  /\ UNCHANGED <<on, started, exceptionVars>>

(* The vectors whose stubs are made with isr_err: the CPU has pushed the   *)
(* error code.  The others push a 0 in its place.                          *)
isr_errNoAlignment == {8, 10, 11, 12, 13, 14, 21, 30}
isr_err == {8, 10, 11, 12, 13, 14, 17, 21, 30}

(* The processor's manual: the vectors that come with an error code.       *)
CpuPushesCode == {8, 10, 11, 12, 13, 14, 17, 21, 29, 30}

(* An instruction of the context faults.  The CPU pushes the error code    *)
(* where the vector has one, the stub the rest, and isr_common all         *)
(* registers.                                                              *)
isr_common(v, c) ==
  /\ pc = "run"
  /\ v \notin CpuPushesCode => c = 0
  /\ LET cpu == IF v \in CpuPushesCode THEN <<CodeWord(c)>> ELSE << >>
         stub == IF v \in isr_err THEN << >> ELSE <<CodeWord(0)>>
     IN stack' = [stack EXCEPT ![on] =
          Pushed(<<VectorWord(v)>> \o stub \o cpu \o <<"run">> \o @, AllRegs)]
  /\ raised' = <<VectorWord(v), CodeWord(c)>>
  /\ pc' = "exception_handler"
  /\ UNCHANGED <<on, regs, want, started, report>>

(* exception_names has an entry for the vectors 0 to 30.                   *)
exception_names == 0..30

(* The arguments are the words at rsp + 15*8 and rsp + 16*8; the printed   *)
(* rip is the word at rbp + 16, and rbp is whatever the context had in it. *)
(* kpanic does not return.                                                 *)
exception_handler(rip) ==
  /\ pc = "exception_handler"
  /\ report' = <<stack[on][15 + 1], stack[on][16 + 1], rip>>
  /\ pc' = "kpanic"
  /\ UNCHANGED <<on, regs, stack, want, started, raised>>

(* scheduler_yield finds nothing else to run.                              *)
YieldReturns ==
  /\ pc = "yield"
  /\ pc' = Head(stack[on])
  /\ stack' = [stack EXCEPT ![on] = Tail(@)]
  /\ UNCHANGED <<on, regs, want, started, exceptionVars>>

(* The old context keeps its rsp; what the new one has on its stack is     *)
(* popped, and the last word is where it returns to: gcc makes the call at *)
(* the end of scheduler_yield a jump, so that is scheduler_yield's caller. *)
scheduler_context_switch(new) ==
  /\ pc = "yield" /\ new # on
  /\ regs' = Popped(stack[new], CalleeSaved)
  /\ pc' = stack[new][Len(CalleeSaved) + 1]
  /\ stack' = [stack EXCEPT ![on] = Pushed(@, CalleeSaved),
                            ![new] = Drop(@, Len(CalleeSaved) + 1)]
  /\ on' = new
  /\ UNCHANGED <<want, started, exceptionVars>>

IsrPop ==
  /\ pc = "isr_pop"
  /\ regs' = Popped(stack[on], AllRegs)
  /\ pc' = stack[on][Len(AllRegs) + 1]
  /\ stack' = [stack EXCEPT ![on] = Drop(@, Len(AllRegs) + 1)]
  /\ UNCHANGED <<on, want, started, exceptionVars>>

(* r12 is called with r13 as its argument.                                 *)
task_trampoline ==
  /\ pc = "task_trampoline"
  /\ started' = [started EXCEPT ![on] = <<regs["r12"], regs["r13"]>>]
  /\ pc' = "run"
  /\ UNCHANGED <<on, regs, stack, want, exceptionVars>>

Next ==
  \/ \E v \in Versions : Compute(v)
  \/ scheduler_yield \/ isr_timer \/ isr_spurious \/ YieldReturns \/ IsrPop \/ task_trampoline
  \/ \E x \in Contexts : scheduler_context_switch(x)
  \/ \E v \in Vectors, c \in ErrorCodes : isr_common(v, c)
  \/ \E rip \in {"run", "any"} : exception_handler(rip)

Spec == Init /\ [][Next]_vars

-----------------------------------------------------------------------------
(* Code that goes on after a yield finds its callee-saved registers, and   *)
(* code that was interrupted all registers, as it left them, whatever ran  *)
(* in between.                                                             *)
RegistersKept ==
  pc = "run" => \A r \in Regs : want[on][r] \in {Any, regs[r]}

(* While the code of a context runs, all its calls and interrupts have     *)
(* been taken off its stack again; below the code of a task lies the       *)
(* address of task_exit (scheduler.c:123).                                 *)
StackBalanced ==
  pc = "run" => stack[on] = IF on \in Tasks THEN <<"task_exit">> ELSE << >>

(* task_trampoline calls the entry of its task with the task's argument    *)
(* (scheduler.c:16, "r12 = entry, r13 = arg - set up by task_create").     *)
EntryCalled ==
  \A t \in Tasks :
    started[t] \in {None, <<Value(t, "entry", 0), Value(t, "arg", 0)>>}

(* The panic message names the exception that was raised and gives the     *)
(* CPU's error code, 0 where there is none, whatever lay on the stack of   *)
(* the code that faulted; and the vector has a name to print (idt.c:38).   *)
ExceptionReported ==
  report # None =>
    /\ SubSeq(report, 1, 2) = raised
    /\ report[1] \in {VectorWord(v) : v \in exception_names}

(* The message says "at rip=" (idt.c:38): the address printed is that of   *)
(* the instruction that faulted.                                           *)
ReportedRip == report # None => report[3] = "run"
=============================================================================
