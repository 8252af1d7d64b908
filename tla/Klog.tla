-------------------------------- MODULE Klog --------------------------------
(***************************************************************************)
(* The kernel log, lib/klogf.c, with its two sinks (serial port and        *)
(* console), the panic of kernel/panic.c and the spurious interrupt of     *)
(* drivers/idt.c, which logs from interrupt context.                       *)
(*                                                                         *)
(* A line has three pieces, the prefix of its level, the text and the      *)
(* newline; kvlog sends each piece to one sink and then to the other, and  *)
(* changes the console's colour, which is shared, in between.  A call is   *)
(* the sequence of what it does and where it is in that, and one step does *)
(* one of these; a piece is written in one step.  The UART always drains.  *)
(***************************************************************************)
EXTENDS Integers, Sequences

CONSTANTS
  CPUs, BSP,
  Levels,      \* log_level_t; a level also stands for the colour of its prefix
  WARN,        \* LOG_WARN
  White,       \* the colour of the text
  Panics,      \* may a CPU panic?
  Spurious,    \* may a spurious interrupt hit the BSP?
  MaxCalls     \* bound on the calls of klog and kpanic

ASSUME KlogAssumption ==
  /\ BSP \in CPUs
  /\ WARN \in Levels /\ White \notin Levels
  /\ Panics \in BOOLEAN /\ Spurious \in BOOLEAN
  /\ MaxCalls \in Nat

VARIABLES
  ready,      \* console_ready(); other CPUs run only once it is
  locked,     \* klog_lock
  calls,      \* calls under way on a CPU, the innermost last
  halted,     \* the CPUs that kpanic has halted
  serial,     \* what the serial port has been sent
  lines,      \* history: that without the messages of panics in between
  console,    \* what the console has been sent
  color,      \* the console's colour
  made        \* calls made so far

vars == <<ready, locked, calls, halted, serial, lines, console, color, made>>

Init ==
  /\ ready = FALSE
  /\ locked = FALSE
  /\ calls = [c \in CPUs |-> << >>]
  /\ halted = {}
  /\ serial = << >> /\ lines = << >> /\ console = << >>
  /\ color = White
  /\ made = 0

-----------------------------------------------------------------------------
(* What klog and kvlog do, and what kpanic does: the serial port only, and *)
(* without the lock.                                                       *)
klog_opsUnlocked ==
  <<<<"serial", "prefix">>, <<"color", "level">>, <<"console", "prefix">>,
    <<"color", "white">>, <<"console", "text">>, <<"serial", "text">>,
    <<"serial", "newline">>, <<"console", "newline">>>>
klog_opsNoText ==
  <<<<"acquire">>, <<"serial", "prefix">>, <<"color", "level">>,
    <<"console", "prefix">>, <<"color", "white">>, <<"serial", "text">>,
    <<"serial", "newline">>, <<"console", "newline">>, <<"release">>>>
klog_ops ==
  <<<<"acquire">>, <<"serial", "prefix">>, <<"color", "level">>,
    <<"console", "prefix">>, <<"color", "white">>, <<"console", "text">>,
    <<"serial", "text">>, <<"serial", "newline">>, <<"console", "newline">>,
    <<"release">>>>

kpanic_opsLocked ==
  <<<<"acquire">>, <<"serial", "panic">>, <<"serial", "panic text">>,
    <<"serial", "panic newline">>, <<"halt">>>>
kpanic_ops ==
  <<<<"serial", "panic">>, <<"serial", "panic text">>,
    <<"serial", "panic newline">>, <<"halt">>>>

Top(c) == calls[c][Len(calls[c])]
Op(c) == Top(c).ops[Top(c).at]
Does(c, what) == calls[c] # << >> /\ Op(c)[1] = what

(* The operation is done; after the last one the call returns.             *)
Advance(c) ==
  LET n == Len(calls[c])
  IN  calls' = [calls EXCEPT ![c] =
                  IF Top(c).at = Len(Top(c).ops) THEN SubSeq(calls[c], 1, n - 1)
                  ELSE [calls[c] EXCEPT ![n].at = Top(c).at + 1]]

Call(c, ops, level, irq) ==
  /\ made < MaxCalls /\ made' = made + 1
  /\ calls' = [calls EXCEPT ![c] = Append(@, [ops |-> ops, at |-> 1, level |-> level, irq |-> irq])]
  /\ UNCHANGED <<ready, locked, halted, serial, lines, console, color>>

LogKinds == {"prefix", "text", "newline"}
Piece(c) == [cpu |-> c, kind |-> Op(c)[2], level |-> Top(c).level]

-----------------------------------------------------------------------------
(* kernel_main brings up the console between two lines of its own, before  *)
(* it starts the other CPUs.                                               *)
console_init ==
  /\ ~ready /\ calls[BSP] = << >> /\ BSP \notin halted
  /\ ready' = TRUE
  /\ UNCHANGED <<locked, calls, halted, serial, lines, console, color, made>>

klog(c, level) ==
  /\ calls[c] = << >> /\ c \notin halted
  /\ ready \/ c = BSP
  /\ Call(c, klog_ops, level, FALSE)

(* Interrupts are enabled on the BSP once the other CPUs run; the gate     *)
(* clears them for the handler.                                            *)
spurious_handler ==
  /\ Spurious /\ ready /\ BSP \notin halted
  /\ \A i \in DOMAIN calls[BSP] : ~calls[BSP][i].irq
  /\ Call(BSP, klog_ops, WARN, TRUE)

(* The call of a panic has no level; it carries White instead.             *)
Panicking(c) == calls[c] # << >> /\ Top(c).level = White

(* A failed check on any CPU, wherever it is, or an exception on the BSP   *)
(* (no other CPU has an interrupt table).                                  *)
kpanic(c) ==
  /\ Panics /\ c \notin halted /\ ~Panicking(c)
  /\ ready \/ c = BSP
  /\ Call(c, kpanic_ops, White, TRUE)

-----------------------------------------------------------------------------
spinlock_acquire(c) ==
  /\ Does(c, "acquire") /\ ~locked
  /\ locked' = TRUE
  /\ Advance(c)
  /\ UNCHANGED <<ready, halted, serial, lines, console, color, made>>

spinlock_release(c) ==
  /\ Does(c, "release")
  /\ locked' = FALSE
  /\ Advance(c)
  /\ UNCHANGED <<ready, halted, serial, lines, console, color, made>>

serial_print(c) ==
  /\ Does(c, "serial")
  /\ serial' = Append(serial, Piece(c))
  /\ lines' = IF Op(c)[2] \in LogKinds THEN Append(lines, Piece(c)) ELSE lines
  /\ Advance(c)
  /\ UNCHANGED <<ready, locked, halted, console, color, made>>

(* Nothing is sent to a console that is not ready.                         *)
console_print(c) ==
  /\ Does(c, "console")
  /\ console' = IF ready THEN Append(console, [piece |-> Piece(c), color |-> color])
                ELSE console
  /\ Advance(c)
  /\ UNCHANGED <<ready, locked, halted, serial, lines, color, made>>

console_set_color(c) ==
  /\ Does(c, "color")
  /\ color' = IF ~ready THEN color ELSE IF Op(c)[2] = "level" THEN Top(c).level ELSE White
  /\ Advance(c)
  /\ UNCHANGED <<ready, locked, halted, serial, lines, console, made>>

(* hlt with interrupts disabled, whatever the CPU was in the middle of.    *)
PanicHalt(c) ==
  /\ Does(c, "halt")
  /\ halted' = halted \cup {c}
  /\ calls' = [calls EXCEPT ![c] = << >>]
  /\ UNCHANGED <<ready, locked, serial, lines, console, color, made>>

-----------------------------------------------------------------------------
Step(c) ==
  \/ spinlock_acquire(c) \/ spinlock_release(c)
  \/ serial_print(c) \/ console_print(c) \/ console_set_color(c)
  \/ PanicHalt(c)

(* The bound is used up and nobody is inside a call.                       *)
Quiet ==
  /\ made = MaxCalls
  /\ \A c \in CPUs : calls[c] = << >>
  /\ UNCHANGED vars

Next ==
  \/ console_init \/ spurious_handler \/ Quiet
  \/ \E c \in CPUs : \/ Step(c) \/ kpanic(c)
                     \/ \E level \in Levels : klog(c, level)

Spec == Init /\ [][Next]_vars

(* A CPU does not stop executing; the spinlock promises nobody its turn.   *)
FairSpec == Spec /\ \A c \in CPUs : WF_vars(Step(c))

-----------------------------------------------------------------------------
LineKinds == <<"prefix", "text", "newline">>

(* Three pieces of one call, in order; the last call may not be complete.  *)
WholeLines(s) ==
  \A i \in DOMAIN s :
    LET first == s[i - ((i - 1) % 3)]
    IN  /\ s[i].kind = LineKinds[((i - 1) % 3) + 1]
        /\ s[i].cpu = first.cpu /\ s[i].level = first.level

LogConsole == [i \in DOMAIN console |-> console[i].piece]

(* Whatever the CPUs log at the same time, neither sink ever shows parts   *)
(* of two log lines mixed, and on the console each prefix is in the colour *)
(* of its level and all other text is white, although the colour is one    *)
(* variable for all CPUs.                                                  *)
LinesWhole ==
  /\ WholeLines(lines) /\ WholeLines(LogConsole)
  /\ \A i \in DOMAIN console :
       console[i].color = IF console[i].piece.kind = "prefix"
                          THEN console[i].piece.level ELSE White

(* While nobody is inside, the console shows exactly what the serial port  *)
(* got since the console came up, in the same order.                       *)
SinksAgree ==
  (ready /\ ~locked) =>
    /\ Len(LogConsole) <= Len(lines)
    /\ LogConsole = SubSeq(lines, Len(lines) - Len(LogConsole) + 1, Len(lines))

(* The message of a panic gets out, even if the CPU that panics, or one    *)
(* that panicked before, holds klog_lock.                                  *)
PanicGetsOut ==
  \A c \in CPUs : (Panicking(c) ~> c \in halted)

(* Each spurious interrupt is logged, as spurious_handler says             *)
(* (drivers/idt.c:57): its handler returns.                                *)
SpuriousLogged ==
  (\E i \in DOMAIN calls[BSP] : calls[BSP][i].irq)
    ~> (\A i \in DOMAIN calls[BSP] : ~calls[BSP][i].irq)
=============================================================================
