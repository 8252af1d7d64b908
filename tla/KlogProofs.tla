----------------------------- MODULE KlogProofs -----------------------------
(***************************************************************************)
(* The kernel log, for any number of CPUs, any levels and any number of    *)
(* calls, with panics and spurious interrupts at any moment; then what it  *)
(* formats, for any calls whose arguments match, any values and any widths *)
(* of the length modifiers.                                                *)
(***************************************************************************)
EXTENDS Klog, Format, FiniteSetTheorems, SequenceTheorems, NaturalsInduction, TLAPS

(* The inductive invariant.                                                *)
Colors == Levels \cup {White}
LogCalls == [ops : {klog_ops}, at : 1..10, level : Levels, irq : BOOLEAN]
PanicCalls == [ops : {kpanic_ops}, at : 1..4, level : {White}, irq : {TRUE}]
Pieces == [cpu : CPUs, kind : LogKinds, level : Levels]

TypeOK ==
  /\ ready \in BOOLEAN /\ locked \in BOOLEAN
  /\ calls \in [CPUs -> Seq(LogCalls \cup PanicCalls)]
  /\ halted \subseteq CPUs
  /\ lines \in Seq(Pieces)
  /\ console \in Seq([piece : Pieces, color : Colors])
  /\ color \in Colors

(* Call i of CPU c holds klog_lock.                                        *)
Holds(c, i) == calls[c][i].level \in Levels /\ calls[c][i].at > 1

(* One call holds the lock, or none; it stays taken without a holder only  *)
(* after a panic.  Before the console is ready only the BSP runs.          *)
LockInv ==
  /\ \A c, d \in CPUs : \A i \in DOMAIN calls[c], j \in DOMAIN calls[d] :
       Holds(c, i) /\ Holds(d, j) => c = d /\ i = j
  /\ \A c \in CPUs : \A i \in DOMAIN calls[c] : Holds(c, i) => locked
  /\ locked => \/ \E c \in CPUs : \E i \in DOMAIN calls[c] : Holds(c, i)
               \/ halted # {}
  /\ ~ready => /\ console = << >>
               /\ \A c \in CPUs \ {BSP} : calls[c] = << >> /\ c \notin halted

(* Pieces of its line a call has sent to each sink before operation k.     *)
SentSerial(k) ==
  IF k > 8 THEN 3 ELSE IF k > 7 THEN 2 ELSE IF k > 2 THEN 1 ELSE 0
SentConsole(k) ==
  IF ~ready THEN 0
  ELSE IF k > 9 THEN 3 ELSE IF k > 6 THEN 2 ELSE IF k > 4 THEN 1 ELSE 0

(* Without the n and m pieces of a line under way, both sinks hold whole   *)
(* lines, and the console a final part of what the serial port does.       *)
Agree(n, m) ==
  LET N == Len(lines) - n
      M == Len(console) - m
  IN  /\ N \in Nat /\ N % 3 = 0
      /\ M \in Nat /\ M % 3 = 0 /\ M <= N
      /\ \A i \in 1..M : console[i].piece = lines[N - M + i]

LinePiece(i, c, level) == [cpu |-> c, kind |-> LineKinds[i], level |-> level]
Begun(n, m, c, level) ==
  /\ \A i \in 1..n : lines[Len(lines) - n + i] = LinePiece(i, c, level)
  /\ \A i \in 1..m : console[Len(console) - m + i].piece = LinePiece(i, c, level)

(* Where the sinks and the colour are while a call holds the lock,         *)
UnderWay(c, i) ==
  LET r == calls[c][i]
  IN  /\ Agree(SentSerial(r.at), SentConsole(r.at))
      /\ Begun(SentSerial(r.at), SentConsole(r.at), c, r.level)
      /\ color = IF ready /\ r.at \in {4, 5} THEN r.level ELSE White

(* and while the lock is free.                                             *)
LineInv ==
  /\ ~locked => Agree(0, 0) /\ color = White
  /\ \A c \in CPUs : \A i \in DOMAIN calls[c] : Holds(c, i) => UnderWay(c, i)

IInv == TypeOK /\ LockInv /\ LineInv /\ LinesWhole

-----------------------------------------------------------------------------
LEMMA KlogOps ==
  /\ Len(klog_ops) = 10
  /\ \A k \in 1..10 :
            /\ klog_ops[k][1] = "acquire" <=> k = 1
            /\ klog_ops[k][1] = "release" <=> k = 10
            /\ klog_ops[k][1] = "serial" <=> k \in {2, 7, 8}
            /\ klog_ops[k][1] = "console" <=> k \in {4, 6, 9}
            /\ klog_ops[k][1] = "color" <=> k \in {3, 5}
            /\ klog_ops[k][1] # "halt"
  /\ klog_ops[2][2] = "prefix" /\ klog_ops[7][2] = "text" /\ klog_ops[8][2] = "newline"
  /\ klog_ops[4][2] = "prefix" /\ klog_ops[6][2] = "text" /\ klog_ops[9][2] = "newline"
  /\ klog_ops[3][2] = "level" /\ klog_ops[5][2] = "white"
<1>1. Len(klog_ops) = 10
  BY DEF klog_ops
<1>2. ASSUME NEW k \in 1..10
      PROVE  /\ klog_ops[k][1] = "acquire" <=> k = 1
             /\ klog_ops[k][1] = "release" <=> k = 10
             /\ klog_ops[k][1] = "serial" <=> k \in {2, 7, 8}
             /\ klog_ops[k][1] = "console" <=> k \in {4, 6, 9}
             /\ klog_ops[k][1] = "color" <=> k \in {3, 5}
             /\ klog_ops[k][1] # "halt"
  <2>1. k \in {1, 2, 3, 4, 5, 6, 7, 8, 9, 10}
    OBVIOUS
  <2> QED BY <2>1 DEF klog_ops
<1>3. /\ klog_ops[2][2] = "prefix" /\ klog_ops[7][2] = "text" /\ klog_ops[8][2] = "newline"
      /\ klog_ops[4][2] = "prefix" /\ klog_ops[6][2] = "text" /\ klog_ops[9][2] = "newline"
      /\ klog_ops[3][2] = "level" /\ klog_ops[5][2] = "white"
  BY DEF klog_ops
<1> QED BY <1>1, <1>2, <1>3

LEMMA KpanicOps ==
  /\ Len(kpanic_ops) = 4
  /\ \A k \in 1..4 :
            /\ kpanic_ops[k][1] \in {"serial", "halt"}
            /\ kpanic_ops[k][1] = "halt" <=> k = 4
            /\ k # 4 => kpanic_ops[k][2] \notin LogKinds
<1>1. Len(kpanic_ops) = 4
  BY DEF kpanic_ops
<1>2. ASSUME NEW k \in 1..4
      PROVE  /\ kpanic_ops[k][1] \in {"serial", "halt"}
             /\ kpanic_ops[k][1] = "halt" <=> k = 4
             /\ k # 4 => kpanic_ops[k][2] \notin LogKinds
  <2>1. k = 1 \/ k = 2 \/ k = 3 \/ k = 4
    OBVIOUS
  <2>2. CASE k = 1
    BY <2>2 DEF kpanic_ops, LogKinds
  <2>3. CASE k = 2
    BY <2>3 DEF kpanic_ops, LogKinds
  <2>4. CASE k = 3
    BY <2>4 DEF kpanic_ops, LogKinds
  <2>5. CASE k = 4
    BY <2>5 DEF kpanic_ops, LogKinds
  <2> QED BY <2>1, <2>2, <2>3, <2>4, <2>5
<1> QED BY <1>1, <1>2

(* The innermost call of a CPU that does something.                        *)
LEMMA TopCall ==
  ASSUME TypeOK, NEW c \in CPUs, calls[c] # << >>
  PROVE  /\ Len(calls[c]) \in Nat \ {0} /\ Len(calls[c]) \in DOMAIN calls[c]
         /\ DOMAIN calls[c] = 1..Len(calls[c])
         /\ Top(c) \in LogCalls \cup PanicCalls
         /\ Top(c) \in LogCalls <=> Top(c).level \in Levels
<1>1. calls[c] \in Seq(LogCalls \cup PanicCalls)
  BY DEF TypeOK
<1>2. Len(calls[c]) \in Nat \ {0} /\ DOMAIN calls[c] = 1..Len(calls[c])
  BY <1>1
<1>3. Top(c) \in LogCalls \cup PanicCalls
  BY <1>1, <1>2 DEF Top
<1>4. Top(c) \in LogCalls => Top(c).level \in Levels
  BY DEF LogCalls
<1>5. Top(c) \in PanicCalls => Top(c).level \notin Levels
  BY KlogAssumption DEF PanicCalls
<1> QED BY <1>2, <1>3, <1>4, <1>5

(* Advance changes the innermost call of one CPU and no other.             *)
LEMMA AdvanceCalls ==
  ASSUME TypeOK, NEW c \in CPUs, calls[c] # << >>, Advance(c)
  PROVE  /\ calls' \in [CPUs -> Seq(LogCalls \cup PanicCalls)]
         /\ \A d \in CPUs \ {c} : calls'[d] = calls[d]
         /\ \A i \in DOMAIN calls[c] : i # Len(calls[c]) =>
              i \in DOMAIN calls'[c] /\ calls'[c][i] = calls[c][i]
         /\ DOMAIN calls'[c] = IF Top(c).at = Len(Top(c).ops)
                               THEN 1..(Len(calls[c]) - 1) ELSE 1..Len(calls[c])
         /\ Top(c).at # Len(Top(c).ops) =>
              /\ calls'[c][Len(calls[c])].at = Top(c).at + 1
              /\ calls'[c][Len(calls[c])].level = Top(c).level
<1> DEFINE s == calls[c]
           n == Len(calls[c])
           r == Top(c)
           t == calls'[c]
<1>1. /\ n \in Nat \ {0} /\ n \in 1..n /\ DOMAIN s = 1..n
      /\ r \in LogCalls \cup PanicCalls /\ r = s[n]
      /\ s \in Seq(LogCalls \cup PanicCalls) /\ calls \in [CPUs -> Seq(LogCalls \cup PanicCalls)]
  BY TopCall DEF TypeOK, Top
<1>2. /\ t = IF r.at = Len(r.ops) THEN SubSeq(s, 1, n - 1)
             ELSE [s EXCEPT ![n].at = r.at + 1]
      /\ \A d \in CPUs \ {c} : calls'[d] = calls[d]
      /\ DOMAIN calls' = CPUs
  <2>1. calls' = [calls EXCEPT ![c] = IF r.at = Len(r.ops) THEN SubSeq(s, 1, n - 1)
                                      ELSE [s EXCEPT ![n].at = r.at + 1]]
    BY DEF Advance
  <2> HIDE DEF s, n, r
  <2> QED BY <1>1, <2>1
<1>3. /\ r \in LogCalls => r.at \in 1..10 /\ Len(r.ops) = 10
      /\ r \in PanicCalls => r.at \in 1..4 /\ Len(r.ops) = 4
  BY KlogOps, KpanicOps DEF LogCalls, PanicCalls
<1>4. CASE r.at = Len(r.ops)
  <2>1. t = SubSeq(s, 1, n - 1) /\ n - 1 \in Nat
    BY <1>1, <1>2, <1>4
  <2>2. /\ t \in Seq(LogCalls \cup PanicCalls) /\ DOMAIN t = 1..(n - 1)
        /\ \A i \in 1..(n - 1) : t[i] = s[i]
    BY <1>1, <2>1
  <2>3. calls' \in [CPUs -> Seq(LogCalls \cup PanicCalls)]
    <3>1. calls' = [calls EXCEPT ![c] = t]
      BY <1>2, <1>4, <2>1 DEF Advance
    <3> HIDE DEF t
    <3> QED BY <1>1, <2>2, <3>1
  <2>4. \A i \in DOMAIN s : i # n => i \in DOMAIN t /\ t[i] = s[i]
    BY <1>1, <2>2
  <2> QED BY <1>2, <1>4, <2>2, <2>3, <2>4
<1>5. CASE r.at # Len(r.ops)
  <2>0. t = [s EXCEPT ![n] = [r EXCEPT !.at = r.at + 1]]
    BY <1>1, <1>2, <1>5
  <2>1. [r EXCEPT !.at = r.at + 1] \in LogCalls \cup PanicCalls
    <3>1. CASE r \in LogCalls
      <4>1. r.at + 1 \in 1..10
        <5>1. r.at \in 1..10 /\ Len(r.ops) = 10 /\ r.at # Len(r.ops)
          BY <1>3, <1>5, <3>1
        <5> HIDE DEF r
        <5> QED BY <5>1
      <4> HIDE DEF r
      <4> QED BY <3>1, <4>1 DEF LogCalls
    <3>2. CASE r \in PanicCalls
      <4>1. r.at + 1 \in 1..4
        <5>1. r.at \in 1..4 /\ Len(r.ops) = 4 /\ r.at # Len(r.ops)
          BY <1>3, <1>5, <3>2
        <5> HIDE DEF r
        <5> QED BY <5>1
      <4> HIDE DEF r
      <4> QED BY <3>2, <4>1 DEF PanicCalls
    <3> QED BY <1>1, <3>1, <3>2
  <2>2. t[n].at = r.at + 1 /\ t[n].level = r.level
    BY <1>1, <2>0 DEF LogCalls, PanicCalls
  <2>3. /\ t \in Seq(LogCalls \cup PanicCalls) /\ DOMAIN t = 1..n
        /\ \A i \in DOMAIN s : i # n => i \in DOMAIN t /\ t[i] = s[i]
    BY <1>1, <2>0, <2>1
  <2>4. calls' \in [CPUs -> Seq(LogCalls \cup PanicCalls)]
    <3>1. calls' = [calls EXCEPT ![c] = t]
      BY <1>2, <1>5 DEF Advance
    <3> HIDE DEF t
    <3> QED BY <1>1, <2>3, <3>1
  <2> QED BY <1>2, <1>5, <2>2, <2>3, <2>4
<1> QED BY <1>4, <1>5
-----------------------------------------------------------------------------
LEMMA InitIInv == Init => IInv
<1> SUFFICES ASSUME Init PROVE IInv
  OBVIOUS
<1> USE KlogAssumption DEF Init
<1>1. TypeOK
  <2>1. calls \in [CPUs -> Seq(LogCalls \cup PanicCalls)]
    OBVIOUS
  <2>2. lines \in Seq(Pieces) /\ console \in Seq([piece : Pieces, color : Colors])
    OBVIOUS
  <2> QED BY <2>1, <2>2 DEF TypeOK, Colors
<1>2. LockInv
  BY DEF LockInv, Holds
<1>3. LineInv
  BY DEF LineInv, Agree, Holds
<1>4. LinesWhole
  BY DEF LinesWhole, WholeLines, LogConsole
<1> QED BY <1>1, <1>2, <1>3, <1>4 DEF IInv

(* Steps that write nothing and leave the call that holds the lock alone,  *)
(* unless its CPU is halted.                                               *)
LEMMA KeepIInv ==
  ASSUME IInv, TypeOK', UNCHANGED <<ready, locked, lines, console, color>>,
         halted \subseteq halted',
         \A d \in CPUs : \A i \in DOMAIN calls'[d] : Holds(d, i)' =>
           i \in DOMAIN calls[d] /\ calls'[d][i] = calls[d][i],
         \A d \in CPUs : \A i \in DOMAIN calls[d] : Holds(d, i) =>
           \/ i \in DOMAIN calls'[d] /\ calls'[d][i] = calls[d][i]
           \/ halted' # {},
         ~ready => \A d \in CPUs \ {BSP} : calls'[d] = << >> /\ d \notin halted'
  PROVE  IInv'
<1>1. \A d \in CPUs : \A i \in DOMAIN calls'[d] : Holds(d, i)' =>
        i \in DOMAIN calls[d] /\ Holds(d, i) /\ calls'[d][i] = calls[d][i]
  BY DEF Holds
<1>2. LockInv'
  <2>1. \A c, d \in CPUs : \A i \in DOMAIN calls'[c], j \in DOMAIN calls'[d] :
          Holds(c, i)' /\ Holds(d, j)' => c = d /\ i = j
    BY <1>1 DEF IInv, LockInv
  <2>2. \A c \in CPUs : \A i \in DOMAIN calls'[c] : Holds(c, i)' => locked'
    BY <1>1 DEF IInv, LockInv
  <2>3. locked' => \/ \E c \in CPUs : \E i \in DOMAIN calls'[c] : Holds(c, i)'
                   \/ halted' # {}
    BY DEF IInv, LockInv, Holds
  <2>4. ~ready' => console' = << >>
    BY DEF IInv, LockInv
  <2> QED BY <2>1, <2>2, <2>3, <2>4 DEF LockInv
<1>3. LineInv'
  <2>1. ~locked' => Agree(0, 0)' /\ color' = White
    BY DEF IInv, LineInv, Agree
  <2>2. ASSUME NEW d \in CPUs, NEW i \in DOMAIN calls'[d], Holds(d, i)'
        PROVE  UnderWay(d, i)'
    <3>1. UnderWay(d, i) /\ calls'[d][i] = calls[d][i]
      BY <1>1, <2>2 DEF IInv, LineInv
    <3>2. /\ SentSerial(calls[d][i].at)' = SentSerial(calls[d][i].at)
          /\ SentConsole(calls[d][i].at)' = SentConsole(calls[d][i].at)
      BY <3>1 DEF SentSerial, SentConsole
    <3> QED BY <3>1, <3>2 DEF UnderWay, Agree, Begun
  <2> QED BY <2>1, <2>2 DEF LineInv
<1>4. LinesWhole'
  <2>1. lines' = lines /\ console' = console /\ LogConsole' = LogConsole
    BY DEF LogConsole
  <2> QED BY <2>1 DEF IInv, LinesWhole, WholeLines
<1> QED BY <1>2, <1>3, <1>4 DEF IInv

(* A new call has not acquired the lock yet.                               *)
LEMMA CallIInv ==
  ASSUME IInv, NEW c \in CPUs, NEW ops, NEW level, NEW irq, Call(c, ops, level, irq),
         [ops |-> ops, at |-> 1, level |-> level, irq |-> irq] \in LogCalls \cup PanicCalls,
         ready \/ c = BSP
  PROVE  IInv'
<1> DEFINE r == [ops |-> ops, at |-> 1, level |-> level, irq |-> irq]
           s == calls[c]
<1>1. /\ calls' = [calls EXCEPT ![c] = Append(s, r)]
      /\ UNCHANGED <<ready, locked, halted, lines, console, color>>
  BY DEF Call
<1>2. r \in LogCalls \cup PanicCalls /\ r.at = 1
  OBVIOUS
<1>3. s \in Seq(LogCalls \cup PanicCalls) /\ calls \in [CPUs -> Seq(LogCalls \cup PanicCalls)]
  BY DEF IInv, TypeOK
<1> HIDE DEF r
<1>4. /\ Append(s, r) \in Seq(LogCalls \cup PanicCalls)
      /\ DOMAIN Append(s, r) = 1..(Len(s) + 1) /\ DOMAIN s = 1..Len(s) /\ Len(s) \in Nat
      /\ \A i \in 1..Len(s) : Append(s, r)[i] = s[i]
      /\ Append(s, r)[Len(s) + 1] = r
  BY <1>2, <1>3
<1>5. calls' \in [CPUs -> Seq(LogCalls \cup PanicCalls)] /\ calls'[c] = Append(s, r)
      /\ \A d \in CPUs \ {c} : calls'[d] = calls[d]
  BY <1>1, <1>3, <1>4
<1>6. TypeOK'
  BY <1>1, <1>5 DEF IInv, TypeOK
<1>7. ASSUME NEW d \in CPUs, NEW i \in DOMAIN calls'[d], Holds(d, i)'
      PROVE  i \in DOMAIN calls[d] /\ calls'[d][i] = calls[d][i]
  <2>1. CASE d # c
    BY <1>5, <2>1
  <2>2. CASE d = c
    <3>1. i # Len(s) + 1
      BY <1>2, <1>4, <1>5, <1>7, <2>2 DEF Holds
    <3> QED BY <1>4, <1>5, <2>2, <3>1
  <2> QED BY <2>1, <2>2
<1>8. \A d \in CPUs : \A i \in DOMAIN calls[d] :
        i \in DOMAIN calls'[d] /\ calls'[d][i] = calls[d][i]
  <2> SUFFICES ASSUME NEW d \in CPUs, NEW i \in DOMAIN calls[d]
               PROVE  i \in DOMAIN calls'[d] /\ calls'[d][i] = calls[d][i]
    OBVIOUS
  <2>1. CASE d # c
    BY <1>5, <2>1
  <2>2. CASE d = c
    BY <1>4, <1>5, <2>2
  <2> QED BY <2>1, <2>2
<1>9. ~ready => \A d \in CPUs \ {BSP} : calls'[d] = << >> /\ d \notin halted'
  BY <1>1, <1>5 DEF IInv, LockInv
<1> QED BY <1>1, <1>6, <1>7, <1>8, <1>9, KeepIInv

LEMMA CallsIInv ==
  ASSUME IInv
  PROVE  /\ spurious_handler => IInv'
         /\ \A c \in CPUs : kpanic(c) => IInv'
         /\ \A c \in CPUs : \A level \in Levels : klog(c, level) => IInv'
<1> USE KlogAssumption
<1>1. ASSUME spurious_handler PROVE IInv'
  <2>1. [ops |-> klog_ops, at |-> 1, level |-> WARN, irq |-> TRUE] \in LogCalls
    BY DEF LogCalls
  <2> QED BY <1>1, <2>1, CallIInv DEF spurious_handler
<1>2. ASSUME NEW c \in CPUs, kpanic(c) PROVE IInv'
  <2>1. [ops |-> kpanic_ops, at |-> 1, level |-> White, irq |-> TRUE] \in PanicCalls
    BY DEF PanicCalls
  <2> QED BY <1>2, <2>1, CallIInv DEF kpanic
<1>3. ASSUME NEW c \in CPUs, NEW level \in Levels, klog(c, level) PROVE IInv'
  <2>1. [ops |-> klog_ops, at |-> 1, level |-> level, irq |-> FALSE] \in LogCalls
    BY DEF LogCalls
  <2> QED BY <1>3, <2>1, CallIInv DEF klog
<1> QED BY <1>1, <1>2, <1>3

(* Before the console is ready nobody but the BSP can hold the lock, so it *)
(* comes up between two lines.                                             *)
LEMMA ConsoleInitIInv == ASSUME IInv, console_init PROVE IInv'
<1>1. /\ ~ready /\ ready' = TRUE /\ BSP \notin halted
      /\ UNCHANGED <<locked, calls, halted, lines, console, color>>
  BY DEF console_init
<1>2. \A c \in CPUs : calls[c] = << >>
  BY <1>1 DEF console_init, IInv, LockInv
<1>3. \A c \in CPUs : DOMAIN calls[c] = {}
  <2>1. DOMAIN << >> = {}
    OBVIOUS
  <2> QED BY <1>2, <2>1
<1>4. halted = {}
  BY <1>1 DEF IInv, LockInv, TypeOK
<1>5. ~locked
  BY <1>3, <1>4 DEF IInv, LockInv
<1>6. TypeOK'
  BY <1>1 DEF IInv, TypeOK
<1>7. LockInv'
  BY <1>1, <1>3, <1>5 DEF LockInv
<1>8. LineInv'
  BY <1>1, <1>3, <1>5 DEF IInv, LineInv, Agree
<1>9. LinesWhole'
  BY <1>1 DEF IInv, LinesWhole, WholeLines, LogConsole
<1> QED BY <1>6, <1>7, <1>8, <1>9 DEF IInv

(* A CPU that halts may take the lock with it.                             *)
LEMMA PanicHaltIInv == ASSUME IInv, NEW c \in CPUs, PanicHalt(c) PROVE IInv'
<1>1. /\ halted' = halted \cup {c} /\ calls' = [calls EXCEPT ![c] = << >>]
      /\ calls[c] # << >>
      /\ UNCHANGED <<ready, locked, lines, console, color>>
  BY DEF PanicHalt, Does
<1>2. calls'[c] = << >> /\ \A d \in CPUs \ {c} : calls'[d] = calls[d]
  BY <1>1 DEF IInv, TypeOK
<1>3. TypeOK'
  BY <1>1 DEF IInv, TypeOK
<1>4. ready \/ c = BSP
  BY <1>1 DEF IInv, LockInv
<1>5. ~ready => \A d \in CPUs \ {BSP} : calls'[d] = << >> /\ d \notin halted'
  BY <1>1, <1>2, <1>4 DEF IInv, LockInv
<1>6. \A d \in CPUs : \A i \in DOMAIN calls'[d] :
        i \in DOMAIN calls[d] /\ calls'[d][i] = calls[d][i]
  BY <1>2
<1> QED BY <1>1, <1>3, <1>5, <1>6, KeepIInv
-----------------------------------------------------------------------------
(* One more piece of the line under way.                                   *)
LEMMA AppendWhole ==
  ASSUME NEW s \in Seq(Pieces), NEW n \in 0..2, NEW c \in CPUs, NEW level \in Levels,
         Len(s) - n \in Nat, (Len(s) - n) % 3 = 0, WholeLines(s),
         \A i \in 1..n : s[Len(s) - n + i] = LinePiece(i, c, level),
         NEW p, p = LinePiece(n + 1, c, level)
  PROVE  WholeLines(Append(s, p))
<1> DEFINE t == Append(s, p)
           N == Len(s)
<1>1. /\ N \in Nat /\ DOMAIN s = 1..N /\ DOMAIN t = 1..(N + 1)
      /\ t[N + 1] = p /\ \A i \in 1..N : t[i] = s[i]
  OBVIOUS
<1>2. p.cpu = c /\ p.level = level /\ p.kind = LineKinds[n + 1]
  BY DEF LinePiece
<1> HIDE DEF t
<1> SUFFICES ASSUME NEW i \in DOMAIN t
             PROVE  /\ t[i].kind = LineKinds[((i - 1) % 3) + 1]
                    /\ t[i].cpu = t[i - ((i - 1) % 3)].cpu
                    /\ t[i].level = t[i - ((i - 1) % 3)].level
  BY DEF WholeLines, t
<1>3. CASE i <= N
  <2>1. i \in 1..N /\ i - ((i - 1) % 3) \in 1..N
    BY <1>1, <1>3
  <2>2. t[i] = s[i] /\ t[i - ((i - 1) % 3)] = s[i - ((i - 1) % 3)]
    BY <1>1, <2>1
  <2> QED BY <1>1, <2>1, <2>2 DEF WholeLines
<1>4. CASE i = N + 1
  <2>1. (i - 1) % 3 = n
    BY <1>1, <1>4
  <2>2. CASE n = 0
    BY <1>1, <1>2, <1>4, <2>1, <2>2
  <2>3. CASE n # 0
    <3>1. N - n + 1 \in 1..N /\ i - n = N - n + 1 /\ 1 \in 1..n
      BY <1>1, <1>4, <2>3
    <3>2. t[i - n] = LinePiece(1, c, level)
      BY <1>1, <3>1
    <3> QED BY <1>1, <1>2, <1>4, <2>1, <3>2 DEF LinePiece
  <2> QED BY <2>2, <2>3
<1> QED BY <1>1, <1>3, <1>4

(* A step of klog that does not return.                                    *)
LEMMA AdvanceLog ==
  ASSUME TypeOK, NEW c \in CPUs, calls[c] # << >>, Advance(c),
         Top(c) \in LogCalls, Top(c).at # 10, NEW n, n = Len(calls[c])
  PROVE  /\ n \in DOMAIN calls[c] /\ DOMAIN calls'[c] = DOMAIN calls[c]
         /\ calls' \in [CPUs -> Seq(LogCalls \cup PanicCalls)]
         /\ \A d \in CPUs \ {c} : calls'[d] = calls[d]
         /\ \A i \in DOMAIN calls[c] : i # n => calls'[c][i] = calls[c][i]
         /\ calls'[c][n].at = Top(c).at + 1 /\ calls'[c][n].level = Top(c).level
<1>1. Top(c).at # Len(Top(c).ops)
  <2>1. Top(c).ops = klog_ops
    BY DEF LogCalls
  <2> QED BY <2>1, KlogOps
<1>2. n \in DOMAIN calls[c] /\ DOMAIN calls[c] = 1..n
  BY TopCall
<1>3. DOMAIN calls'[c] = 1..n
  BY <1>1, AdvanceCalls
<1>4. calls'[c][n].at = Top(c).at + 1 /\ calls'[c][n].level = Top(c).level
  BY <1>1, AdvanceCalls
<1>5. /\ calls' \in [CPUs -> Seq(LogCalls \cup PanicCalls)]
      /\ \A d \in CPUs \ {c} : calls'[d] = calls[d]
      /\ \A i \in DOMAIN calls[c] : i # n => calls'[c][i] = calls[c][i]
  BY AdvanceCalls
<1> QED BY <1>2, <1>3, <1>4, <1>5

(* The innermost call of a CPU, when it is past spinlock_acquire.          *)
LEMMA HolderFacts ==
  ASSUME IInv, NEW c \in CPUs, calls[c] # << >>, Top(c).level \in Levels, Top(c).at > 1
  PROVE  /\ Top(c).at \in 2..10 /\ Len(Top(c).ops) = 10 /\ Top(c).ops = klog_ops
         /\ locked /\ UnderWay(c, Len(calls[c]))
         /\ \A d \in CPUs : \A i \in DOMAIN calls[d] :
              Holds(d, i) => d = c /\ i = Len(calls[c])
<1>1. /\ Len(calls[c]) \in DOMAIN calls[c] /\ Top(c) \in LogCalls
      /\ Top(c) = calls[c][Len(calls[c])]
  BY TopCall DEF IInv, Top
<1>2. Holds(c, Len(calls[c]))
  BY <1>1 DEF Holds
<1>3. Top(c).at \in 2..10 /\ Top(c).ops = klog_ops
  BY <1>1 DEF LogCalls
<1> QED BY <1>1, <1>2, <1>3, KlogOps DEF IInv, LockInv, LineInv

(* Steps of the call that holds the lock, other than the release.          *)
LEMMA HolderIInv ==
  ASSUME IInv, NEW c \in CPUs, calls[c] # << >>, Top(c).level \in Levels,
         Top(c).at \in 2..9, Advance(c), UNCHANGED <<ready, locked, halted>>,
         TypeOK', LinesWhole', ~ready => console' = << >>,
         NEW n, n = Len(calls[c]), UnderWay(c, n)'
  PROVE  IInv'
<1>1. /\ locked /\ Len(Top(c).ops) = 10
      /\ \A d \in CPUs : \A i \in DOMAIN calls[d] : Holds(d, i) => d = c /\ i = n
  BY HolderFacts
<1>2. /\ \A d \in CPUs \ {c} : calls'[d] = calls[d]
      /\ \A i \in DOMAIN calls[c] : i # n => calls'[c][i] = calls[c][i]
      /\ DOMAIN calls'[c] = DOMAIN calls[c] /\ n \in DOMAIN calls[c]
      /\ calls'[c][n].at = Top(c).at + 1 /\ calls'[c][n].level = Top(c).level
  <2>1. Top(c) \in LogCalls /\ Top(c).at # 10
    BY TopCall DEF IInv
  <2> QED BY <2>1, AdvanceLog DEF IInv
<1>3. \A d \in CPUs : \A i \in DOMAIN calls'[d] : Holds(d, i)' => d = c /\ i = n
  BY <1>1, <1>2 DEF Holds
<1>4. Holds(c, n)'
  BY <1>2 DEF Holds
<1>5. LockInv'
  <2>1. ~ready' => \A d \in CPUs \ {BSP} : calls'[d] = << >> /\ d \notin halted'
    BY <1>2 DEF IInv, LockInv
  <2> QED BY <1>1, <1>2, <1>3, <1>4, <2>1 DEF LockInv
<1>6. LineInv'
  <2>1. \A d \in CPUs : \A i \in DOMAIN calls'[d] : Holds(d, i)' => UnderWay(d, i)'
    BY <1>3
  <2> QED BY <1>1, <2>1 DEF LineInv
<1> QED BY <1>5, <1>6 DEF IInv

(* Which operation the innermost call of a CPU is at.                      *)
LEMMA WhichOp ==
  ASSUME TypeOK, NEW c \in CPUs, calls[c] # << >>
  PROVE  /\ Op(c)[1] \in {"acquire", "release", "console", "color"} => Top(c) \in LogCalls
         /\ Top(c) \in LogCalls =>
              /\ Top(c).at \in 1..10 /\ Top(c).level \in Levels
              /\ Op(c) = klog_ops[Top(c).at]
              /\ Op(c)[1] = "release" => Top(c).at = 10
              /\ Op(c)[1] = "serial" => Top(c).at \in {2, 7, 8}
              /\ Op(c)[1] = "console" => Top(c).at \in {4, 6, 9}
              /\ Op(c)[1] = "color" => Top(c).at \in {3, 5}
         /\ Top(c) \in PanicCalls /\ Op(c)[1] = "serial" =>
              Top(c).level \notin Levels /\ Op(c)[2] \notin LogKinds
<1>1. Top(c) \in LogCalls \/ Top(c) \in PanicCalls
  BY TopCall
<1>2. ASSUME Top(c) \in LogCalls
      PROVE  Top(c).ops = klog_ops /\ Top(c).at \in 1..10 /\ Top(c).level \in Levels
  BY <1>2 DEF LogCalls
<1>3. ASSUME Top(c) \in PanicCalls
      PROVE  Top(c).ops = kpanic_ops /\ Top(c).at \in 1..4 /\ Top(c).level \notin Levels
  BY <1>3, KlogAssumption DEF PanicCalls
<1>4. ASSUME Top(c) \in LogCalls
      PROVE  /\ Op(c) = klog_ops[Top(c).at]
             /\ Op(c)[1] = "release" => Top(c).at = 10
             /\ Op(c)[1] = "serial" => Top(c).at \in {2, 7, 8}
             /\ Op(c)[1] = "console" => Top(c).at \in {4, 6, 9}
             /\ Op(c)[1] = "color" => Top(c).at \in {3, 5}
  BY <1>2, <1>4, KlogOps DEF Op
<1>5. ASSUME Top(c) \in PanicCalls
      PROVE  /\ Op(c)[1] \in {"serial", "halt"}
             /\ Op(c)[1] = "serial" => Op(c)[2] \notin LogKinds
  BY <1>3, <1>5, KpanicOps DEF Op
<1> QED BY <1>1, <1>2, <1>3, <1>4, <1>5

(* A panic neither holds the lock nor writes to the log lines.             *)
LEMMA PanicOpIInv ==
  ASSUME IInv, NEW c \in CPUs, calls[c] # << >>, Top(c).level \notin Levels, Advance(c),
         UNCHANGED <<ready, locked, halted, lines, console, color>>
  PROVE  IInv'
<1> SUFFICES ASSUME NEW n, n = Len(calls[c]) PROVE IInv'
  OBVIOUS
<1>1. /\ n \in DOMAIN calls[c] /\ DOMAIN calls[c] = 1..n /\ n \in Nat
      /\ Top(c) = calls[c][n]
  BY TopCall DEF IInv, Top
<1>2. /\ calls' \in [CPUs -> Seq(LogCalls \cup PanicCalls)]
      /\ \A d \in CPUs \ {c} : calls'[d] = calls[d]
      /\ \A i \in DOMAIN calls[c] : i # n =>
           i \in DOMAIN calls'[c] /\ calls'[c][i] = calls[c][i]
  BY AdvanceCalls DEF IInv
<1>3. DOMAIN calls'[c] \subseteq 1..n /\ (n \in DOMAIN calls'[c] => calls'[c][n].level = Top(c).level)
  <2>1. CASE Top(c).at = Len(Top(c).ops)
    <3>1. DOMAIN calls'[c] = 1..(n - 1)
      BY <2>1, AdvanceCalls DEF IInv
    <3> QED BY <1>1, <3>1
  <2>2. CASE Top(c).at # Len(Top(c).ops)
    BY <2>2, AdvanceCalls DEF IInv
  <2> QED BY <2>1, <2>2
<1>4. TypeOK'
  BY <1>2 DEF IInv, TypeOK
<1>5. ASSUME NEW d \in CPUs, NEW i \in DOMAIN calls'[d], Holds(d, i)'
      PROVE  i \in DOMAIN calls[d] /\ calls'[d][i] = calls[d][i]
  <2>1. CASE d # c
    BY <1>2, <2>1
  <2>2. CASE d = c
    <3>1. i # n
      BY <1>3, <1>5, <2>2 DEF Holds
    <3> QED BY <1>1, <1>2, <1>3, <2>2, <3>1
  <2> QED BY <2>1, <2>2
<1>6. ASSUME NEW d \in CPUs, NEW i \in DOMAIN calls[d], Holds(d, i)
      PROVE  i \in DOMAIN calls'[d] /\ calls'[d][i] = calls[d][i]
  <2>1. CASE d # c
    BY <1>2, <2>1
  <2>2. CASE d = c
    <3>1. i # n
      BY <1>1, <1>6, <2>2 DEF Holds
    <3> QED BY <1>2, <2>2, <3>1
  <2> QED BY <2>1, <2>2
<1>7. ~ready => \A d \in CPUs \ {BSP} : calls'[d] = << >> /\ d \notin halted'
  BY <1>2 DEF IInv, LockInv
<1> QED BY <1>4, <1>5, <1>6, <1>7, KeepIInv

LEMMA AcquireIInv == ASSUME IInv, NEW c \in CPUs, spinlock_acquire(c) PROVE IInv'
<1> SUFFICES ASSUME NEW n, n = Len(calls[c]) PROVE IInv'
  OBVIOUS
<1>1. /\ calls[c] # << >> /\ Op(c)[1] = "acquire" /\ ~locked /\ locked' = TRUE
      /\ Advance(c) /\ UNCHANGED <<ready, halted, lines, console, color>>
  BY DEF spinlock_acquire, Does
<1>2. Top(c) \in LogCalls \cup PanicCalls /\ n \in DOMAIN calls[c]
  BY <1>1, TopCall DEF IInv
<1>3. Top(c) \in LogCalls /\ Top(c).at = 1 /\ Len(Top(c).ops) = 10
  <2>1. Top(c) \in LogCalls
    BY <1>1, WhichOp DEF IInv
  <2>2. Top(c).ops = klog_ops /\ Top(c).at \in 1..10
    BY <2>1 DEF LogCalls
  <2> QED BY <1>1, <2>1, <2>2, KlogOps DEF Op
<1>4. /\ \A d \in CPUs \ {c} : calls'[d] = calls[d]
      /\ \A i \in DOMAIN calls[c] : i # n => calls'[c][i] = calls[c][i]
      /\ DOMAIN calls'[c] = DOMAIN calls[c]
      /\ calls'[c][n].at = 2 /\ calls'[c][n].level \in Levels
      /\ calls' \in [CPUs -> Seq(LogCalls \cup PanicCalls)]
  <2>1. Top(c).level \in Levels
    BY <1>3 DEF LogCalls
  <2> QED BY <1>1, <1>3, <2>1, AdvanceLog DEF IInv
<1>5. \A d \in CPUs : \A i \in DOMAIN calls[d] : ~Holds(d, i)
  BY <1>1 DEF IInv, LockInv
<1>6. \A d \in CPUs : \A i \in DOMAIN calls'[d] : Holds(d, i)' => d = c /\ i = n
  BY <1>4, <1>5 DEF Holds
<1>7. Holds(c, n)'
  BY <1>4 DEF Holds
<1>8. TypeOK'
  BY <1>1, <1>4 DEF IInv, TypeOK
<1>9. LockInv'
  <2>1. ~ready' => /\ console' = << >>
                   /\ \A d \in CPUs \ {BSP} : calls'[d] = << >> /\ d \notin halted'
    BY <1>1, <1>4 DEF IInv, LockInv
  <2> QED BY <1>1, <1>2, <1>4, <1>6, <1>7, <2>1 DEF LockInv
<1>10. UnderWay(c, n)'
  <2>1. SentSerial(calls[c][n].at)' = 0 /\ SentConsole(calls[c][n].at)' = 0
    BY <1>4 DEF SentSerial, SentConsole
  <2>2. Agree(0, 0) /\ color = White
    BY <1>1 DEF IInv, LineInv
  <2>3. Agree(0, 0)'
    BY <1>1, <2>2 DEF Agree
  <2>4. Begun(0, 0, c, calls[c][n].level)'
    BY DEF Begun
  <2> QED BY <1>1, <1>4, <2>1, <2>2, <2>3, <2>4 DEF UnderWay
<1>11. LineInv'
  <2>1. \A d \in CPUs : \A i \in DOMAIN calls'[d] : Holds(d, i)' => UnderWay(d, i)'
    BY <1>6, <1>10
  <2> QED BY <1>1, <2>1 DEF LineInv
<1>12. LinesWhole'
  <2>1. LogConsole' = LogConsole
    BY <1>1 DEF LogConsole
  <2> QED BY <1>1, <2>1 DEF IInv, LinesWhole, WholeLines
<1> QED BY <1>8, <1>9, <1>11, <1>12 DEF IInv
LEMMA ReleaseIInv == ASSUME IInv, NEW c \in CPUs, spinlock_release(c) PROVE IInv'
<1> SUFFICES ASSUME NEW n, n = Len(calls[c]) PROVE IInv'
  OBVIOUS
<1>1. /\ calls[c] # << >> /\ Op(c)[1] = "release" /\ locked' = FALSE
      /\ Advance(c) /\ UNCHANGED <<ready, halted, lines, console, color>>
  BY DEF spinlock_release, Does
<1>2. Top(c) \in LogCalls /\ Top(c).at = 10 /\ Top(c).level \in Levels
  BY <1>1, WhichOp DEF IInv
<1>3. /\ UnderWay(c, n) /\ Len(Top(c).ops) = 10
      /\ \A d \in CPUs : \A i \in DOMAIN calls[d] : Holds(d, i) => d = c /\ i = n
  BY <1>1, <1>2, HolderFacts
<1>4. /\ n \in Nat /\ DOMAIN calls'[c] = 1..(n - 1) /\ DOMAIN calls[c] = 1..n
      /\ \A d \in CPUs \ {c} : calls'[d] = calls[d]
      /\ \A i \in DOMAIN calls[c] : i # n => calls'[c][i] = calls[c][i]
      /\ calls' \in [CPUs -> Seq(LogCalls \cup PanicCalls)]
  <2>1. n \in Nat /\ DOMAIN calls[c] = 1..n
    BY <1>1, TopCall DEF IInv
  <2>2. DOMAIN calls'[c] = 1..(n - 1)
    BY <1>1, <1>2, <1>3, AdvanceCalls DEF IInv
  <2> QED BY <1>1, <2>1, <2>2, AdvanceCalls DEF IInv
<1>5. \A d \in CPUs : \A i \in DOMAIN calls'[d] : ~Holds(d, i)'
  <2> SUFFICES ASSUME NEW d \in CPUs, NEW i \in DOMAIN calls'[d], Holds(d, i)' PROVE FALSE
    OBVIOUS
  <2>1. i \in DOMAIN calls[d] /\ calls'[d][i] = calls[d][i] /\ ~(d = c /\ i = n)
    BY <1>4
  <2> QED BY <1>3, <2>1 DEF Holds
<1>6. TypeOK'
  BY <1>1, <1>4 DEF IInv, TypeOK
<1>7. LockInv'
  <2>1. ~ready' => /\ console' = << >>
                   /\ \A d \in CPUs \ {BSP} : calls'[d] = << >> /\ d \notin halted'
    BY <1>1, <1>4 DEF IInv, LockInv
  <2> QED BY <1>1, <1>5, <2>1 DEF LockInv
<1>8. /\ Agree(3, SentConsole(10)) /\ Begun(3, SentConsole(10), c, Top(c).level)
      /\ color = White
  <2>1. calls[c][n].at = 10 /\ SentSerial(10) = 3 /\ calls[c][n] = Top(c)
    BY <1>2 DEF Top, SentSerial
  <2> QED BY <1>3, <2>1 DEF UnderWay
<1>9. Agree(0, 0)
  <2>0. Len(lines) \in Nat /\ Len(console) \in Nat
    BY DEF IInv, TypeOK
  <2>1. CASE ready
    <3>1. SentConsole(10) = 3
      BY <2>1 DEF SentConsole
    <3> DEFINE N == Len(lines) - 3
               M == Len(console) - 3
    <3>2. /\ N \in Nat /\ N % 3 = 0 /\ M \in Nat /\ M % 3 = 0 /\ M <= N
          /\ \A i \in 1..M : console[i].piece = lines[N - M + i]
      BY <1>8, <3>1 DEF Agree
    <3>3. \A i \in 1..3 : console[M + i].piece = lines[N + i]
      BY <1>8, <3>1 DEF Begun
    <3>4. ASSUME NEW i \in 1..Len(console)
          PROVE  console[i].piece = lines[Len(lines) - Len(console) + i]
      <4>1. Len(lines) - Len(console) + i = N - M + i
        BY <2>0
      <4>2. CASE i <= M
        BY <2>0, <3>2, <4>1, <4>2
      <4>3. CASE i > M
        <5>1. i - M \in 1..3 /\ M + (i - M) = i /\ N + (i - M) = N - M + i
          BY <2>0, <3>2, <4>3
        <5> HIDE DEF N, M
        <5> QED BY <3>3, <4>1, <5>1
      <4> QED BY <2>0, <4>2, <4>3
    <3> QED BY <2>0, <3>2, <3>4 DEF Agree
  <2>2. CASE ~ready
    <3>1. Len(console) = 0
      BY <2>2 DEF IInv, LockInv
    <3>2. Len(lines) - 3 \in Nat /\ (Len(lines) - 3) % 3 = 0
      BY <1>8 DEF Agree
    <3> QED BY <2>0, <3>1, <3>2 DEF Agree
  <2> QED BY <2>1, <2>2
<1>10. LineInv'
  <2>1. Agree(0, 0)'
    BY <1>1, <1>9 DEF Agree
  <2> QED BY <1>1, <1>5, <1>8, <2>1 DEF LineInv
<1>11. LinesWhole'
  <2>1. LogConsole' = LogConsole
    BY <1>1 DEF LogConsole
  <2> QED BY <1>1, <2>1 DEF IInv, LinesWhole, WholeLines
<1> QED BY <1>6, <1>7, <1>10, <1>11 DEF IInv

(* The serial port gets the next piece of the line, or a panic's message.  *)
LEMMA SerialIInv == ASSUME IInv, NEW c \in CPUs, serial_print(c) PROVE IInv'
<1> SUFFICES ASSUME NEW n, n = Len(calls[c]), NEW k, k = Top(c).at,
                    NEW level, level = Top(c).level PROVE IInv'
  OBVIOUS
<1>1. /\ calls[c] # << >> /\ Op(c)[1] = "serial"
      /\ lines' = IF Op(c)[2] \in LogKinds THEN Append(lines, Piece(c)) ELSE lines
      /\ Advance(c) /\ UNCHANGED <<ready, locked, halted, console, color>>
  BY DEF serial_print, Does
<1>2. CASE Top(c) \in LogCalls
  <2> SUFFICES ASSUME NEW s, s = SentSerial(k), NEW m, m = SentConsole(k) PROVE IInv'
    OBVIOUS
  <2>1. /\ k \in {2, 7, 8} /\ level \in Levels /\ Op(c) = klog_ops[k]
    BY <1>1, <1>2, WhichOp DEF IInv
  <2>2. UnderWay(c, n) /\ calls[c][n] = Top(c)
    BY <1>1, <2>1, HolderFacts DEF Top
  <2>3. /\ s \in 0..2 /\ SentSerial(k + 1) = s + 1 /\ m \in 0..2
        /\ SentConsole(k + 1) = m /\ Op(c)[2] = LineKinds[s + 1]
    BY <2>1, KlogOps DEF SentSerial, SentConsole, LineKinds
  <2>4. /\ Piece(c) = LinePiece(s + 1, c, level) /\ Op(c)[2] \in LogKinds
        /\ Piece(c) \in Pieces
    <3>1. Op(c)[2] \in LogKinds
      BY <2>1, KlogOps DEF LogKinds
    <3>2. Piece(c) = LinePiece(s + 1, c, level)
      BY <2>3 DEF Piece, LinePiece
    <3>3. Piece(c) \in Pieces
      BY <2>1, <3>1 DEF Piece, Pieces
    <3> QED BY <3>1, <3>2, <3>3
  <2>5. Agree(s, m) /\ Begun(s, m, c, level) /\ color = White
    BY <2>1, <2>2 DEF UnderWay
  <2>6. lines' = Append(lines, Piece(c)) /\ lines \in Seq(Pieces) /\ Len(lines) \in Nat
    BY <1>1, <2>4 DEF IInv, TypeOK
  <2>7. /\ Len(lines') = Len(lines) + 1 /\ lines' \in Seq(Pieces)
        /\ \A i \in 1..Len(lines) : lines'[i] = lines[i]
        /\ lines'[Len(lines) + 1] = LinePiece(s + 1, c, level)
    BY <2>4, <2>6
  <2>8. TypeOK' /\ calls'[c][n].at = k + 1 /\ calls'[c][n].level = level
    <3>1. Top(c).at # 10
      BY <2>1
    <3>2. /\ calls' \in [CPUs -> Seq(LogCalls \cup PanicCalls)]
          /\ calls'[c][n].at = k + 1 /\ calls'[c][n].level = level
      BY <1>1, <1>2, <3>1, AdvanceLog DEF IInv
    <3> QED BY <1>1, <2>7, <3>2 DEF IInv, TypeOK
  <2>9. Agree(s + 1, m)'
    <3> DEFINE N == Len(lines) - s
               M == Len(console) - m
    <3>1. /\ N \in Nat /\ N % 3 = 0 /\ M \in Nat /\ M % 3 = 0 /\ M <= N
          /\ \A i \in 1..M : console[i].piece = lines[N - M + i]
      BY <2>5 DEF Agree
    <3>2. Len(lines') - (s + 1) = N /\ Len(console') - m = M
      BY <1>1, <2>3, <2>6, <2>7
    <3>3. \A i \in 1..M : N - M + i \in 1..Len(lines)
      BY <2>3, <2>6, <3>1
    <3>4. \A i \in 1..M : console'[i].piece = lines'[N - M + i]
      BY <1>1, <2>7, <3>1, <3>3
    <3> HIDE DEF N, M
    <3> QED BY <3>1, <3>2, <3>4 DEF Agree
  <2>10. Begun(s + 1, m, c, level)'
    <3>1. ASSUME NEW i \in 1..(s + 1)
          PROVE  lines'[Len(lines') - (s + 1) + i] = LinePiece(i, c, level)
      <4>1. Len(lines') - (s + 1) + i = Len(lines) - s + i
        BY <2>3, <2>6, <2>7
      <4>2. CASE i = s + 1
        <5>1. Len(lines) - s + i = Len(lines) + 1
          BY <2>3, <2>6, <4>2
        <5> QED BY <2>7, <4>1, <4>2, <5>1
      <4>3. CASE i # s + 1
        <5>1. i \in 1..s /\ Len(lines) - s + i \in 1..Len(lines)
          <6>1. Len(lines) - s \in Nat
            BY <2>5 DEF Agree
          <6> QED BY <2>3, <2>6, <4>3, <6>1
        <5> QED BY <2>5, <2>7, <4>1, <5>1 DEF Begun
      <4> QED BY <4>2, <4>3
    <3>2. \A i \in 1..m : console'[Len(console') - m + i].piece = LinePiece(i, c, level)
      BY <1>1, <2>5 DEF Begun
    <3> QED BY <3>1, <3>2 DEF Begun
  <2>11. UnderWay(c, n)'
    <3>1. SentSerial(calls[c][n].at)' = s + 1 /\ SentConsole(calls[c][n].at)' = m
      BY <1>1, <2>3, <2>8 DEF SentSerial, SentConsole
    <3>2. color' = White /\ k + 1 \notin {4, 5}
      BY <1>1, <2>1, <2>5
    <3> QED BY <2>8, <2>9, <2>10, <3>1, <3>2 DEF UnderWay
  <2>12. LinesWhole'
    <3>1. WholeLines(lines')
      <4>1. /\ Len(lines) - s \in Nat /\ (Len(lines) - s) % 3 = 0 /\ WholeLines(lines)
            /\ \A i \in 1..s : lines[Len(lines) - s + i] = LinePiece(i, c, level)
        BY <2>5 DEF IInv, LinesWhole, Agree, Begun
      <4> QED BY <2>1, <2>3, <2>4, <2>6, <4>1, AppendWhole
    <3>2. LogConsole' = LogConsole
      BY <1>1 DEF LogConsole
    <3> QED BY <1>1, <3>1, <3>2 DEF IInv, LinesWhole
  <2>13. ~ready => console' = << >>
    BY <1>1 DEF IInv, LockInv
  <2> QED BY <1>1, <2>1, <2>8, <2>11, <2>12, <2>13, HolderIInv
<1>3. CASE Top(c) \in PanicCalls
  BY <1>1, <1>3, PanicOpIInv, WhichOp DEF IInv
<1> QED BY <1>1, <1>2, <1>3, TopCall DEF IInv
LEMMA ConsolePieces ==
  ASSUME TypeOK PROVE \A i \in 1..Len(console) : console[i].piece \in Pieces
<1> TAKE i \in 1..Len(console)
<1> DEFINE T == [piece : Pieces, color : Colors]
<1>1. console[i] \in T
  <2>1. console \in Seq(T)
    BY DEF TypeOK
  <2> HIDE DEF T
  <2> QED BY <2>1
<1> QED BY <1>1

(* The console gets the next piece of the line, in the current colour.     *)
LEMMA ConsoleIInv == ASSUME IInv, NEW c \in CPUs, console_print(c) PROVE IInv'
<1> SUFFICES ASSUME NEW n, n = Len(calls[c]), NEW k, k = Top(c).at,
                    NEW level, level = Top(c).level,
                    NEW s, s = SentSerial(k), NEW m, m = SentConsole(k) PROVE IInv'
  OBVIOUS
<1> DEFINE e == [piece |-> Piece(c), color |-> color]
<1>1. /\ calls[c] # << >> /\ Op(c)[1] = "console"
      /\ console' = IF ready THEN Append(console, e) ELSE console
      /\ Advance(c) /\ UNCHANGED <<ready, locked, halted, lines, color>>
  BY DEF console_print, Does
<1>2. /\ Top(c) \in LogCalls /\ k \in {4, 6, 9} /\ level \in Levels
      /\ Op(c) = klog_ops[k]
  BY <1>1, WhichOp DEF IInv
<1>3. UnderWay(c, n) /\ calls[c][n] = Top(c)
  BY <1>1, <1>2, HolderFacts DEF Top
<1>4. /\ s \in 0..3 /\ SentSerial(k + 1) = s /\ m \in 0..2
      /\ Op(c)[2] \in LogKinds
      /\ ready => /\ SentConsole(k + 1) = m + 1 /\ Op(c)[2] = LineKinds[m + 1]
      /\ ~ready => m = 0 /\ SentConsole(k + 1) = 0
  BY <1>2, KlogOps DEF SentSerial, SentConsole, LineKinds, LogKinds
<1>5. /\ Agree(s, m) /\ Begun(s, m, c, level)
      /\ color = IF ready /\ k \in {4, 5} THEN level ELSE White
  BY <1>3 DEF UnderWay
<1>6. /\ calls' \in [CPUs -> Seq(LogCalls \cup PanicCalls)]
      /\ calls'[c][n].at = k + 1 /\ calls'[c][n].level = level
  <2>1. Top(c).at # 10
    BY <1>2
  <2> QED BY <1>1, <1>2, <2>1, AdvanceLog DEF IInv
<1>7. color' = IF ready' /\ k + 1 \in {4, 5} THEN level ELSE White
  BY <1>1, <1>2, <1>5
<1>8. CASE ~ready
  <2>1. console' = console
    BY <1>1, <1>8
  <2>2. TypeOK'
    BY <1>1, <1>6, <2>1 DEF IInv, TypeOK
  <2>3. LinesWhole'
    <3>1. LogConsole' = LogConsole
      BY <2>1 DEF LogConsole
    <3> QED BY <1>1, <2>1, <3>1 DEF IInv, LinesWhole, WholeLines
  <2>4. SentSerial(calls[c][n].at)' = s /\ SentConsole(calls[c][n].at)' = m
    BY <1>1, <1>4, <1>6, <1>8 DEF SentSerial, SentConsole
  <2>5. Agree(s, m)' /\ Begun(s, m, c, level)'
    BY <1>1, <1>5, <2>1 DEF Agree, Begun
  <2>6. UnderWay(c, n)'
    BY <1>6, <1>7, <2>4, <2>5 DEF UnderWay
  <2>7. console' = << >>
    BY <1>8, <2>1 DEF IInv, LockInv
  <2> QED BY <1>1, <1>2, <2>2, <2>3, <2>6, <2>7, HolderIInv
<1>9. CASE ready
  <2>1. /\ Piece(c) = LinePiece(m + 1, c, level) /\ Piece(c) \in Pieces
        /\ Piece(c).kind = Op(c)[2] /\ Piece(c).level = level
    BY <1>2, <1>4, <1>9 DEF Piece, LinePiece, Pieces
  <2>2. /\ console' = Append(console, e) /\ Len(console) \in Nat
        /\ console \in Seq([piece : Pieces, color : Colors])
        /\ e \in [piece : Pieces, color : Colors]
        /\ e.piece = LinePiece(m + 1, c, level) /\ e.color = color
    BY <1>1, <1>9, <2>1 DEF IInv, TypeOK
  <2> HIDE DEF e
  <2>3. /\ Len(console') = Len(console) + 1
        /\ DOMAIN console' = 1..(Len(console) + 1) /\ DOMAIN console = 1..Len(console)
        /\ console' \in Seq([piece : Pieces, color : Colors])
        /\ \A i \in 1..Len(console) : console'[i] = console[i]
        /\ console'[Len(console) + 1] = e
    BY <2>2
  <2>4. TypeOK'
    BY <1>1, <1>6, <2>3 DEF IInv, TypeOK
  <2>5. Agree(s, m + 1)'
    <3> DEFINE N == Len(lines) - s
               M == Len(console) - m
    <3>1. /\ N \in Nat /\ N % 3 = 0 /\ M \in Nat /\ M % 3 = 0 /\ M <= N
          /\ \A i \in 1..M : console[i].piece = lines[N - M + i]
      BY <1>5 DEF Agree
    <3>2. Len(console') - (m + 1) = M /\ Len(lines') - s = N
      BY <1>1, <1>4, <2>2, <2>3
    <3>3. \A i \in 1..M : i \in 1..Len(console)
      BY <1>4, <2>2, <3>1
    <3>4. \A i \in 1..M : console'[i].piece = lines'[N - M + i]
      BY <1>1, <2>3, <3>1, <3>3
    <3> HIDE DEF N, M
    <3> QED BY <3>1, <3>2, <3>4 DEF Agree
  <2>6. Begun(s, m + 1, c, level)'
    <3>1. ASSUME NEW i \in 1..(m + 1)
          PROVE  console'[Len(console') - (m + 1) + i].piece = LinePiece(i, c, level)
      <4>1. Len(console') - (m + 1) + i = Len(console) - m + i
        BY <1>4, <2>2, <2>3
      <4>2. CASE i = m + 1
        <5>1. Len(console) - m + i = Len(console) + 1
          BY <1>4, <2>2, <4>2
        <5> QED BY <2>2, <2>3, <4>1, <4>2, <5>1
      <4>3. CASE i # m + 1
        <5>1. i \in 1..m /\ Len(console) - m + i \in 1..Len(console)
          <6>1. Len(console) - m \in Nat
            BY <1>5 DEF Agree
          <6> QED BY <1>4, <2>2, <4>3, <6>1
        <5> QED BY <1>5, <2>3, <4>1, <5>1 DEF Begun
      <4> QED BY <4>2, <4>3
    <3>2. \A i \in 1..s : lines'[Len(lines') - s + i] = LinePiece(i, c, level)
      BY <1>1, <1>5 DEF Begun
    <3> QED BY <3>1, <3>2 DEF Begun
  <2>7. UnderWay(c, n)'
    <3>1. SentSerial(calls[c][n].at)' = s /\ SentConsole(calls[c][n].at)' = m + 1
      BY <1>1, <1>4, <1>6, <1>9 DEF SentSerial, SentConsole
    <3> QED BY <1>6, <1>7, <2>5, <2>6, <3>1 DEF UnderWay
  <2>8. LinesWhole'
    <3>1. /\ LogConsole \in Seq(Pieces) /\ Len(LogConsole) = Len(console)
          /\ \A i \in 1..Len(console) : LogConsole[i] = console[i].piece
      <4>1. LogConsole = [i \in 1..Len(console) |-> console[i].piece]
        BY <2>3 DEF LogConsole
      <4>2. \A i \in 1..Len(console) : console[i].piece \in Pieces
        BY ConsolePieces DEF IInv
      <4> QED BY <2>2, <4>1, <4>2
    <3>2. LogConsole' = Append(LogConsole, e.piece)
      <4>1. LogConsole' = [i \in 1..(Len(console) + 1) |-> console'[i].piece]
        BY <2>3 DEF LogConsole
      <4>2. Append(LogConsole, e.piece) =
              [i \in 1..(Len(console) + 1) |-> IF i <= Len(console) THEN LogConsole[i] ELSE e.piece]
        BY <2>2, <3>1
      <4>3. ASSUME NEW i \in 1..(Len(console) + 1)
            PROVE  console'[i].piece = IF i <= Len(console) THEN LogConsole[i] ELSE e.piece
        <5>1. CASE i <= Len(console)
          BY <2>2, <2>3, <3>1, <5>1
        <5>2. CASE i = Len(console) + 1
          BY <2>2, <2>3, <5>2
        <5> QED BY <2>2, <5>1, <5>2
      <4> QED BY <4>1, <4>2, <4>3
    <3>3. WholeLines(LogConsole')
      <4>1. /\ Len(LogConsole) - m \in Nat /\ (Len(LogConsole) - m) % 3 = 0
            /\ WholeLines(LogConsole)
        BY <1>5, <3>1 DEF IInv, LinesWhole, Agree
      <4>2. \A i \in 1..m : LogConsole[Len(LogConsole) - m + i] = LinePiece(i, c, level)
        <5>1. \A i \in 1..m : Len(console) - m + i \in 1..Len(console)
          BY <1>4, <2>2, <3>1, <4>1
        <5> QED BY <1>5, <3>1, <5>1 DEF Begun
      <4> QED BY <1>2, <1>4, <2>2, <3>1, <3>2, <4>1, <4>2, AppendWhole
    <3>4. e.color = IF e.piece.kind = "prefix" THEN e.piece.level ELSE White
      <4>1. e.piece.kind = Op(c)[2] /\ e.piece.level = level
        BY <2>1, <2>2
      <4>2. k = 4 => Op(c)[2] = "prefix"
        BY <1>2, KlogOps
      <4>3. k \in {6, 9} => Op(c)[2] # "prefix"
        BY <1>2, KlogOps
      <4> QED BY <1>2, <1>5, <1>9, <2>2, <4>1, <4>2, <4>3
    <3>5. \A i \in DOMAIN console' :
            console'[i].color = IF console'[i].piece.kind = "prefix"
                                THEN console'[i].piece.level ELSE White
      <4> SUFFICES ASSUME NEW i \in 1..(Len(console) + 1)
                   PROVE console'[i].color = IF console'[i].piece.kind = "prefix"
                                             THEN console'[i].piece.level ELSE White
        BY <2>3
      <4>1. CASE i = Len(console) + 1
        BY <2>3, <3>4, <4>1
      <4>2. CASE i # Len(console) + 1
        <5>1. i \in DOMAIN console /\ console'[i] = console[i]
          BY <2>2, <2>3, <4>2
        <5> QED BY <5>1 DEF IInv, LinesWhole
      <4> QED BY <4>1, <4>2
    <3>6. WholeLines(lines')
      BY <1>1 DEF IInv, LinesWhole
    <3> QED BY <3>3, <3>5, <3>6 DEF LinesWhole
  <2> QED BY <1>1, <1>2, <1>9, <2>4, <2>7, <2>8, HolderIInv
<1> QED BY <1>8, <1>9

(* The colour belongs to the call that holds the lock.                     *)
LEMMA ColorIInv == ASSUME IInv, NEW c \in CPUs, console_set_color(c) PROVE IInv'
<1> SUFFICES ASSUME NEW n, n = Len(calls[c]), NEW k, k = Top(c).at,
                    NEW level, level = Top(c).level,
                    NEW s, s = SentSerial(k), NEW m, m = SentConsole(k) PROVE IInv'
  OBVIOUS
<1>1. /\ calls[c] # << >> /\ Op(c)[1] = "color"
      /\ color' = IF ~ready THEN color ELSE IF Op(c)[2] = "level" THEN level ELSE White
      /\ Advance(c) /\ UNCHANGED <<ready, locked, halted, lines, console>>
  BY DEF console_set_color, Does
<1>2. /\ Top(c) \in LogCalls /\ k \in {3, 5} /\ level \in Levels
      /\ Op(c) = klog_ops[k]
  BY <1>1, WhichOp DEF IInv
<1>3. UnderWay(c, n) /\ calls[c][n] = Top(c)
  BY <1>1, <1>2, HolderFacts DEF Top
<1>4. SentSerial(k + 1) = s /\ SentConsole(k + 1) = m
  BY <1>2 DEF SentSerial, SentConsole
<1>5. /\ Agree(s, m) /\ Begun(s, m, c, level)
      /\ color = IF ready /\ k \in {4, 5} THEN level ELSE White
  BY <1>3 DEF UnderWay
<1>6. /\ calls' \in [CPUs -> Seq(LogCalls \cup PanicCalls)]
      /\ calls'[c][n].at = k + 1 /\ calls'[c][n].level = level
  <2>1. Top(c).at # 10
    BY <1>2
  <2> QED BY <1>1, <1>2, <2>1, AdvanceLog DEF IInv
<1>7. color' = IF ready' /\ k + 1 \in {4, 5} THEN level ELSE White
  <2>1. k = 3 => Op(c)[2] = "level"
    BY <1>2, KlogOps
  <2>2. k = 5 => Op(c)[2] # "level"
    BY <1>2, KlogOps
  <2> QED BY <1>1, <1>2, <1>5, <2>1, <2>2
<1>8. TypeOK'
  BY <1>1, <1>2, <1>6, <1>7 DEF IInv, TypeOK, Colors
<1>9. LinesWhole'
  <2>1. LogConsole' = LogConsole
    BY <1>1 DEF LogConsole
  <2> QED BY <1>1, <2>1 DEF IInv, LinesWhole, WholeLines
<1>10. UnderWay(c, n)'
  <2>1. SentSerial(calls[c][n].at)' = s /\ SentConsole(calls[c][n].at)' = m
    BY <1>1, <1>4, <1>6 DEF SentSerial, SentConsole
  <2>2. Agree(s, m)' /\ Begun(s, m, c, level)'
    BY <1>1, <1>5 DEF Agree, Begun
  <2> QED BY <1>6, <1>7, <2>1, <2>2 DEF UnderWay
<1>11. ~ready => console' = << >>
  BY <1>1 DEF IInv, LockInv
<1> QED BY <1>1, <1>2, <1>8, <1>9, <1>10, <1>11, HolderIInv

-----------------------------------------------------------------------------
LEMMA StutterIInv == ASSUME IInv, UNCHANGED vars PROVE IInv'
<1>1. TypeOK'
  BY DEF vars, IInv, TypeOK
<1>2. UNCHANGED <<ready, locked, calls, halted, lines, console, color>>
  BY DEF vars
<1>3. ~ready => \A d \in CPUs \ {BSP} : calls'[d] = << >> /\ d \notin halted'
  BY <1>2 DEF IInv, LockInv
<1> QED BY <1>1, <1>2, <1>3, KeepIInv

LEMMA NextIInv == ASSUME IInv, [Next]_vars PROVE IInv'
<1>1. ASSUME NEW c \in CPUs, Step(c) PROVE IInv'
  BY <1>1, AcquireIInv, ReleaseIInv, SerialIInv, ConsoleIInv, ColorIInv, PanicHaltIInv
  DEF Step
<1>2. CASE console_init
  BY <1>2, ConsoleInitIInv
<1>3. CASE spurious_handler
  BY <1>3, CallsIInv
<1>4. ASSUME NEW c \in CPUs, kpanic(c) \/ \E level \in Levels : klog(c, level) PROVE IInv'
  BY <1>4, CallsIInv
<1>5. CASE Quiet \/ UNCHANGED vars
  BY <1>5, StutterIInv DEF Quiet
<1> QED BY <1>1, <1>2, <1>3, <1>4, <1>5 DEF Next

(* klog_lock covers what it has to: IInv holds whatever the CPUs log.      *)
THEOREM Invariance == Spec => []IInv
<1>1. Init => IInv
  BY InitIInv
<1>2. IInv /\ [Next]_vars => IInv'
  BY NextIInv
<1> QED BY <1>1, <1>2, PTL DEF Spec

(* The variables keep their types: a CPU has only calls of klog and kpanic *)
(* under way, and the sinks get whole pieces of log lines.                 *)
THEOREM TypeCorrect == Spec => []TypeOK
<1>1. IInv => TypeOK
  BY DEF IInv
<1> QED BY <1>1, Invariance, PTL

(* Neither sink shows two log lines mixed, and the colours are right, for  *)
(* any number of CPUs and calls, with panics and spurious interrupts.      *)
THEOREM LinesWholeHolds == Spec => []LinesWhole
<1>1. IInv => LinesWhole
  BY DEF IInv
<1> QED BY <1>1, Invariance, PTL

(* Whenever klog_lock is free, the console shows what the serial port got  *)
(* since the console came up.                                              *)
THEOREM SinksAgreeHolds == Spec => []SinksAgree
<1>1. ASSUME IInv, ready, ~locked
      PROVE  /\ Len(LogConsole) <= Len(lines)
             /\ LogConsole = SubSeq(lines, Len(lines) - Len(LogConsole) + 1, Len(lines))
  <2> DEFINE N == Len(lines)
             M == Len(console)
  <2>1. /\ N \in Nat /\ M \in Nat /\ lines \in Seq(Pieces)
        /\ DOMAIN console = 1..M /\ \A i \in 1..M : console[i].piece \in Pieces
    BY <1>1, ConsolePieces DEF IInv, TypeOK
  <2>2. M <= N /\ \A i \in 1..M : console[i].piece = lines[N - M + i]
    BY <1>1, <2>1 DEF IInv, LineInv, Agree
  <2>3. LogConsole = [i \in 1..M |-> console[i].piece]
    BY <2>1 DEF LogConsole
  <2>4. LogConsole \in Seq(Pieces) /\ Len(LogConsole) = M
    BY <2>1, <2>3
  <2>5. SubSeq(lines, N - M + 1, N) = [i \in 1..M |-> lines[N - M + i]]
    BY <2>1, <2>2
  <2> QED BY <2>1, <2>2, <2>3, <2>4, <2>5
<1>2. IInv => SinksAgree
  BY <1>1 DEF SinksAgree
<1> QED BY <1>2, Invariance, PTL

-----------------------------------------------------------------------------
(* Formatted output.  Every set of numbers has a least element: what is    *)
(* said of all numbers holds because there is no least counterexample.     *)
LEMMA Least == ASSUME NEW T, T \subseteq Nat, T # {} PROVE \E x \in T : \A y \in T : x <= y
<1>1. IsWellFoundedOn(OpToRel(<, Nat), Nat)
  BY NatLessThanWellFounded
<1>2. PICK x \in T : \A y \in T : <<y, x>> \notin OpToRel(<, Nat)
  BY <1>1, WFMin
<1>3. \A y \in T : ~(y < x)
  BY <1>2 DEF OpToRel
<1> QED BY <1>3

-----------------------------------------------------------------------------
(* Powers of two.  A power is the number of subsets of a set, which is all *)
(* that the provers know about it.                                         *)
LEMMA PowerOf ==
  ASSUME NEW n \in Nat
  PROVE  /\ IsFiniteSet(SUBSET (1..n)) /\ Cardinality(SUBSET (1..n)) = 2^n
         /\ 2^n \in Nat \ {0}
<1>1. IsFiniteSet(1..n) /\ Cardinality(1..n) = n
  BY FS_Interval
<1>2. IsFiniteSet(SUBSET (1..n)) /\ Cardinality(SUBSET (1..n)) = 2^n
  BY <1>1, FS_SUBSET
<1>3. SUBSET (1..n) # {}
  OBVIOUS
<1> QED BY <1>2, <1>3, FS_CardinalityType, FS_EmptySet

LEMMA PowerGrows == ASSUME NEW m \in Nat, NEW n \in Nat, m <= n PROVE 2^m <= 2^n
<1>1. SUBSET (1..m) \subseteq SUBSET (1..n)
  OBVIOUS
<1>2. Cardinality(SUBSET (1..m)) <= Cardinality(SUBSET (1..n))
  BY <1>1, PowerOf, FS_Subset
<1> QED BY <1>2, PowerOf

LEMMA PowerDoubles == ASSUME NEW n \in Nat PROVE 2^(n + 1) = 2 * 2^n
<1> DEFINE A == SUBSET (1..n)
           B == {S \in SUBSET (1..(n + 1)) : n + 1 \in S}
           f == [S \in A |-> S \cup {n + 1}]
<1>1. IsFiniteSet(A) /\ Cardinality(A) = 2^n /\ 2^n \in Nat
  BY PowerOf
<1>2. Cardinality(SUBSET (1..(n + 1))) = 2^(n + 1)
  BY PowerOf
<1>3. f \in Bijection(A, B)
  <2>1. f \in [A -> B]
    OBVIOUS
  <2>2. ASSUME NEW S \in A, NEW U \in A, f[S] = f[U] PROVE S = U
    <3>1. n + 1 \notin S /\ n + 1 \notin U
      OBVIOUS
    <3>2. S \cup {n + 1} = U \cup {n + 1}
      BY <2>2
    <3> QED BY <3>1, <3>2
  <2>3. ASSUME NEW U \in B PROVE \E S \in A : f[S] = U
    <3>1. U \ {n + 1} \in A
      OBVIOUS
    <3>2. f[U \ {n + 1}] = U
      BY <3>1
    <3> QED BY <3>1, <3>2
  <2> QED BY <2>1, <2>2, <2>3 DEF Bijection, Injection, Surjection, IsInjective
<1>4. IsFiniteSet(B) /\ Cardinality(B) = 2^n
  BY <1>1, <1>3, FS_Bijection DEF ExistsBijection
<1>5. SUBSET (1..(n + 1)) = A \cup B
  <2>1. ASSUME NEW S \in SUBSET (1..(n + 1)), n + 1 \notin S PROVE S \in A
    BY <2>1
  <2>2. A \subseteq SUBSET (1..(n + 1))
    OBVIOUS
  <2> QED BY <2>1, <2>2
<1>6. A \cap B = {}
  OBVIOUS
<1> HIDE DEF A, B
<1>7. Cardinality(A \cup B) = Cardinality(A) + Cardinality(B) - Cardinality(A \cap B)
  BY <1>1, <1>4, FS_Union
<1>8. Cardinality(A \cap B) = 0
  BY <1>6, FS_EmptySet
<1> DEFINE p == 2^n  q == 2^(n + 1)
<1>9. Cardinality(A) = p /\ Cardinality(B) = p /\ p \in Nat /\ Cardinality(A \cup B) = q
  BY <1>1, <1>2, <1>4, <1>5
<1> HIDE DEF p, q
<1>10. q = p + p /\ p \in Nat
  BY <1>7, <1>8, <1>9
<1>11. q = 2 * p
  BY <1>10
<1> QED BY <1>11 DEF p, q

(* The widths of the length modifiers.                                     *)
LEMMA WidthFacts ==
  ASSUME NEW m \in DOMAIN Bits
  PROVE  /\ Bits[m] \in Nat \ {0} /\ Bits["int"] \in Nat \ {0} /\ Word \in Nat \ {0}
         /\ 2^(Bits[m] - 1) \in Nat \ {0} /\ 2^Bits[m] = 2 * 2^(Bits[m] - 1)
         /\ 2^Word \in Nat \ {0} /\ 2^Bits[m] <= 2^Word
<1>1. /\ Bits[m] \in Nat \ {0} /\ Bits[m] <= Word /\ Bits["int"] \in Nat \ {0}
      /\ Word \in Nat \ {0}
  BY FormatAssumption DEF FormatAssumption, Word
<1>2. Bits[m] - 1 \in Nat /\ (Bits[m] - 1) + 1 = Bits[m]
  BY <1>1
<1>3. 2^Bits[m] = 2 * 2^(Bits[m] - 1)
  BY <1>2, PowerDoubles
<1> QED BY <1>1, <1>2, <1>3, PowerOf, PowerGrows

-----------------------------------------------------------------------------
(* Characters of a number.                                                 *)
DigitChars == {Lower[d] : d \in 1..16} \cup {Upper[d] : d \in 1..16}
Leading == NoDigit \cup {"0"}

LEMMA LowerIs ==
  /\ Lower[1] = "0" /\ Lower[2] = "1" /\ Lower[3] = "2" /\ Lower[4] = "3"
  /\ Lower[5] = "4" /\ Lower[6] = "5" /\ Lower[7] = "6" /\ Lower[8] = "7"
  /\ Lower[9] = "8" /\ Lower[10] = "9" /\ Lower[11] = "a" /\ Lower[12] = "b"
  /\ Lower[13] = "c" /\ Lower[14] = "d" /\ Lower[15] = "e" /\ Lower[16] = "f"
BY DEF Lower

LEMMA UpperIs ==
  /\ \A d \in 1..10 : Upper[d] = Lower[d]
  /\ Upper[11] = "A" /\ Upper[12] = "B" /\ Upper[13] = "C" /\ Upper[14] = "D"
  /\ Upper[15] = "E" /\ Upper[16] = "F"
BY DEF Upper

(* Each digit has its value, in either alphabet.                           *)
LEMMA DigitIs ==
  ASSUME NEW alphabet \in {Lower, Upper}, NEW d \in 1..16
  PROVE  DigitOf(alphabet[d]) = d - 1 /\ alphabet[d] \notin NoDigit
<1>1. ASSUME NEW e \in 1..16, Lower[e] = alphabet[d] \/ Upper[e] = alphabet[d] PROVE e = d
  BY <1>1, LowerIs, UpperIs
<1>2. Lower[d] = alphabet[d] \/ Upper[d] = alphabet[d]
  OBVIOUS
<1>3. (CHOOSE e \in 1..16 : Lower[e] = alphabet[d] \/ Upper[e] = alphabet[d]) = d
  BY <1>1, <1>2
<1>4. alphabet[d] \notin NoDigit
  <2>1. alphabet[d] \in {"0", "1", "2", "3", "4", "5", "6", "7", "8", "9"}
        \/ alphabet[d] \in {"a", "b", "c", "d", "e", "f"}
        \/ alphabet[d] \in {"A", "B", "C", "D", "E", "F"}
    BY LowerIs, UpperIs
  <2> QED BY <2>1 DEF NoDigit
<1> QED BY <1>3, <1>4 DEF DigitOf

-----------------------------------------------------------------------------
(* What the recursive definition of Digits computes.  A quotient is        *)
(* smaller than what was divided.                                          *)
Bases == {8, 10, 16}
LEMMA DivMod ==
  ASSUME NEW a \in Int, NEW d \in Nat \ {0}
  PROVE  a \div d \in Int /\ a % d \in 0..(d - 1) /\ a = d * (a \div d) + (a % d)
OBVIOUS

LEMMA Quotient ==
  ASSUME NEW b \in Bases, NEW v \in Nat
  PROVE  /\ v \div b \in Nat /\ v % b \in 0..(b - 1) /\ v = b * (v \div b) + (v % b)
         /\ (v % b) + 1 \in 1..16 /\ (v > 0 => v \div b \in 0..(v - 1))
<1>1. b \in Nat \ {0} /\ b <= 16 /\ b >= 8 /\ v \in Int
  BY DEF Bases
<1>2. v \div b \in Int /\ v % b \in 0..(b - 1) /\ v = b * (v \div b) + (v % b)
  BY <1>1, DivMod, Zenon
<1>3. PICK q, r : q = v \div b /\ r = v % b
  OBVIOUS
<1>4. q \in Int /\ r \in 0..(b - 1) /\ v = b * q + r
  BY <1>2, <1>3, Zenon
<1>5. q \in Nat /\ (v > 0 => q < v)
  <2>1. CASE b = 8
    BY <1>4, <2>1
  <2>2. CASE b = 10
    BY <1>4, <2>2
  <2>3. CASE b = 16
    BY <1>4, <2>3
  <2> QED BY <2>1, <2>2, <2>3 DEF Bases
<1>6. r + 1 \in 1..16 /\ (v > 0 => q \in 0..(v - 1))
  BY <1>1, <1>4, <1>5
<1>7. v \div b \in Nat /\ (v % b) + 1 \in 1..16
  BY <1>3, <1>5, <1>6, Zenon
<1>8. v > 0 => v \div b \in 0..(v - 1)
  BY <1>3, <1>6, Zenon
<1> QED BY <1>2, <1>7, <1>8, Zenon

LEMMA DigitsExist ==
  ASSUME NEW b \in Bases, NEW alphabet, NEW n \in Nat
  PROVE  \E f : f = [v \in 0..n |-> IF v = 0 THEN << >>
                                    ELSE Append(f[v \div b], alphabet[(v % b) + 1])]
<1> DEFINE Is(f, m) == f = [v \in 0..m |-> IF v = 0 THEN << >>
                                    ELSE Append(f[v \div b], alphabet[(v % b) + 1])]
           T == {m \in Nat : ~\E f : Is(f, m)}
<1>1. SUFFICES ASSUME T # {} PROVE FALSE
  OBVIOUS
<1>2. PICK m \in T : \A y \in T : m <= y
  BY <1>1, Least
<1>3. CASE m = 0
  <2> DEFINE f == [v \in 0..0 |-> << >>]
  <2>1. Is(f, 0)
    OBVIOUS
  <2> QED BY <2>1, <1>3, <1>2
<1>4. CASE m > 0
  <2>1. m \in Nat /\ m - 1 \in Nat
    BY <1>2, <1>4
  <2>2. PICK g : Is(g, m - 1)
    <3>1. m - 1 \notin T
      <4> HIDE DEF T
      <4> QED BY <1>2, <2>1
    <3> QED BY <2>1, <3>1
  <2> DEFINE f == [v \in 0..m |-> IF v = 0 THEN << >>
                                  ELSE Append(g[v \div b], alphabet[(v % b) + 1])]
  <2>3. \A v \in 0..m : f[v] = IF v = 0 THEN << >>
                               ELSE Append(g[v \div b], alphabet[(v % b) + 1])
    OBVIOUS
  <2>4. \A v \in 0..(m - 1) : g[v] = IF v = 0 THEN << >>
                                     ELSE Append(g[v \div b], alphabet[(v % b) + 1])
    BY <2>1, <2>2
  <2>5. f = [v \in 0..m |-> f[v]]
    OBVIOUS
  <2> HIDE DEF f
  <2>6. \A v \in 0..(m - 1) : f[v] = g[v]
    BY <2>1, <2>3, <2>4
  <2>7. ASSUME NEW v \in 0..m
        PROVE  f[v] = IF v = 0 THEN << >> ELSE Append(f[v \div b], alphabet[(v % b) + 1])
    <3>1. CASE v = 0
      BY <3>1, <2>1, <2>3
    <3>2. CASE v # 0
      <4>1. v \div b \in 0..(m - 1)
        <5>1. v \in Nat /\ v > 0 /\ v <= m
          BY <2>1, <3>2
        <5>2. v \div b \in 0..(v - 1)
          BY <5>1, Quotient
        <5> HIDE DEF f
        <5> QED BY <2>1, <5>1, <5>2
      <4> QED BY <2>3, <2>6, <3>2, <4>1
    <3> QED BY <3>1, <3>2
  <2>8. Is(f, m)
    BY <2>5, <2>7
  <2> QED BY <2>8, <1>2
<1> QED BY <1>2, <1>3, <1>4

LEMMA SlotsAre == Slots \subseteq Nat /\ 2^Word - 1 \in Nat /\ 0 \in Slots
<1>1. "l" \in DOMAIN Bits
  BY FormatAssumption DEF FormatAssumption
<1>2. 2^Word \in Nat \ {0}
  BY <1>1, WidthFacts
<1> QED BY <1>2 DEF Slots

LEMMA DigitsIs ==
  ASSUME NEW b \in Bases, NEW alphabet, NEW v \in Slots
  PROVE  Digits(v, b, alphabet) =
           IF v = 0 THEN << >>
           ELSE Append(Digits(v \div b, b, alphabet), alphabet[(v % b) + 1])
<1> DEFINE Is(f) == f = [u \in Slots |-> IF u = 0 THEN << >>
                                  ELSE Append(f[u \div b], alphabet[(u % b) + 1])]
           g == CHOOSE f : Is(f)
<1>1. \E f : Is(f)
  BY SlotsAre, DigitsExist DEF Slots
<1>2. Is(g)
  BY <1>1
<1>3. \A u : Digits(u, b, alphabet) = g[u]
  BY DEF Digits
<1> HIDE DEF g
<1>4. g[v] = IF v = 0 THEN << >> ELSE Append(g[v \div b], alphabet[(v % b) + 1])
  BY <1>2
<1> QED BY <1>3, <1>4

LEMMA SlotQuotient ==
  ASSUME NEW b \in Bases, NEW v \in Slots, v > 0
  PROVE  v \div b \in Slots /\ v \div b < v /\ (v % b) + 1 \in 1..16
<1>1. v \in Nat /\ 2^Word - 1 \in Nat /\ v <= 2^Word - 1
  BY SlotsAre DEF Slots
<1>2. v \div b \in 0..(v - 1) /\ (v % b) + 1 \in 1..16
  BY <1>1, Quotient, Zenon
<1>3. PICK q : q = v \div b
  OBVIOUS
<1>4. q \in 0..(v - 1)
  BY <1>2, <1>3, Zenon
<1>5. q \in Slots /\ q < v
  BY <1>1, <1>4 DEF Slots
<1> QED BY <1>2, <1>3, <1>5, Zenon

LEMMA DigitsSeq ==
  ASSUME NEW b \in Bases, NEW alphabet \in {Lower, Upper}, NEW n \in Slots
  PROVE  Digits(n, b, alphabet) \in Seq(DigitChars)
<1> DEFINE T == {v \in Slots : Digits(v, b, alphabet) \notin Seq(DigitChars)}
<1>1. SUFFICES ASSUME T # {} PROVE FALSE
  OBVIOUS
<1>2. PICK v \in T : \A y \in T : v <= y
  BY <1>1, Least, SlotsAre, T \subseteq Nat
<1>3. v \in Slots /\ v \in Nat /\ Digits(v, b, alphabet) \notin Seq(DigitChars)
  BY <1>2, SlotsAre
<1>4. CASE v = 0
  BY <1>3, <1>4, DigitsIs, EmptySeq
<1>5. CASE v > 0
  <2>1. v \div b \in Slots /\ v \div b < v /\ (v % b) + 1 \in 1..16
    BY <1>3, <1>5, SlotQuotient
  <2>2. Digits(v \div b, b, alphabet) \in Seq(DigitChars)
    <3>1. PICK q : q = v \div b
      OBVIOUS
    <3>2. q \in Slots /\ q < v /\ q \in Nat
      BY <2>1, <3>1, SlotsAre, Zenon
    <3>3. q \notin T
      <4> HIDE DEF T
      <4> QED BY <1>2, <1>3, <3>2
    <3> QED BY <3>1, <3>2, <3>3
  <2>3. alphabet[(v % b) + 1] \in DigitChars
    BY <2>1 DEF DigitChars
  <2>4. Digits(v, b, alphabet) = Append(Digits(v \div b, b, alphabet), alphabet[(v % b) + 1])
    BY <1>3, <1>5, DigitsIs
  <2> QED BY <1>3, <2>2, <2>3, <2>4, AppendProperties
<1> QED BY <1>3, <1>4, <1>5

-----------------------------------------------------------------------------
(* What a reader makes of a field: v[j] is the number read when the first  *)
(* j characters have been.                                                 *)
Reading(v, f, b, n) ==
  v = [j \in 0..n |-> IF j = 0 THEN 0
                      ELSE IF f[j] \in NoDigit THEN v[j - 1]
                      ELSE v[j - 1] * b + DigitOf(f[j])]

LEMMA ReadingExists == ASSUME NEW f, NEW b, NEW n \in Nat PROVE \E v : Reading(v, f, b, n)
<1> DEFINE T == {m \in Nat : ~\E v : Reading(v, f, b, m)}
           Entry(v, j) == IF j = 0 THEN 0
                         ELSE IF f[j] \in NoDigit THEN v[j - 1]
                         ELSE v[j - 1] * b + DigitOf(f[j])
<1>1. SUFFICES ASSUME T # {} PROVE FALSE
  OBVIOUS
<1>2. PICK m \in T : \A y \in T : m <= y
  BY <1>1, Least
<1>3. CASE m = 0
  <2> DEFINE v == [j \in 0..0 |-> 0]
  <2>1. Reading(v, f, b, 0)
    BY DEF Reading
  <2> QED BY <2>1, <1>3, <1>2
<1>4. CASE m > 0
  <2>1. m \in Nat /\ m - 1 \in Nat
    BY <1>2, <1>4
  <2>2. PICK g : Reading(g, f, b, m - 1)
    <3>1. m - 1 \notin T
      <4> HIDE DEF T
      <4> QED BY <1>2, <2>1
    <3> QED BY <2>1, <3>1
  <2> DEFINE v == [j \in 0..m |-> Entry(g, j)]
  <2>3. \A j \in 0..m : v[j] = Entry(g, j)
    OBVIOUS
  <2>4. \A j \in 0..(m - 1) : g[j] = Entry(g, j)
    BY <2>1, <2>2 DEF Reading
  <2>5. v = [j \in 0..m |-> v[j]]
    OBVIOUS
  <2> HIDE DEF v
  <2>6. \A j \in 0..(m - 1) : v[j] = g[j]
    BY <2>1, <2>3, <2>4
  <2>7. ASSUME NEW j \in 0..m PROVE v[j] = Entry(v, j)
    <3>1. CASE j = 0
      BY <3>1, <2>1, <2>3
    <3>2. CASE j # 0
      <4>1. j - 1 \in 0..(m - 1)
        BY <2>1, <3>2
      <4>2. v[j - 1] = g[j - 1]
        BY <2>6, <4>1
      <4> QED BY <2>3, <3>2, <4>2
    <3> QED BY <3>1, <3>2
  <2>8. Reading(v, f, b, m)
    BY <2>5, <2>7 DEF Reading
  <2> QED BY <2>8, <1>2
<1> QED BY <1>2, <1>3, <1>4

LEMMA ReadIs ==
  ASSUME NEW f, NEW b, Len(f) \in Nat
  PROVE  \E v : /\ ReadDigits(f, b) = v[Len(f)] /\ v[0] = 0
                /\ \A j \in 1..Len(f) :
                     v[j] = IF f[j] \in NoDigit THEN v[j - 1] ELSE v[j - 1] * b + DigitOf(f[j])
<1> DEFINE Is(v) == v = [j \in 0..Len(f) |-> IF j = 0 THEN 0
                      ELSE IF f[j] \in NoDigit THEN v[j - 1]
                      ELSE v[j - 1] * b + DigitOf(f[j])]
           g == CHOOSE v : Is(v)
<1>1. \E v : Is(v)
  <2>1. PICK v : Reading(v, f, b, Len(f))
    BY ReadingExists
  <2> QED BY <2>1, Zenon DEF Reading
<1>2. Is(g)
  BY <1>1
<1>3. ReadDigits(f, b) = g[Len(f)]
  BY DEF ReadDigits
<1> HIDE DEF g
<1>4. g[0] = 0
  BY <1>2
<1>5. ASSUME NEW j \in 1..Len(f)
      PROVE  g[j] = IF f[j] \in NoDigit THEN g[j - 1] ELSE g[j - 1] * b + DigitOf(f[j])
  <2>1. j \in 0..Len(f) /\ j # 0
    OBVIOUS
  <2> QED BY <1>2, <2>1
<1> QED BY <1>3, <1>4, <1>5

(* A field shows the number n: after blanks, zeros and signs come the      *)
(* digits of n, and after them only blanks.                                *)
ShowsAfter(f, n, b, alphabet, a) ==
  LET D == Digits(n, b, alphabet)
  IN  /\ a + Len(D) <= Len(f)
      /\ \A j \in 1..a : f[j] \in Leading
      /\ \A j \in 1..Len(D) : f[a + j] = D[j]
      /\ \A j \in (a + Len(D) + 1)..Len(f) : f[j] \in NoDigit
Shows(f, n, b, alphabet) == \E a \in Nat : ShowsAfter(f, n, b, alphabet, a)

(* Whoever reads it then reads n.                                          *)
LEMMA ReadShown ==
  ASSUME NEW f, NEW b \in Bases, NEW alphabet \in {Lower, Upper}, NEW n \in Slots,
         Len(f) \in Nat, Shows(f, n, b, alphabet)
  PROVE  ReadDigits(f, b) = n
<1> DEFINE Dig(m) == Digits(m, b, alphabet)
<1>1. PICK v : /\ ReadDigits(f, b) = v[Len(f)] /\ v[0] = 0
               /\ \A j \in 1..Len(f) :
                    v[j] = IF f[j] \in NoDigit THEN v[j - 1] ELSE v[j - 1] * b + DigitOf(f[j])
  BY ReadIs
<1>2. PICK a \in Nat : ShowsAfter(f, n, b, alphabet, a)
  BY DEF Shows
<1>3. b \in Nat
  BY DEF Bases
<1>4. \A m \in Slots : Dig(m) \in Seq(DigitChars) /\ Len(Dig(m)) \in Nat
  BY DigitsSeq, LenProperties
<1>5. /\ a + Len(Dig(n)) <= Len(f) /\ a <= Len(f)
      /\ \A j \in 1..a : f[j] \in Leading
      /\ \A j \in 1..Len(Dig(n)) : f[a + j] = Dig(n)[j]
      /\ \A j \in (a + Len(Dig(n)) + 1)..Len(f) : f[j] \in NoDigit
  BY <1>2, <1>4 DEF ShowsAfter
<1> HIDE DEF Dig
<1>6. v[a] = 0
  <2> DEFINE T == {j \in 0..a : v[j] # 0}
  <2>1. SUFFICES ASSUME T # {} PROVE FALSE
    OBVIOUS
  <2>2. PICK j \in T : \A y \in T : j <= y
    BY <2>1, Least, T \subseteq Nat
  <2>3. j \in 1..a /\ j - 1 \in 0..a /\ j \in 1..Len(f) /\ v[j] # 0
    BY <1>1, <1>5, <2>2
  <2>4. v[j - 1] = 0
    BY <2>2, <2>3
  <2>5. DigitOf("0") = 0
    BY DigitIs, LowerIs
  <2>6. f[j] \in NoDigit \/ f[j] = "0"
    BY <1>5, <2>3 DEF Leading
  <2>7. v[j] = 0
    BY <1>1, <1>3, <2>3, <2>4, <2>5, <2>6
  <2> QED BY <2>3, <2>7
<1>7. v[a + Len(Dig(n))] = n
  <2> DEFINE Prefix(m) == /\ Len(Dig(m)) <= Len(Dig(n))
                          /\ \A j \in 1..Len(Dig(m)) : f[a + j] = Dig(m)[j]
             T == {m \in Slots : Prefix(m) /\ v[a + Len(Dig(m))] # m}
  <2>1. SUFFICES ASSUME T # {} PROVE FALSE
    BY <1>4, <1>5
  <2>2. PICK m \in T : \A y \in T : m <= y
    BY <2>1, Least, SlotsAre, T \subseteq Nat
  <2>3. m \in Slots /\ m \in Nat /\ Prefix(m) /\ v[a + Len(Dig(m))] # m
    BY <2>2, SlotsAre
  <2>4. m # 0
    <3>1. SUFFICES ASSUME m = 0 PROVE FALSE
      OBVIOUS
    <3>2. Dig(m) = << >>
      BY <2>3, <3>1, DigitsIs DEF Dig
    <3>3. a + Len(Dig(m)) = a
      BY <3>2, EmptySeq
    <3> QED BY <1>6, <2>3, <3>1, <3>3
  <2>5. PICK q, r : q = m \div b /\ r = m % b
    OBVIOUS
  <2>6. q \in Slots /\ q < m /\ q \in Nat /\ r + 1 \in 1..16 /\ m = b * q + r
        /\ r \in 0..(b - 1)
    <3>1. m > 0
      BY <2>3, <2>4
    <3>2. m \div b \in Slots /\ m \div b < m /\ (m % b) + 1 \in 1..16
      BY <2>3, <3>1, SlotQuotient
    <3>3. m = b * (m \div b) + (m % b) /\ m % b \in 0..(b - 1)
      BY <2>3, Quotient
    <3> QED BY <2>5, <3>2, <3>3, SlotsAre, Zenon
  <2>7. Dig(m) = Append(Dig(q), alphabet[r + 1])
    BY <2>3, <2>4, <2>5, DigitsIs, Zenon DEF Dig
  <2>8. /\ Len(Dig(m)) = Len(Dig(q)) + 1 /\ Len(Dig(q)) \in Nat
        /\ Dig(m)[Len(Dig(q)) + 1] = alphabet[r + 1]
        /\ \A j \in 1..Len(Dig(q)) : Dig(m)[j] = Dig(q)[j]
    <3>1. Dig(q) \in Seq(DigitChars) /\ alphabet[r + 1] \in DigitChars /\ Len(Dig(q)) \in Nat
      BY <1>4, <2>6 DEF DigitChars
    <3> QED BY <2>7, <3>1, AppendProperties
  <2>9. Prefix(q)
    <3>1. Len(Dig(q)) <= Len(Dig(n)) /\ \A j \in 1..Len(Dig(q)) : j \in 1..Len(Dig(m))
      BY <1>4, <2>3, <2>8
    <3> QED BY <2>3, <2>8, <3>1
  <2>10. v[a + Len(Dig(q))] = q
    <3>1. q \notin T
      <4> HIDE DEF T
      <4> QED BY <2>2, <2>3, <2>6
    <3> QED BY <2>6, <2>9, <3>1
  <2> DEFINE k == a + Len(Dig(q)) + 1
  <2>11. k \in 1..Len(f) /\ k - 1 = a + Len(Dig(q)) /\ k = a + Len(Dig(m))
         /\ f[k] = alphabet[r + 1]
    <3>1. k \in 1..Len(f) /\ k - 1 = a + Len(Dig(q)) /\ k = a + Len(Dig(m))
      BY <1>4, <1>5, <2>3, <2>8
    <3>2. f[a + Len(Dig(m))] = Dig(m)[Len(Dig(m))]
      BY <2>3, <2>8
    <3> QED BY <2>8, <3>1, <3>2
  <2> HIDE DEF k
  <2>12. DigitOf(f[k]) = r /\ f[k] \notin NoDigit
    <3>1. r \in Int
      BY <1>3, <2>6
    <3>2. DigitOf(alphabet[r + 1]) = (r + 1) - 1 /\ alphabet[r + 1] \notin NoDigit
      BY <2>6, DigitIs
    <3> QED BY <2>11, <3>1, <3>2
  <2>13. v[k] = q * b + r
    BY <1>1, <2>10, <2>11, <2>12
  <2>14. q * b = b * q
    BY <1>3, <2>6
  <2> QED BY <2>3, <2>6, <2>11, <2>13, <2>14
<1>8. v[Len(f)] = n
  <2> DEFINE e == a + Len(Dig(n))
             T == {j \in e..Len(f) : v[j] # n}
  <2>0. e \in Nat /\ e <= Len(f)
    BY <1>4, <1>5
  <2>1. SUFFICES ASSUME T # {} PROVE FALSE
    BY <2>0
  <2>2. PICK j \in T : \A y \in T : j <= y
    BY <2>0, <2>1, Least, T \subseteq Nat
  <2> HIDE DEF e
  <2>3. j # e
    BY <1>7, <2>2 DEF e
  <2>4. j \in (e + 1)..Len(f) /\ j - 1 \in e..Len(f) /\ j \in 1..Len(f) /\ v[j] # n
    BY <2>0, <2>2, <2>3
  <2>5. v[j - 1] = n
    BY <2>2, <2>4
  <2>6. f[j] \in NoDigit
    BY <1>5, <2>4 DEF e
  <2>7. v[j] = n
    BY <1>1, <2>4, <2>5, <2>6
  <2> QED BY <2>4, <2>7
<1> QED BY <1>1, <1>8

-----------------------------------------------------------------------------
(* Putting fields together.                                                *)
Chars == DigitChars \cup NoDigit
Unsign == Chars \ {"-"}     \* characters of a number without minus sign

LEMMA CharFacts ==
  /\ "0" \in DigitChars /\ DigitChars \subseteq Unsign /\ Unsign \subseteq Chars
  /\ Leading \subseteq Chars /\ NoDigit \subseteq Leading
  /\ {"0", " ", "+", "x", "X"} \subseteq Leading \cap Unsign /\ "-" \in Leading
<1>1. "0" \in DigitChars
  BY LowerIs DEF DigitChars
<1>2. DigitChars \subseteq Unsign
  <2>1. "-" \in NoDigit
    BY DEF NoDigit
  <2>2. ASSUME NEW ch \in DigitChars PROVE ch \notin NoDigit
    BY DigitIs DEF DigitChars
  <2> QED BY <2>1, <2>2 DEF Unsign, Chars
<1>3. {" ", "+", "x", "X"} \subseteq Unsign
  BY DEF Unsign, Chars, NoDigit
<1>4. {"0", " ", "+", "x", "X"} \subseteq Leading /\ "-" \in Leading
  BY DEF Leading, NoDigit
<1> QED BY <1>1, <1>2, <1>3, <1>4 DEF Unsign, Chars, Leading

LEMMA RepeatIs ==
  ASSUME NEW c, NEW n \in Int
  PROVE  /\ Repeat(c, n) \in Seq({c}) /\ Len(Repeat(c, n)) = Larger(n, 0)
         /\ \A S : c \in S => Repeat(c, n) \in Seq(S)
<1>1. ASSUME NEW S, c \in S PROVE Repeat(c, n) \in Seq(S) /\ Len(Repeat(c, n)) = Larger(n, 0)
  <2>1. CASE n > 0
    <3>1. n \in Nat /\ Larger(n, 0) = n
      BY <2>1 DEF Larger
    <3> QED BY <1>1, <3>1 DEF Repeat
  <2>2. CASE n <= 0
    <3>1. 1..n = 1..0 /\ Larger(n, 0) = 0
      BY <2>2 DEF Larger
    <3>2. Repeat(c, n) = [k \in 1..0 |-> c]
      BY <3>1 DEF Repeat
    <3> QED BY <1>1, <3>1, <3>2
  <2> QED BY <2>1, <2>2
<1> QED BY <1>1

LEMMA RepeatIn ==
  ASSUME NEW S, NEW c \in S, NEW n \in Int
  PROVE  /\ Repeat(c, n) \in Seq(S) /\ Len(Repeat(c, n)) = Larger(n, 0)
         /\ Larger(n, 0) \in Nat
<1>1. Repeat(c, n) \in Seq(S) /\ Len(Repeat(c, n)) = Larger(n, 0)
  BY RepeatIs
<1>2. Larger(n, 0) \in Nat
  BY DEF Larger
<1> QED BY <1>1, <1>2

LEMMA ConcatIs ==
  ASSUME NEW S, NEW s \in Seq(S), NEW t \in Seq(S)
  PROVE  /\ s \o t \in Seq(S) /\ Len(s \o t) = Len(s) + Len(t)
         /\ Len(s) \in Nat /\ Len(t) \in Nat /\ Len(s \o t) \in Nat
BY ConcatProperties, LenProperties

LEMMA Single == ASSUME NEW S, NEW c \in S PROVE <<c>> \in Seq(S)
OBVIOUS

LEMMA ShowsDigits ==
  ASSUME NEW b \in Bases, NEW alphabet \in {Lower, Upper}, NEW n \in Slots
  PROVE  Shows(Digits(n, b, alphabet), n, b, alphabet)
<1> DEFINE D == Digits(n, b, alphabet)
<1>1. Len(D) \in Nat
  BY DigitsSeq, LenProperties
<1>2. ShowsAfter(D, n, b, alphabet, 0)
  BY <1>1 DEF ShowsAfter
<1> QED BY <1>2 DEF Shows

LEMMA ShowsPrefixed ==
  ASSUME NEW b \in Bases, NEW alphabet \in {Lower, Upper}, NEW n \in Slots,
         NEW s \in Seq(Leading), NEW f \in Seq(Chars), Shows(f, n, b, alphabet)
  PROVE  Shows(s \o f, n, b, alphabet)
<1> DEFINE D == Digits(n, b, alphabet)  g == s \o f  m == Len(s)
<1>1. PICK a \in Nat : ShowsAfter(f, n, b, alphabet, a)
  BY DEF Shows
<1>2. Len(D) \in Nat /\ m \in Nat /\ Len(f) \in Nat /\ \A j \in 1..m : s[j] \in Leading
  BY DigitsSeq, LenProperties, ElementOfSeq
<1>3. /\ Len(g) = m + Len(f)
      /\ \A j \in 1..(m + Len(f)) : g[j] = IF j <= m THEN s[j] ELSE f[j - m]
  <2>1. s \in Seq(Chars)
    BY CharFacts, SeqMonotonic
  <2> QED BY <2>1, ConcatProperties
<1>4. /\ a + Len(D) <= Len(f)
      /\ \A j \in 1..a : f[j] \in Leading
      /\ \A j \in 1..Len(D) : f[a + j] = D[j]
      /\ \A j \in (a + Len(D) + 1)..Len(f) : f[j] \in NoDigit
  BY <1>1 DEF ShowsAfter
<1> HIDE DEF D, g, m
<1>5. (m + a) + Len(D) <= Len(g) /\ m + a \in Nat
  BY <1>2, <1>3, <1>4
<1>6. ASSUME NEW j \in 1..(m + a) PROVE g[j] \in Leading
  <2>1. CASE j <= m
    BY <1>2, <1>3, <1>4, <2>1
  <2>2. CASE j > m
    <3>1. j - m \in 1..a /\ j \in 1..(m + Len(f))
      BY <1>2, <1>4, <2>2
    <3> QED BY <1>2, <1>3, <1>4, <2>2, <3>1
  <2> QED BY <1>2, <2>1, <2>2
<1>7. ASSUME NEW j \in 1..Len(D) PROVE g[(m + a) + j] = D[j]
  <2>1. /\ (m + a) + j \in 1..(m + Len(f)) /\ ~((m + a) + j <= m)
        /\ ((m + a) + j) - m = a + j
    BY <1>2, <1>4
  <2> QED BY <1>3, <1>4, <2>1
<1>8. ASSUME NEW j \in ((m + a) + Len(D) + 1)..Len(g) PROVE g[j] \in NoDigit
  <2>1. j \in 1..(m + Len(f)) /\ ~(j <= m) /\ j - m \in (a + Len(D) + 1)..Len(f)
    BY <1>2, <1>3, <1>4
  <2> QED BY <1>3, <1>4, <2>1
<1>9. ShowsAfter(g, n, b, alphabet, m + a)
  BY <1>5, <1>6, <1>7, <1>8 DEF ShowsAfter, D
<1> QED BY <1>5, <1>9 DEF Shows, g

LEMMA ShowsPadded ==
  ASSUME NEW b \in Bases, NEW alphabet \in {Lower, Upper}, NEW n \in Slots,
         NEW s \in Seq(NoDigit), NEW f \in Seq(Chars), Shows(f, n, b, alphabet)
  PROVE  Shows(f \o s, n, b, alphabet)
<1> DEFINE D == Digits(n, b, alphabet)  g == f \o s  m == Len(s)
<1>1. PICK a \in Nat : ShowsAfter(f, n, b, alphabet, a)
  BY DEF Shows
<1>2. Len(D) \in Nat /\ m \in Nat /\ Len(f) \in Nat /\ \A j \in 1..m : s[j] \in NoDigit
  BY DigitsSeq, LenProperties, ElementOfSeq
<1>3. /\ Len(g) = Len(f) + m
      /\ \A j \in 1..(Len(f) + m) : g[j] = IF j <= Len(f) THEN f[j] ELSE s[j - Len(f)]
  <2>1. s \in Seq(Chars)
    BY CharFacts, SeqMonotonic
  <2> QED BY <2>1, ConcatProperties
<1>4. /\ a + Len(D) <= Len(f)
      /\ \A j \in 1..a : f[j] \in Leading
      /\ \A j \in 1..Len(D) : f[a + j] = D[j]
      /\ \A j \in (a + Len(D) + 1)..Len(f) : f[j] \in NoDigit
  BY <1>1 DEF ShowsAfter
<1> HIDE DEF D, g, m
<1>5. a + Len(D) <= Len(g)
  BY <1>2, <1>3, <1>4
<1>6. ASSUME NEW j \in 1..a PROVE g[j] \in Leading
  <2>1. j <= Len(f) /\ j \in 1..(Len(f) + m)
    BY <1>2, <1>4
  <2> QED BY <1>3, <1>4, <2>1
<1>7. ASSUME NEW j \in 1..Len(D) PROVE g[a + j] = D[j]
  <2>1. a + j <= Len(f) /\ a + j \in 1..(Len(f) + m)
    BY <1>2, <1>4
  <2> QED BY <1>3, <1>4, <2>1
<1>8. ASSUME NEW j \in (a + Len(D) + 1)..Len(g) PROVE g[j] \in NoDigit
  <2>1. CASE j <= Len(f)
    BY <1>2, <1>3, <1>4, <2>1
  <2>2. CASE j > Len(f)
    <3>1. j - Len(f) \in 1..m /\ j \in 1..(Len(f) + m)
      BY <1>2, <1>3, <2>2
    <3> QED BY <1>2, <1>3, <2>2, <3>1
  <2> QED BY <1>2, <2>1, <2>2
<1>9. ShowsAfter(g, n, b, alphabet, a)
  BY <1>5, <1>6, <1>7, <1>8 DEF ShowsAfter, D
<1> QED BY <1>9 DEF Shows, g

-----------------------------------------------------------------------------
(* What cprint_uint puts out besides the padding, and how much it is.      *)
Alphabet(upper) == IF upper THEN Upper ELSE Lower
UintBuf(value, base, precision, upper) ==
  IF value = 0 /\ precision # 0 THEN <<"0">> ELSE Digits(value, base, Alphabet(upper))
UintPrefix(base, flags, upper) ==
  IF "#" \notin flags THEN << >>
  ELSE CASE base = 16 -> <<"0", IF upper THEN "X" ELSE "x">>
         [] base = 8 -> <<"0">>
         [] OTHER -> << >>
UintCount(value, base, precision, flags, upper) ==
  Larger(precision, Len(UintBuf(value, base, precision, upper)))
    + Len(UintPrefix(base, flags, upper))

Lead == Leading \cap Unsign

LEMMA PrefixIs ==
  ASSUME NEW base, NEW flags, NEW upper
  PROVE  UintPrefix(base, flags, upper) \in Seq(Lead)
<1>1. "0" \in Lead /\ "x" \in Lead /\ "X" \in Lead
  BY CharFacts DEF Lead
<1>2. << >> \in Seq(Lead) /\ <<"0">> \in Seq(Lead)
      /\ <<"0", "x">> \in Seq(Lead) /\ <<"0", "X">> \in Seq(Lead)
  BY <1>1
<1> QED BY <1>2 DEF UintPrefix

LEMMA BufIs ==
  ASSUME NEW value \in Slots, NEW base \in Bases, NEW precision \in Int, NEW upper \in BOOLEAN
  PROVE  /\ UintBuf(value, base, precision, upper) \in Seq(DigitChars)
         /\ Shows(UintBuf(value, base, precision, upper), value, base, Alphabet(upper))
<1>1. Alphabet(upper) \in {Lower, Upper}
  BY DEF Alphabet
<1>2. CASE value = 0 /\ precision # 0
  <2>1. UintBuf(value, base, precision, upper) = <<"0">>
    BY <1>2 DEF UintBuf
  <2>2. <<"0">> \in Seq(DigitChars) /\ Len(<<"0">>) = 1 /\ <<"0">>[1] = "0"
    <3>1. "0" \in DigitChars
      BY CharFacts
    <3> QED BY <3>1
  <2>3. Digits(0, base, Alphabet(upper)) = << >> /\ Len(<< >>) = 0
    BY SlotsAre, DigitsIs
  <2>4. "0" \in Leading
    BY CharFacts
  <2>5. ShowsAfter(<<"0">>, 0, base, Alphabet(upper), 1)
    BY <2>2, <2>3, <2>4 DEF ShowsAfter
  <2> QED BY <1>2, <2>1, <2>2, <2>5 DEF Shows
<1>3. CASE ~(value = 0 /\ precision # 0)
  BY <1>1, <1>3, DigitsSeq, ShowsDigits DEF UintBuf
<1> QED BY <1>2, <1>3

LEMMA UintIs ==
  ASSUME NEW value \in Slots, NEW base \in Bases, NEW width \in Int, NEW precision \in Int,
         NEW flags, NEW upper \in BOOLEAN
  PROVE  /\ cprint_uint(value, base, width, precision, flags, upper) \in Seq(Unsign)
         /\ Shows(cprint_uint(value, base, width, precision, flags, upper),
                  value, base, Alphabet(upper))
         /\ UintCount(value, base, precision, flags, upper) \in Nat
         /\ Len(cprint_uint(value, base, width, precision, flags, upper)) =
              Larger(width, UintCount(value, base, precision, flags, upper))
<1> DEFINE buf == UintBuf(value, base, precision, upper)
           prefix == UintPrefix(base, flags, upper)
           actual == Larger(precision, Len(buf))
           count == actual + Len(prefix)
           room == width - count
           padding == IF "-" \in flags THEN << >>
                      ELSE Repeat(IF "0" \in flags THEN "0" ELSE " ", room)
           zeros == Repeat("0", actual - Len(buf))
           blanks == IF "-" \in flags THEN Repeat(" ", room) ELSE << >>
           f == padding \o prefix \o zeros \o buf \o blanks
<1>1. f = cprint_uint(value, base, width, precision, flags, upper)
  BY DEF cprint_uint, UintBuf, UintPrefix, Alphabet
<1>2. count = UintCount(value, base, precision, flags, upper)
  BY DEF UintCount
<1>3. buf \in Seq(DigitChars) /\ Shows(buf, value, base, Alphabet(upper)) /\ Len(buf) \in Nat
      /\ Alphabet(upper) \in {Lower, Upper}
  BY BufIs, LenProperties DEF Alphabet
<1>4. prefix \in Seq(Lead) /\ Len(prefix) \in Nat
  BY PrefixIs, LenProperties
<1>5. actual \in Nat /\ actual >= Len(buf)
  BY <1>3 DEF Larger
<1>6. count \in Nat /\ room \in Int /\ room = width - count
  BY <1>4, <1>5
<1>7. "0" \in Lead /\ " " \in Lead /\ " " \in NoDigit
  BY CharFacts DEF Lead, NoDigit
<1> HIDE DEF buf, prefix, actual, count, room
<1>8. zeros \in Seq(Lead) /\ Len(zeros) = actual - Len(buf)
  <2>1. actual - Len(buf) \in Nat
    BY <1>3, <1>5
  <2>2. Larger(actual - Len(buf), 0) = actual - Len(buf)
    BY <2>1 DEF Larger
  <2>3. zeros \in Seq(Lead) /\ Len(zeros) = Larger(actual - Len(buf), 0)
    <3>1. PICK n : n = actual - Len(buf)
      OBVIOUS
    <3>2. n \in Int
      BY <2>1, <3>1
    <3>3. Repeat("0", n) \in Seq(Lead) /\ Len(Repeat("0", n)) = Larger(n, 0)
      BY <1>7, <3>2, RepeatIn, Zenon
    <3> QED BY <3>1, <3>3, Zenon
  <2> HIDE DEF zeros
  <2> QED BY <2>2, <2>3
<1>9. padding \in Seq(Lead) /\ blanks \in Seq(NoDigit) /\ blanks \in Seq(Lead)
      /\ Len(padding) + Len(blanks) = Larger(room, 0)
  <2>0. /\ << >> \in Seq(Lead) /\ << >> \in Seq(NoDigit) /\ Len(<< >>) = 0
        /\ Larger(room, 0) \in Nat
    BY <1>6, EmptySeq DEF Larger
  <2>1. CASE "-" \in flags
    <3>1. blanks = Repeat(" ", room) /\ padding = << >>
      BY <2>1
    <3>2. blanks \in Seq(Lead) /\ blanks \in Seq(NoDigit) /\ Len(blanks) = Larger(room, 0)
      BY <1>6, <1>7, <3>1, RepeatIn
    <3> HIDE DEF padding, blanks
    <3>3. Len(padding) + Len(blanks) = Larger(room, 0)
      <4>1. Len(padding) = 0
        BY <2>0, <3>1, Zenon
      <4> QED BY <2>0, <3>2, <4>1
    <3>4. padding \in Seq(Lead)
      BY <2>0, <3>1, Zenon
    <3> QED BY <3>2, <3>3, <3>4, Zenon
  <2>2. CASE "-" \notin flags
    <3> DEFINE c == IF "0" \in flags THEN "0" ELSE " "
    <3>1. padding = Repeat(c, room) /\ blanks = << >>
      BY <2>2
    <3>2. c \in Lead
      BY <1>7
    <3> HIDE DEF c
    <3>3. padding \in Seq(Lead) /\ Len(padding) = Larger(room, 0)
      BY <1>6, <3>1, <3>2, RepeatIn
    <3> HIDE DEF padding, blanks
    <3>4. Len(padding) + Len(blanks) = Larger(room, 0)
      <4>1. Len(blanks) = 0
        BY <2>0, <3>1, Zenon
      <4> QED BY <2>0, <3>3, <4>1
    <3>5. blanks \in Seq(Lead) /\ blanks \in Seq(NoDigit)
      BY <2>0, <3>1, Zenon
    <3> QED BY <3>3, <3>4, <3>5, Zenon
  <2> QED BY <2>1, <2>2
<1> HIDE DEF padding, zeros, blanks
<1> DEFINE x == (padding \o prefix) \o zeros
<1>10. x \in Seq(Lead) /\ Len(x) = (Len(padding) + Len(prefix)) + Len(zeros)
       /\ Len(padding) \in Nat /\ Len(zeros) \in Nat /\ Len(x) \in Nat
  <2>1. padding \o prefix \in Seq(Lead) /\ Len(padding \o prefix) = Len(padding) + Len(prefix)
        /\ Len(padding) \in Nat
    BY <1>4, <1>9, ConcatIs
  <2>2. x \in Seq(Lead) /\ Len(x) = Len(padding \o prefix) + Len(zeros)
        /\ Len(zeros) \in Nat /\ Len(x) \in Nat
    BY <1>8, <2>1, ConcatIs
  <2> HIDE DEF x
  <2> QED BY <2>1, <2>2, Zenon
<1>11. f = (x \o buf) \o blanks
  OBVIOUS
<1> HIDE DEF x, f
<1>12. x \in Seq(Leading) /\ x \in Seq(Unsign) /\ buf \in Seq(Unsign) /\ buf \in Seq(Chars)
       /\ blanks \in Seq(Unsign)
  BY <1>3, <1>9, <1>10, CharFacts, SeqMonotonic DEF Lead
<1>13. x \o buf \in Seq(Unsign) /\ Len(x \o buf) = Len(x) + Len(buf)
  BY <1>12, ConcatIs
<1>14. f \in Seq(Unsign) /\ Len(f) = (Len(x) + Len(buf)) + Len(blanks) /\ Len(blanks) \in Nat
  <2>1. (x \o buf) \o blanks \in Seq(Unsign)
        /\ Len((x \o buf) \o blanks) = Len(x \o buf) + Len(blanks) /\ Len(blanks) \in Nat
    BY <1>12, <1>13, ConcatIs
  <2> QED BY <1>11, <1>13, <2>1, Zenon
<1>15. Shows(f, value, base, Alphabet(upper))
  <2>1. Shows(x \o buf, value, base, Alphabet(upper))
    BY <1>3, <1>12, ShowsPrefixed
  <2>2. x \o buf \in Seq(Chars)
    BY <1>13, CharFacts, SeqMonotonic
  <2> QED BY <1>3, <1>9, <1>11, <2>1, <2>2, ShowsPadded
<1>16. Len(f) = Larger(width, count)
  <2>1. Len(f) = Larger(room, 0) + count
    <3>1. count = actual + Len(prefix)
      BY DEF count
    <3>2. PICK p, x1, z, c, bl, u, a, r :
             /\ p = Len(padding) /\ x1 = Len(x) /\ z = Len(zeros) /\ c = Len(prefix)
             /\ bl = Len(blanks) /\ u = Len(buf) /\ a = actual /\ r = Larger(room, 0)
      OBVIOUS
    <3>3. p \in Nat /\ z \in Nat /\ c \in Nat /\ bl \in Nat /\ u \in Nat /\ a \in Nat
          /\ x1 = (p + c) + z /\ z = a - u /\ p + bl = r
      BY <1>3, <1>4, <1>5, <1>8, <1>9, <1>10, <1>14, <3>2, Zenon
    <3>4. (x1 + u) + bl = r + (a + c)
      BY <3>3
    <3> QED BY <1>14, <3>1, <3>2, <3>4, Zenon
  <2> QED BY <1>6, <2>1 DEF Larger
<1> QED BY <1>1, <1>2, <1>6, <1>14, <1>15, <1>16

-----------------------------------------------------------------------------
(* What cprint_int puts out: a sign if need be, and cprint_uint's digits   *)
(* of the magnitude; it counts them as cprint_uint does.                   *)
LEMMA CountIs ==
  ASSUME NEW value \in Slots, NEW precision \in Int
  PROVE  CountDigits(value, precision) = UintCount(value, 10, precision, {}, FALSE)
<1> DEFINE buf == UintBuf(value, 10, precision, FALSE)
<1>1. buf \in Seq(DigitChars) /\ Len(buf) \in Nat
  BY BufIs, LenProperties DEF Bases
<1>2. Larger(precision, Len(buf)) \in Int
  BY <1>1 DEF Larger
<1>3. UintPrefix(10, {}, FALSE) = << >> /\ Len(<< >>) = 0
  BY DEF UintPrefix
<1>4. UintCount(value, 10, precision, {}, FALSE) = Larger(precision, Len(buf))
  <2> HIDE DEF buf
  <2>1. UintCount(value, 10, precision, {}, FALSE) = Larger(precision, Len(buf)) + 0
    BY <1>3, Zenon DEF UintCount, buf
  <2>2. PICK n : n = Larger(precision, Len(buf))
    OBVIOUS
  <2>3. n + 0 = n
    BY <1>2, <2>2
  <2> QED BY <2>1, <2>2, <2>3, Zenon
<1>5. Len(buf) = IF value = 0 THEN (IF precision # 0 THEN 1 ELSE 0)
                 ELSE Len(Digits(value, 10, Lower))
  <2>1. CASE value = 0 /\ precision # 0
    <3>1. buf = <<"0">>
      BY <2>1 DEF UintBuf
    <3>2. Len(<<"0">>) = 1
      OBVIOUS
    <3> QED BY <2>1, <3>1, <3>2
  <2>2. CASE value = 0 /\ precision = 0
    <3>1. buf = Digits(0, 10, Alphabet(FALSE))
      BY <2>2 DEF UintBuf
    <3>2. Digits(0, 10, Alphabet(FALSE)) = << >>
      BY SlotsAre, DigitsIs DEF Bases
    <3> HIDE DEF buf
    <3>3. Len(buf) = 0
      BY <1>3, <3>1, <3>2, Zenon
    <3>4. ~(precision # 0)
      BY <2>2
    <3> QED BY <2>2, <3>3, <3>4, Zenon
  <2>3. CASE value # 0
    <3>1. buf = Digits(value, 10, Lower)
      BY <2>3 DEF UintBuf, Alphabet
    <3> QED BY <2>3, <3>1, Zenon
  <2> QED BY <2>1, <2>2, <2>3, Zenon
<1> QED BY <1>4, <1>5, Zenon DEF CountDigits

IntCount(value, precision, flags) ==
  CountDigits(Magnitude(value), precision) + SignCount(value, flags)

HasMinus(f) == \E j \in DOMAIN f : f[j] = "-"

LEMMA IntIs ==
  ASSUME NEW value \in Int, Magnitude(value) \in Slots, NEW width \in Int,
         NEW precision \in Int, NEW flags
  PROVE  /\ cprint_int(value, width, precision, flags) \in Seq(Chars)
         /\ Shows(cprint_int(value, width, precision, flags), Magnitude(value), 10, Lower)
         /\ (value < 0) <=> HasMinus(cprint_int(value, width, precision, flags))
         /\ IntCount(value, precision, flags) \in Nat
         /\ Len(cprint_int(value, width, precision, flags)) =
              Larger(width, IntCount(value, precision, flags))
<1> DEFINE m == Magnitude(value)
           left == "-" \in flags
           zero == "0" \in flags
           count == CountDigits(m, precision) + SignCount(value, flags)
           room == width - count
           pads == IF ~left /\ ~zero THEN Repeat(" ", room) ELSE << >>
           sign == IF value < 0 THEN <<"-">>
                   ELSE IF "+" \in flags THEN <<"+">>
                   ELSE IF " " \in flags THEN <<" ">> ELSE << >>
           zeros == IF ~left /\ zero THEN Repeat("0", room) ELSE << >>
           u == cprint_uint(m, 10, 0, precision, {}, FALSE)
           blanks == IF left THEN Repeat(" ", room) ELSE << >>
           f == pads \o sign \o zeros \o u \o blanks
<1>0. m \in Slots
  OBVIOUS
<1>1. f = cprint_int(value, width, precision, flags)
  BY DEF cprint_int
<1> HIDE DEF m, f
<1>2. /\ u \in Seq(Unsign) /\ Shows(u, m, 10, Lower) /\ CountDigits(m, precision) \in Nat
      /\ Len(u) = CountDigits(m, precision) /\ m \in Slots
  <2>1. 10 \in Bases /\ 0 \in Int /\ FALSE \in BOOLEAN /\ Alphabet(FALSE) = Lower
    BY DEF Bases, Alphabet
  <2>2. /\ u \in Seq(Unsign) /\ Shows(u, m, 10, Alphabet(FALSE))
        /\ UintCount(m, 10, precision, {}, FALSE) \in Nat
        /\ Len(u) = Larger(0, UintCount(m, 10, precision, {}, FALSE))
    <3>1. PICK b, w, fl, up : b = 10 /\ w = 0 /\ fl = {} /\ up = FALSE
      OBVIOUS
    <3>2. b \in Bases /\ w \in Int /\ up \in BOOLEAN
      BY <2>1, <3>1
    <3>3. /\ cprint_uint(m, b, w, precision, fl, up) \in Seq(Unsign)
          /\ Shows(cprint_uint(m, b, w, precision, fl, up), m, b, Alphabet(up))
          /\ UintCount(m, b, precision, fl, up) \in Nat
          /\ Len(cprint_uint(m, b, w, precision, fl, up)) =
               Larger(w, UintCount(m, b, precision, fl, up))
      BY <1>0, <3>2, UintIs
    <3> QED BY <3>1, <3>3
  <2>3. CountDigits(m, precision) = UintCount(m, 10, precision, {}, FALSE)
    BY <1>0, CountIs
  <2>4. \A n \in Nat : Larger(0, n) = n
    BY DEF Larger
  <2> QED BY <1>0, <2>1, <2>2, <2>3, <2>4, Zenon
<1>3. /\ sign \in Seq(Leading) /\ Len(sign) = SignCount(value, flags)
      /\ SignCount(value, flags) \in Nat
      /\ (value < 0 => sign = <<"-">>) /\ (~(value < 0) => sign \in Seq(Unsign))
  <2>1. "-" \in Leading /\ "+" \in Leading /\ " " \in Leading /\ "+" \in Unsign /\ " " \in Unsign
    BY CharFacts
  <2>2. /\ <<"-">> \in Seq(Leading) /\ <<"+">> \in Seq(Leading) /\ <<" ">> \in Seq(Leading)
        /\ << >> \in Seq(Leading)
        /\ <<"+">> \in Seq(Unsign) /\ <<" ">> \in Seq(Unsign) /\ << >> \in Seq(Unsign)
    BY <2>1, Single, EmptySeq, Zenon
  <2>3. Len(<<"-">>) = 1 /\ Len(<<"+">>) = 1 /\ Len(<<" ">>) = 1 /\ Len(<< >>) = 0
    OBVIOUS
  <2>4. 0 \in Nat /\ 1 \in Nat
    OBVIOUS
  <2>5. CASE value < 0
    BY <2>2, <2>3, <2>4, <2>5, Zenon DEF SignCount
  <2>6. CASE ~(value < 0) /\ "+" \in flags
    BY <2>2, <2>3, <2>4, <2>6, Zenon DEF SignCount
  <2>7. CASE ~(value < 0) /\ "+" \notin flags /\ " " \in flags
    BY <2>2, <2>3, <2>4, <2>7, Zenon DEF SignCount
  <2>8. CASE ~(value < 0) /\ "+" \notin flags /\ " " \notin flags
    <3>1. sign = << >>
      BY <2>8, Zenon
    <3>2. SignCount(value, flags) = 0
      BY <2>8, Zenon DEF SignCount
    <3> HIDE DEF sign
    <3> QED BY <2>2, <2>3, <2>4, <2>8, <3>1, <3>2, Zenon
  <2> QED BY <2>5, <2>6, <2>7, <2>8, Zenon
<1>4. count \in Nat /\ room \in Int /\ room = width - count /\ Larger(room, 0) \in Nat
  <2>1. count \in Nat
    <3>1. PICK c, d : c = CountDigits(m, precision) /\ d = SignCount(value, flags)
      OBVIOUS
    <3>2. c \in Nat /\ d \in Nat
      BY <1>2, <1>3, <3>1, Zenon
    <3>3. c + d \in Nat
      BY <3>2
    <3> QED BY <3>1, <3>3, Zenon
  <2> HIDE DEF count
  <2> QED BY <2>1 DEF Larger
<1>5. "0" \in Lead /\ " " \in Lead /\ " " \in NoDigit
  BY CharFacts DEF Lead, NoDigit
<1> HIDE DEF m, count, room, sign, u, f
<1>6. pads \in Seq(Lead) /\ zeros \in Seq(Lead) /\ blanks \in Seq(Lead) /\ blanks \in Seq(NoDigit)
  <2>1. << >> \in Seq(Lead) /\ << >> \in Seq(NoDigit)
    BY EmptySeq
  <2>2. Repeat(" ", room) \in Seq(Lead) /\ Repeat("0", room) \in Seq(Lead)
        /\ Repeat(" ", room) \in Seq(NoDigit)
    BY <1>4, <1>5, RepeatIn, Zenon
  <2> QED BY <2>1, <2>2, Zenon
<1>7. /\ Len(pads) \in Nat /\ Len(zeros) \in Nat /\ Len(blanks) \in Nat
      /\ (Len(pads) + Len(zeros)) + Len(blanks) = Larger(room, 0)
  <2>1. Len(Repeat(" ", room)) = Larger(room, 0) /\ Len(Repeat("0", room)) = Larger(room, 0)
    BY <1>4, <1>5, RepeatIn, Zenon
  <2>2. Len(<< >>) = 0
    OBVIOUS
  <2>3. \/ Len(pads) = Larger(room, 0) /\ Len(zeros) = 0 /\ Len(blanks) = 0
        \/ Len(pads) = 0 /\ Len(zeros) = Larger(room, 0) /\ Len(blanks) = 0
        \/ Len(pads) = 0 /\ Len(zeros) = 0 /\ Len(blanks) = Larger(room, 0)
    <3>1. CASE left
      BY <2>1, <2>2, <3>1, Zenon
    <3>2. CASE ~left /\ zero
      BY <2>1, <2>2, <3>2, Zenon
    <3>3. CASE ~left /\ ~zero
      BY <2>1, <2>2, <3>3, Zenon
    <3> QED BY <3>1, <3>2, <3>3, Zenon
  <2> HIDE DEF pads, zeros, blanks
  <2> QED BY <1>4, <2>3
<1> HIDE DEF pads, zeros, blanks, left, zero
<1>8. /\ pads \in Seq(Leading) /\ pads \in Seq(Unsign) /\ zeros \in Seq(Leading)
      /\ zeros \in Seq(Unsign) /\ blanks \in Seq(Unsign) /\ u \in Seq(Chars)
      /\ sign \in Seq(Chars) /\ pads \in Seq(Chars) /\ zeros \in Seq(Chars)
      /\ blanks \in Seq(Chars)
  BY <1>2, <1>3, <1>6, CharFacts, SeqMonotonic DEF Lead
<1> DEFINE x == (pads \o sign) \o zeros
<1>9. f = (x \o u) \o blanks
  BY DEF f
<1>10. x \in Seq(Leading) /\ Len(x) = (Len(pads) + Len(sign)) + Len(zeros) /\ Len(x) \in Nat
       /\ Len(sign) \in Nat
  <2>1. pads \o sign \in Seq(Leading) /\ Len(pads \o sign) = Len(pads) + Len(sign)
        /\ Len(sign) \in Nat
    BY <1>3, <1>8, ConcatIs
  <2>2. x \in Seq(Leading) /\ Len(x) = Len(pads \o sign) + Len(zeros) /\ Len(x) \in Nat
    BY <1>8, <2>1, ConcatIs
  <2> HIDE DEF x
  <2> QED BY <2>1, <2>2, Zenon
<1>11. x \in Seq(Chars)
  BY <1>10, CharFacts, SeqMonotonic
<1>12. ~(value < 0) => f \in Seq(Unsign)
  <2>1. SUFFICES ASSUME ~(value < 0) PROVE f \in Seq(Unsign)
    OBVIOUS
  <2>2. pads \o sign \in Seq(Unsign)
    BY <1>3, <1>8, <2>1, ConcatIs, Zenon
  <2>3. x \in Seq(Unsign)
    BY <1>8, <2>2, ConcatIs, Zenon
  <2>4. x \o u \in Seq(Unsign)
    BY <1>2, <2>3, ConcatIs, Zenon
  <2> QED BY <1>8, <1>9, <2>4, ConcatIs, Zenon
<1>13. value < 0 => x[Len(pads) + 1] = "-" /\ Len(pads) + 1 \in 1..Len(x)
  <2>1. SUFFICES ASSUME value < 0
                 PROVE  x[Len(pads) + 1] = "-" /\ Len(pads) + 1 \in 1..Len(x)
    OBVIOUS
  <2>2. sign = <<"-">> /\ Len(sign) = 1 /\ sign[1] = "-"
    BY <1>3, <2>1
  <2> DEFINE y == pads \o sign
             k == Len(pads) + 1
  <2>3. /\ y \in Seq(Chars) /\ Len(y) = k /\ k \in Nat /\ k \in 1..(Len(pads) + Len(sign))
        /\ ~(k <= Len(pads)) /\ k - Len(pads) = 1
    <3>1. y \in Seq(Chars) /\ Len(y) = Len(pads) + Len(sign)
      BY <1>8, ConcatIs
    <3> HIDE DEF y
    <3> QED BY <1>7, <2>2, <3>1
  <2>4. \A j \in 1..(Len(pads) + Len(sign)) :
           y[j] = IF j <= Len(pads) THEN pads[j] ELSE sign[j - Len(pads)]
    BY <1>8, ConcatProperties
  <2>5. y[k] = "-"
    <3> HIDE DEF y, k
    <3>1. y[k] = sign[k - Len(pads)]
      BY <2>3, <2>4
    <3> QED BY <2>2, <2>3, <3>1, Zenon
  <2>6. \A j \in 1..(Len(y) + Len(zeros)) :
           x[j] = IF j <= Len(y) THEN y[j] ELSE zeros[j - Len(y)]
    BY <1>8, <2>3, ConcatProperties
  <2> HIDE DEF x, y
  <2>7. k \in 1..(Len(y) + Len(zeros)) /\ k <= Len(y) /\ k \in 1..Len(x)
    BY <1>7, <1>10, <2>2, <2>3
  <2>8. x[k] = y[k]
    BY <2>6, <2>7
  <2> QED BY <2>5, <2>7, <2>8
<1> HIDE DEF x
<1>14. /\ x \o u \in Seq(Chars) /\ Len(x \o u) = Len(x) + Len(u)
       /\ Len(u) \in Nat /\ Shows(x \o u, m, 10, Lower)
  <2>1. x \o u \in Seq(Chars) /\ Len(x \o u) = Len(x) + Len(u) /\ Len(u) \in Nat
    BY <1>8, <1>11, ConcatIs
  <2>2. Shows(x \o u, m, 10, Lower)
    BY <1>2, <1>8, <1>10, ShowsPrefixed DEF Bases
  <2> QED BY <2>1, <2>2, Zenon
<1>15. f \in Seq(Chars) /\ Len(f) = (Len(x) + Len(u)) + Len(blanks) /\ Shows(f, m, 10, Lower)
  <2>1. f \in Seq(Chars) /\ Len(f) = Len(x \o u) + Len(blanks)
    BY <1>8, <1>9, <1>14, ConcatIs
  <2>2. Shows(f, m, 10, Lower)
    BY <1>2, <1>6, <1>9, <1>14, ShowsPadded DEF Bases
  <2> QED BY <1>14, <2>1, <2>2, Zenon
<1>16. Len(f) = Larger(width, count)
  <2>1. Len(f) = Larger(room, 0) + count
    <3>1. count = Len(u) + Len(sign)
      BY <1>2, <1>3, Zenon DEF count
    <3>2. PICK p, x1, z, s, bl, c, r :
             /\ p = Len(pads) /\ x1 = Len(x) /\ z = Len(zeros) /\ s = Len(sign)
             /\ bl = Len(blanks) /\ c = Len(u) /\ r = Larger(room, 0)
      OBVIOUS
    <3>3. p \in Nat /\ z \in Nat /\ s \in Nat /\ bl \in Nat /\ c \in Nat
          /\ x1 = (p + s) + z /\ (p + z) + bl = r
      BY <1>7, <1>10, <1>14, <3>2, Zenon
    <3>4. (x1 + c) + bl = r + (c + s)
      BY <3>3
    <3> QED BY <1>15, <3>1, <3>2, <3>4, Zenon
  <2> QED BY <1>4, <2>1 DEF Larger
<1>17. (value < 0) <=> (\E j \in DOMAIN f : f[j] = "-")
  <2>1. DOMAIN f = 1..Len(f) /\ Len(f) \in Nat
    BY <1>15, LenProperties
  <2>2. CASE ~(value < 0)
    <3>1. \A j \in DOMAIN f : f[j] \in Unsign
      BY <1>12, <2>1, <2>2, ElementOfSeq
    <3> QED BY <2>2, <3>1 DEF Unsign
  <2>3. CASE value < 0
    <3> DEFINE k == Len(pads) + 1
    <3>1. x[k] = "-" /\ k \in 1..Len(x)
      BY <1>13, <2>3
    <3> HIDE DEF k
    <3>2. (x \o u)[k] = x[k]
      <4>1. k \in 1..(Len(x) + Len(u)) /\ k <= Len(x)
        BY <1>10, <1>14, <3>1
      <4>2. \A j \in 1..(Len(x) + Len(u)) :
               (x \o u)[j] = IF j <= Len(x) THEN x[j] ELSE u[j - Len(x)]
        BY <1>8, <1>11, ConcatProperties
      <4> QED BY <4>1, <4>2, Zenon
    <3>3. f[k] = (x \o u)[k] /\ k \in 1..Len(f)
      <4> DEFINE w == x \o u
      <4>1. Len(w) \in Nat /\ Len(w) = Len(x) + Len(u)
        BY <1>10, <1>14
      <4>2. \A j \in 1..(Len(w) + Len(blanks)) :
               f[j] = IF j <= Len(w) THEN w[j] ELSE blanks[j - Len(w)]
        BY <1>8, <1>9, <1>14, ConcatProperties
      <4> HIDE DEF w
      <4>3. k \in 1..(Len(w) + Len(blanks)) /\ k <= Len(w) /\ k \in 1..Len(f)
        BY <1>7, <1>10, <1>14, <1>15, <3>1, <4>1
      <4> QED BY <4>2, <4>3, Zenon DEF w
    <3> QED BY <2>1, <2>3, <3>1, <3>2, <3>3, Zenon
  <2> QED BY <2>2, <2>3
<1> QED BY <1>1, <1>4, <1>15, <1>16, <1>17, Zenon DEF m, count, IntCount, HasMinus

-----------------------------------------------------------------------------
(* Remainders.                                                             *)
LEMMA NoMultiple ==
  ASSUME NEW M \in Nat \ {0}, NEW k \in Int, M * k < M, -M < M * k
  PROVE  k = 0
<1>1. CASE k >= 1
  <2>1. PICK j \in Nat : k = j + 1
    BY <1>1
  <2>2. M * k = M * j + M /\ M * j >= 0
    BY <2>1
  <2> QED BY <2>2
<1>2. CASE k <= -1
  <2>1. PICK j \in Nat : k = -j - 1
    BY <1>2
  <2>2. M * k = -(M * j) - M /\ M * j >= 0
    BY <2>1
  <2> QED BY <2>2
<1> QED BY <1>1, <1>2

LEMMA Multiple ==
  ASSUME NEW M \in Nat \ {0}, NEW q \in Int
  PROVE  (M * q) % M = 0
<1>1. PICK x : x = M * q
  OBVIOUS
<1>2. x \in Int
  BY <1>1
<1>3. PICK d, e : d = x \div M /\ e = x % M
  OBVIOUS
<1>4. d \in Int /\ e \in 0..(M - 1) /\ x = M * d + e
  BY <1>2, <1>3, DivMod, Zenon
<1>5. e \in Int /\ 0 <= e /\ e < M
  BY <1>4
<1>6. M * (q - d) = e /\ q - d \in Int
  BY <1>1, <1>4, <1>5
<1>7. PICK k : k = q - d
  OBVIOUS
<1>8. k \in Int /\ M * k = e
  BY <1>6, <1>7
<1>9. k = 0
  BY <1>5, <1>8, NoMultiple
<1>10. e = 0
  BY <1>8, <1>9
<1> QED BY <1>1, <1>3, <1>10, Zenon

LEMMA SmallMod ==
  ASSUME NEW M \in Nat \ {0}, NEW x \in 0..(M - 1)
  PROVE  x % M = x
<1>1. x \in Int /\ 0 <= x /\ x < M
  OBVIOUS
<1>2. PICK d, e : d = x \div M /\ e = x % M
  OBVIOUS
<1>3. d \in Int /\ e \in 0..(M - 1) /\ x = M * d + e
  BY <1>1, <1>2, DivMod, Zenon
<1>4. e \in Int /\ 0 <= e /\ e < M
  BY <1>3
<1>5. PICK y : y = M * d
  OBVIOUS
<1>6. y \in Int /\ y = x - e /\ y < M /\ -M < y
  BY <1>1, <1>3, <1>4, <1>5
<1>7. d = 0
  BY <1>3, <1>5, <1>6, NoMultiple
<1>8. e = x
  BY <1>1, <1>3, <1>4, <1>7
<1> QED BY <1>2, <1>8, Zenon

(* Two values that agree with a slot in all bits of their type, and are    *)
(* less than the type's range apart, are equal.                            *)
LEMMA ModUnique ==
  ASSUME NEW M \in Nat \ {0}, NEW a \in Int, NEW b \in Int, NEW s \in Int,
         (a - s) % M = 0, (b - s) % M = 0, a - b < M, b - a < M
  PROVE  a = b
<1>1. PICK x, y : x = a - s /\ y = b - s
  OBVIOUS
<1>2. x \in Int /\ y \in Int
  BY <1>1
<1>3. PICK d, e : d = x \div M /\ e = y \div M
  OBVIOUS
<1>4. x % M = 0 /\ y % M = 0
  BY <1>1, Zenon
<1>5. d \in Int /\ e \in Int /\ x = M * d + 0 /\ y = M * e + 0
  <2>1. x \div M \in Int /\ x = M * (x \div M) + (x % M)
    BY <1>2, DivMod, Zenon
  <2>2. y \div M \in Int /\ y = M * (y \div M) + (y % M)
    BY <1>2, DivMod, Zenon
  <2> QED BY <1>3, <1>4, <2>1, <2>2, Zenon
<1>6. PICK k : k = d - e
  OBVIOUS
<1>7. k \in Int /\ M * k = a - b
  BY <1>1, <1>5, <1>6
<1>8. k = 0
  <2>1. M * k < M /\ -M < M * k
    BY <1>7
  <2> QED BY <1>7, <2>1, NoMultiple
<1>9. d = e
  BY <1>5, <1>6, <1>8
<1>10. x = y
  BY <1>5, <1>9
<1> QED BY <1>1, <1>2, <1>10

-----------------------------------------------------------------------------
(* The value of a slot as an integer of a given length.                    *)
LEMMA UnsignedIs ==
  ASSUME NEW m \in DOMAIN Bits, NEW slot \in Slots
  PROVE  /\ Unsigned(slot, Bits[m]) \in 0..(2^Bits[m] - 1)
         /\ Unsigned(slot, Bits[m]) \in Slots
         /\ (Unsigned(slot, Bits[m]) - slot) % 2^Bits[m] = 0
<1>1. PICK M : M = 2^Bits[m]
  OBVIOUS
<1>2. M \in Nat \ {0} /\ 2^Word \in Nat \ {0} /\ M <= 2^Word /\ slot \in Nat
  BY <1>1, WidthFacts, SlotsAre
<1>3. PICK q, r : q = slot \div M /\ r = slot % M
  OBVIOUS
<1>4. q \in Int /\ r \in 0..(M - 1) /\ slot = M * q + r
  <2>1. slot \in Int
    BY <1>2
  <2>2. slot \div M \in Int /\ slot % M \in 0..(M - 1) /\ slot = M * (slot \div M) + (slot % M)
    BY <1>2, <2>1, DivMod, Zenon
  <2> QED BY <1>3, <2>2, Zenon
<1>5. r \in Slots
  BY <1>2, <1>4 DEF Slots
<1>6. r - slot = M * (-q)
  BY <1>2, <1>4
<1>7. (M * (-q)) % M = 0
  BY <1>2, <1>4, Multiple
<1> QED BY <1>1, <1>3, <1>4, <1>5, <1>6, <1>7, Zenon DEF Unsigned

LEMMA SignedIs ==
  ASSUME NEW m \in DOMAIN Bits, NEW slot \in Slots
  PROVE  /\ Signed(slot, Bits[m]) \in (-(2^(Bits[m] - 1)))..(2^(Bits[m] - 1) - 1)
         /\ (Signed(slot, Bits[m]) - slot) % 2^Bits[m] = 0
<1>1. PICK M, h, u : M = 2^Bits[m] /\ h = 2^(Bits[m] - 1) /\ u = Unsigned(slot, Bits[m])
  OBVIOUS
<1>2. M \in Nat \ {0} /\ h \in Nat \ {0} /\ M = 2 * h /\ slot \in Nat
  BY <1>1, WidthFacts, SlotsAre
<1>3. u \in 0..(M - 1) /\ (u - slot) % M = 0
  BY <1>1, UnsignedIs, Zenon
<1>4. Signed(slot, Bits[m]) = IF u >= h THEN u - M ELSE u
  BY <1>1, Zenon DEF Signed
<1>5. CASE u >= h
  <2>1. u - M \in (-h)..(h - 1)
    BY <1>2, <1>3, <1>5
  <2>2. PICK x : x = u - slot
    OBVIOUS
  <2>3. PICK q : q = x \div M
    OBVIOUS
  <2>4. x \in Int /\ x % M = 0
    BY <1>2, <1>3, <2>2
  <2>5. q \in Int /\ x = M * q + 0
    BY <1>2, <2>3, <2>4, DivMod, Zenon
  <2>6. (u - M) - slot = M * (q - 1) /\ q - 1 \in Int
    BY <1>2, <1>3, <2>2, <2>5
  <2>7. (M * (q - 1)) % M = 0
    BY <1>2, <2>6, Multiple
  <2> QED BY <1>1, <1>4, <1>5, <2>1, <2>6, <2>7, Zenon
<1>6. CASE ~(u >= h)
  <2>1. u \in (-h)..(h - 1)
    BY <1>2, <1>3, <1>6
  <2> QED BY <1>1, <1>3, <1>4, <1>6, <2>1, Zenon
<1> QED BY <1>5, <1>6, Zenon

(* The magnitude is right for every value of a signed type, the most       *)
(* negative one included.                                                  *)
LEMMA MagnitudeIs ==
  ASSUME NEW m \in DOMAIN Bits,
         NEW value \in (-(2^(Bits[m] - 1)))..(2^(Bits[m] - 1) - 1)
  PROVE  /\ Magnitude(value) \in Slots /\ value \in Int
         /\ Magnitude(value) = IF value < 0 THEN -value ELSE value
<1>1. PICK M, h, W : M = 2^Bits[m] /\ h = 2^(Bits[m] - 1) /\ W = 2^Word
  OBVIOUS
<1>2. M \in Nat \ {0} /\ h \in Nat \ {0} /\ M = 2 * h /\ W \in Nat \ {0} /\ M <= W
  BY <1>1, WidthFacts
<1>3. value \in (-h)..(h - 1)
  BY <1>1, Zenon
<1>4. PICK a : a = IF value < 0 THEN -value ELSE value
  OBVIOUS
<1>5. a \in 0..(W - 1) /\ value \in Int
  BY <1>2, <1>3, <1>4
<1>6. a % W = a
  BY <1>2, <1>5, SmallMod
<1>7. Magnitude(value) = a
  BY <1>1, <1>4, <1>6, Zenon DEF Magnitude
<1>8. a \in Slots
  BY <1>1, <1>5, Zenon DEF Slots
<1> QED BY <1>4, <1>5, <1>7, <1>8, Zenon

-----------------------------------------------------------------------------
(* Where the arguments of an item start.                                   *)
Skips(item) == IF item.conv = "text" THEN 0 ELSE Takes(item)

Counts(f, s, n) == f = [j \in 1..n |-> IF j = 1 THEN 1 ELSE f[j - 1] + Skips(s[j - 1])]

LEMMA CountsExist == ASSUME NEW s, NEW n \in Nat PROVE \E f : Counts(f, s, n)
<1> DEFINE T == {m \in Nat : ~\E f : Counts(f, s, m)}
           Entry(f, j) == IF j = 1 THEN 1 ELSE f[j - 1] + Skips(s[j - 1])
<1>1. SUFFICES ASSUME T # {} PROVE FALSE
  OBVIOUS
<1>2. PICK m \in T : \A y \in T : m <= y
  BY <1>1, Least
<1>3. CASE m = 0
  <2> DEFINE f == [j \in 1..0 |-> 1]
  <2>1. f = [j \in 1..0 |-> Entry(f, j)]
    OBVIOUS
  <2>2. Counts(f, s, 0)
    BY <2>1 DEF Counts
  <2> QED BY <2>2, <1>3, <1>2
<1>4. CASE m > 0
  <2>1. m \in Nat /\ m - 1 \in Nat
    BY <1>2, <1>4
  <2>2. PICK g : Counts(g, s, m - 1)
    <3>1. m - 1 \notin T
      <4> HIDE DEF T
      <4> QED BY <1>2, <2>1
    <3> QED BY <2>1, <3>1
  <2> DEFINE f == [j \in 1..m |-> Entry(g, j)]
  <2>3. \A j \in 1..m : f[j] = Entry(g, j)
    OBVIOUS
  <2>4. \A j \in 1..(m - 1) : g[j] = Entry(g, j)
    BY <2>1, <2>2 DEF Counts
  <2>5. f = [j \in 1..m |-> f[j]]
    OBVIOUS
  <2> HIDE DEF f
  <2>6. \A j \in 1..(m - 1) : f[j] = g[j]
    BY <2>1, <2>3, <2>4
  <2>7. ASSUME NEW j \in 1..m PROVE f[j] = Entry(f, j)
    <3>1. CASE j = 1
      BY <3>1, <2>1, <2>3
    <3>2. CASE j # 1
      <4>1. j - 1 \in 1..(m - 1)
        BY <2>1, <3>2
      <4>2. f[j - 1] = g[j - 1]
        BY <2>6, <4>1
      <4> QED BY <2>3, <3>2, <4>2
    <3> QED BY <3>1, <3>2
  <2>8. Counts(f, s, m)
    BY <2>5, <2>7 DEF Counts
  <2> QED BY <2>8, <1>2
<1> QED BY <1>2, <1>3, <1>4

LEMMA FirstIs ==
  ASSUME NEW c, Len(c.fmt) \in Nat
  PROVE  /\ FirstArg(c, 1) = 1
         /\ \A k \in 1..Len(c.fmt) : FirstArg(c, k + 1) = FirstArg(c, k) + Skips(c.fmt[k])
<1> DEFINE Is(f) == f = [j \in 1..(Len(c.fmt) + 1) |->
                          IF j = 1 THEN 1
                          ELSE f[j - 1] + (IF c.fmt[j - 1].conv = "text" THEN 0
                                           ELSE Takes(c.fmt[j - 1]))]
           g == CHOOSE f : Is(f)
<1>1. \E f : Is(f)
  <2>1. Len(c.fmt) + 1 \in Nat
    OBVIOUS
  <2>2. PICK f : Counts(f, c.fmt, Len(c.fmt) + 1)
    BY <2>1, CountsExist
  <2> QED BY <2>2, Zenon DEF Counts, Skips
<1>2. Is(g)
  BY <1>1
<1>3. \A k : FirstArg(c, k) = g[k]
  BY DEF FirstArg
<1> HIDE DEF g
<1>4. g[1] = 1
  BY <1>2
<1>5. ASSUME NEW k \in 1..Len(c.fmt) PROVE g[k + 1] = g[k] + Skips(c.fmt[k])
  <2>1. k + 1 \in 1..(Len(c.fmt) + 1) /\ k + 1 # 1 /\ (k + 1) - 1 = k
    OBVIOUS
  <2>2. \A j \in 1..(Len(c.fmt) + 1) :
           g[j] = IF j = 1 THEN 1
                  ELSE g[j - 1] + (IF c.fmt[j - 1].conv = "text" THEN 0
                                   ELSE Takes(c.fmt[j - 1]))
    BY <1>2
  <2> QED BY <2>1, <2>2, Zenon DEF Skips
<1> QED BY <1>3, <1>4, <1>5

LEMMA SkipsNat == ASSUME NEW item PROVE Skips(item) \in Nat
BY DEF Skips, Takes

LEMMA FirstNat ==
  ASSUME NEW c, Len(c.fmt) \in Nat, NEW k \in 1..(Len(c.fmt) + 1)
  PROVE  FirstArg(c, k) \in Nat
<1> DEFINE T == {j \in 1..(Len(c.fmt) + 1) : FirstArg(c, j) \notin Nat}
<1>1. SUFFICES ASSUME T # {} PROVE FALSE
  OBVIOUS
<1>2. PICK j \in T : \A y \in T : j <= y
  BY <1>1, Least, T \subseteq Nat
<1>3. j # 1
  BY <1>2, FirstIs
<1>4. j - 1 \in 1..Len(c.fmt) /\ (j - 1) + 1 = j /\ j - 1 \notin T
  <2>1. j \in 1..(Len(c.fmt) + 1)
    BY <1>2
  <2>2. j - 1 \notin T
    <3> HIDE DEF T
    <3> QED BY <1>2, <2>1
  <2> QED BY <1>3, <2>1, <2>2
<1>5. FirstArg(c, j - 1) \in Nat
  BY <1>4
<1>6. FirstArg(c, j) = FirstArg(c, j - 1) + Skips(c.fmt[j - 1])
  BY <1>4, FirstIs
<1>7. FirstArg(c, j) \in Nat
  BY <1>5, <1>6, SkipsNat
<1> QED BY <1>2, <1>7

-----------------------------------------------------------------------------
(* What a conversion puts out is as long as its width, or as what it has   *)
(* to put out, whichever is more.                                          *)
Converted(item, ap) == Convert(item, ap, cprint_uint, cprint_int)

Argument(item, ap) == call.args[ValueAt(item, ap)]
Text(item, ap) ==
  Cut(IF Argument(item, ap) = Null THEN NullText ELSE Argument(item, ap), Precision(item, ap))
Need(item, ap) ==
  CASE item.conv = "c" -> 1
    [] item.conv = "s" -> Len(Text(item, ap))
    [] item.conv = "d" -> IntCount(Signed(Argument(item, ap), Bits[item.length]),
                                   Precision(item, ap), item.flags)
    [] item.conv \in {"u", "o", "x", "X"} ->
         UintCount(Unsigned(Argument(item, ap), Bits[item.length]), Base(item.conv),
                   Precision(item, ap), item.flags, item.conv = "X")
    [] item.conv = "p" -> UintCount(Argument(item, ap), 16, Precision(item, ap),
                                    item.flags \cup {"#"}, FALSE)

(* The arguments that a conversion finds, as Matched has them.             *)
Fits(item, ap) ==
  /\ item \in Conversions
  /\ item.star =>
       call.args[ap] \in Slots /\ Signed(call.args[ap], Bits["int"]) > -(2^(Bits["int"] - 1))
  /\ item.pstar => call.args[IF item.star THEN ap + 1 ELSE ap] \in Slots
  /\ item.conv \in Numeric \cup {"p"} => Argument(item, ap) \in Slots
  /\ item.conv = "s" => IsSeq(Argument(item, ap))

LEMMA SignedInt ==
  ASSUME NEW m \in DOMAIN Bits, NEW slot \in Slots PROVE Signed(slot, Bits[m]) \in Int
<1>1. PICK h : h = 2^(Bits[m] - 1)
  OBVIOUS
<1>2. h \in Nat
  BY <1>1, WidthFacts
<1>3. Signed(slot, Bits[m]) \in (-h)..(h - 1)
  BY <1>1, SignedIs, Zenon
<1> QED BY <1>2, <1>3

LEMMA FieldParts ==
  ASSUME NEW item, NEW ap, Fits(item, ap)
  PROVE  /\ Width(item, ap) \in Nat /\ Precision(item, ap) \in Int
         /\ item.length \in DOMAIN Bits /\ "int" \in DOMAIN Bits
<1>1. /\ item.width \in Nat /\ item.precision \in Int /\ item.star \in BOOLEAN
      /\ item.pstar \in BOOLEAN /\ item.length \in DOMAIN Bits
  BY DEF Fits, Conversions
<1>2. "int" \in DOMAIN Bits
  BY FormatAssumption DEF FormatAssumption
<1>3. Width(item, ap) \in Nat
  <2>1. CASE item.star
    <3>1. PICK w : w = Signed(call.args[ap], Bits["int"])
      OBVIOUS
    <3>2. w \in Int
      BY <1>2, <2>1, <3>1, SignedInt, Zenon DEF Fits
    <3>3. Width(item, ap) = IF w < 0 THEN -w ELSE w
      BY <2>1, <3>1, Zenon DEF Width
    <3> QED BY <3>2, <3>3
  <2>2. CASE ~item.star
    BY <1>1, <2>2, Zenon DEF Width
  <2> QED BY <2>1, <2>2
<1>4. Precision(item, ap) \in Int
  <2>1. CASE item.pstar
    <3>1. Precision(item, ap) =
            Signed(call.args[IF item.star THEN ap + 1 ELSE ap], Bits["int"])
      BY <2>1, Zenon DEF Precision
    <3> QED BY <1>2, <2>1, <3>1, SignedInt, Zenon DEF Fits
  <2>2. CASE ~item.pstar
    BY <1>1, <2>2, Zenon DEF Precision
  <2> QED BY <2>1, <2>2
<1> QED BY <1>1, <1>2, <1>3, <1>4

(* Justification to the left does not change what has to be put out.       *)
LEMMA FlagsAre ==
  ASSUME NEW item, NEW ap
  PROVE  \A fl \in {"#", "+", " "} : (fl \in Flags(item, ap)) <=> (fl \in item.flags)
BY DEF Flags

LEMMA CutIs ==
  ASSUME NEW s, IsSeq(s), NEW precision \in Int
  PROVE  IsSeq(Cut(s, precision)) /\ Len(Cut(s, precision)) \in Nat
<1> DEFINE S == {s[j] : j \in DOMAIN s}
<1>1. s \in Seq(S) /\ Len(s) \in Nat /\ DOMAIN s = 1..Len(s)
  BY LenProperties DEF IsSeq
<1>2. CASE precision < 0 \/ precision >= Len(s)
  BY <1>1, <1>2, Zenon DEF Cut
<1>3. CASE ~(precision < 0 \/ precision >= Len(s))
  <2>1. Cut(s, precision) = SubSeq(s, 1, precision)
    BY <1>3, Zenon DEF Cut
  <2>2. precision \in Nat /\ precision <= Len(s)
    BY <1>1, <1>3
  <2> DEFINE t == SubSeq(s, 1, precision)
  <2>3. /\ Len(t) = precision /\ \A j \in 1..precision : t[j] = s[j]
        /\ t \in Seq(S)
    BY <1>1, <2>2, SubSeqProperties
  <2>4. DOMAIN t = 1..Len(t)
    BY <2>3, LenProperties
  <2>5. t \in Seq({t[j] : j \in DOMAIN t})
    <3> DEFINE R == {t[j] : j \in DOMAIN t}
    <3>1. t = [j \in 1..precision |-> t[j]]
      BY <2>3, LenProperties
    <3>2. \A j \in 1..precision : t[j] \in R
      BY <2>3, <2>4
    <3> HIDE DEF R
    <3>3. t \in [1..precision -> R]
      <4> HIDE DEF t
      <4> QED BY <3>1, <3>2
    <3>4. t \in Seq(R)
      <4> HIDE DEF t
      <4> QED BY <2>2, <3>3, SeqDef
    <3> QED BY <3>4 DEF R
  <2> QED BY <2>1, <2>2, <2>3, <2>5, Zenon DEF IsSeq
<1> QED BY <1>2, <1>3

LEMMA PadIs ==
  ASSUME NEW text, IsSeq(text), NEW width \in Int, NEW flags
  PROVE  Len(Pad(text, width, flags)) = Larger(width, Len(text)) /\ Len(text) \in Nat
<1> DEFINE S == {text[j] : j \in DOMAIN text} \cup {" "}
           n == width - Len(text)
           spaces == Repeat(" ", n)
<1>1. Len(text) \in Nat /\ text \in Seq(S) /\ n \in Int
  <2>1. text \in Seq(S)
    BY SeqMonotonic, {text[j] : j \in DOMAIN text} \subseteq S DEF IsSeq
  <2> HIDE DEF S
  <2> QED BY <2>1, LenProperties
<1>2. spaces \in Seq(S) /\ Len(spaces) = Larger(n, 0) /\ Larger(n, 0) \in Nat
  <2>1. " " \in S
    OBVIOUS
  <2> HIDE DEF S, n
  <2> QED BY <1>1, <2>1, RepeatIn, Zenon
<1>3. Pad(text, width, flags) = text \o spaces \/ Pad(text, width, flags) = spaces \o text
  BY DEF Pad
<1> HIDE DEF S, spaces
<1>4. Len(text \o spaces) = Len(text) + Len(spaces) /\ Len(spaces \o text) = Len(spaces) + Len(text)
  BY <1>1, <1>2, ConcatIs
<1>5. Len(Pad(text, width, flags)) = Len(text) + Larger(n, 0)
  <2>1. Len(spaces) + Len(text) = Len(text) + Len(spaces)
    BY <1>1, <1>2
  <2> QED BY <1>2, <1>3, <1>4, <2>1, Zenon
<1> QED BY <1>1, <1>5 DEF Larger

LEMMA ConvertCases ==
  ASSUME NEW item, NEW ap
  PROVE  /\ item.conv = "c" =>
              Converted(item, ap) =
                Pad(<<Argument(item, ap)>>, Width(item, ap), Flags(item, ap))
         /\ item.conv = "s" =>
              Converted(item, ap) = Pad(Text(item, ap), Width(item, ap), Flags(item, ap))
         /\ item.conv = "d" =>
              Converted(item, ap) =
                cprint_int(Signed(Argument(item, ap), Bits[item.length]), Width(item, ap),
                           Precision(item, ap), Flags(item, ap))
         /\ item.conv \in {"u", "o", "x", "X"} =>
              Converted(item, ap) =
                cprint_uint(Unsigned(Argument(item, ap), Bits[item.length]), Base(item.conv),
                            Width(item, ap), Precision(item, ap), Flags(item, ap),
                            item.conv = "X")
         /\ item.conv = "p" =>
              Converted(item, ap) =
                cprint_uint(Argument(item, ap), 16, Width(item, ap), Precision(item, ap),
                            Flags(item, ap) \cup {"#"}, FALSE)
<1>1. ASSUME item.conv = "c"
      PROVE  Converted(item, ap) =
                Pad(<<Argument(item, ap)>>, Width(item, ap), Flags(item, ap))
  BY <1>1 DEF Converted, Convert, Argument
<1>2. ASSUME item.conv = "s"
      PROVE  Converted(item, ap) = Pad(Text(item, ap), Width(item, ap), Flags(item, ap))
  BY <1>2 DEF Converted, Convert, Argument, Text
<1>3. ASSUME item.conv = "d"
      PROVE  Converted(item, ap) =
                cprint_int(Signed(Argument(item, ap), Bits[item.length]), Width(item, ap),
                           Precision(item, ap), Flags(item, ap))
  BY <1>3 DEF Converted, Convert, Argument
<1>4. ASSUME item.conv \in {"u", "o", "x", "X"}
      PROVE  Converted(item, ap) =
                cprint_uint(Unsigned(Argument(item, ap), Bits[item.length]), Base(item.conv),
                            Width(item, ap), Precision(item, ap), Flags(item, ap),
                            item.conv = "X")
  BY <1>4 DEF Converted, Convert, Argument
<1>5. ASSUME item.conv = "p"
      PROVE  Converted(item, ap) =
                cprint_uint(Argument(item, ap), 16, Width(item, ap), Precision(item, ap),
                            Flags(item, ap) \cup {"#"}, FALSE)
  BY <1>5 DEF Converted, Convert, Argument
<1> QED BY <1>1, <1>2, <1>3, <1>4, <1>5

LEMMA BaseIs ==
  ASSUME NEW conv \in {"u", "o", "x", "X"} PROVE Base(conv) \in Bases
BY DEF Base, Bases

LEMMA UintCountFlags ==
  ASSUME NEW v, NEW b, NEW p, NEW f, NEW g, NEW up, ("#" \in f) <=> ("#" \in g)
  PROVE  UintCount(v, b, p, f, up) = UintCount(v, b, p, g, up)
<1>1. UintPrefix(b, f, up) = UintPrefix(b, g, up)
  BY DEF UintPrefix
<1> QED BY <1>1, Zenon DEF UintCount

LEMMA IntCountFlags ==
  ASSUME NEW v, NEW p, NEW f, NEW g, \A fl \in {"#", "+", " "} : (fl \in f) <=> (fl \in g)
  PROVE  IntCount(v, p, f) = IntCount(v, p, g)
<1>1. SignCount(v, f) = SignCount(v, g)
  <2>1. "+" \in f <=> "+" \in g
    OBVIOUS
  <2>2. " " \in f <=> " " \in g
    OBVIOUS
  <2> QED BY <2>1, <2>2 DEF SignCount
<1> QED BY <1>1, Zenon DEF IntCount

LEMMA ConvertedLength ==
  ASSUME NEW item, NEW ap, Fits(item, ap), item.conv \in Known
  PROVE  /\ Need(item, ap) \in Nat
         /\ Len(Converted(item, ap)) = Larger(Width(item, ap), Need(item, ap))
<1>1. /\ Width(item, ap) \in Nat /\ Precision(item, ap) \in Int /\ Width(item, ap) \in Int
      /\ item.length \in DOMAIN Bits /\ item.conv \in {"c", "s", "d", "u", "o", "x", "X", "p"}
  BY FieldParts DEF Known
<1> DEFINE a == Argument(item, ap)
           w == Width(item, ap)
           p == Precision(item, ap)
           fl == Flags(item, ap)
<1>2. CASE item.conv = "c"
  <2>1. Converted(item, ap) = Pad(<<a>>, w, fl)
    BY <1>2, ConvertCases
  <2>2. IsSeq(<<a>>) /\ Len(<<a>>) = 1
    BY DEF IsSeq
  <2>3. Need(item, ap) = 1
    BY <1>2 DEF Need
  <2> HIDE DEF a, w, p, fl
  <2>4. Len(Pad(<<a>>, w, fl)) = Larger(w, 1)
    BY <1>1, <2>2, PadIs, Zenon DEF w
  <2> QED BY <2>1, <2>3, <2>4 DEF w
<1>3. CASE item.conv = "s"
  <2>1. Converted(item, ap) = Pad(Text(item, ap), w, fl)
    BY <1>3, ConvertCases
  <2>2. IsSeq(Text(item, ap)) /\ Len(Text(item, ap)) \in Nat
    <3>1. IsSeq(a)
      BY <1>3 DEF Fits
    <3>2. IsSeq(NullText)
      BY DEF IsSeq, NullText
    <3> DEFINE t == IF a = Null THEN NullText ELSE a
    <3>3. IsSeq(t)
      BY <3>1, <3>2, Zenon
    <3>4. Text(item, ap) = Cut(t, p)
      BY DEF Text
    <3> HIDE DEF t
    <3> QED BY <1>1, <3>3, <3>4, CutIs, Zenon
  <2>3. Need(item, ap) = Len(Text(item, ap))
    BY <1>3 DEF Need
  <2> QED BY <1>1, <2>1, <2>2, <2>3, PadIs, Zenon
<1>4. CASE item.conv = "d"
  <2> DEFINE v == Signed(a, Bits[item.length])
  <2>1. Converted(item, ap) = cprint_int(v, w, p, fl)
    BY <1>4, ConvertCases
  <2>2. a \in Slots
    BY <1>4 DEF Fits, Numeric
  <2>3. v \in Int /\ Magnitude(v) \in Slots
    <3>1. v \in (-(2^(Bits[item.length] - 1)))..(2^(Bits[item.length] - 1) - 1)
      BY <1>1, <2>2, SignedIs, Zenon
    <3> HIDE DEF v
    <3> QED BY <1>1, <3>1, MagnitudeIs, Zenon
  <2>4. Need(item, ap) = IntCount(v, p, item.flags)
    BY <1>4 DEF Need
  <2>5. IntCount(v, p, fl) = IntCount(v, p, item.flags)
    BY FlagsAre, IntCountFlags
  <2> HIDE DEF v
  <2>6. IntCount(v, p, fl) \in Nat /\ Len(cprint_int(v, w, p, fl)) = Larger(w, IntCount(v, p, fl))
    <3>1. w \in Int /\ p \in Int
      BY <1>1
    <3> HIDE DEF w, p, fl
    <3> QED BY <2>3, <3>1, IntIs
  <2> QED BY <2>1, <2>4, <2>5, <2>6, Zenon
<1>5. CASE item.conv \in {"u", "o", "x", "X"}
  <2> DEFINE v == Unsigned(a, Bits[item.length])
             up == item.conv = "X"
             b == Base(item.conv)
  <2>1. Converted(item, ap) = cprint_uint(v, b, w, p, fl, up)
    BY <1>5, ConvertCases
  <2>2. a \in Slots
    BY <1>5 DEF Fits, Numeric
  <2>3. v \in Slots /\ b \in Bases /\ up \in BOOLEAN
    BY <1>1, <1>5, <2>2, UnsignedIs, BaseIs
  <2>4. Need(item, ap) = UintCount(v, b, p, item.flags, up)
    BY <1>5 DEF Need
  <2>5. UintCount(v, b, p, fl, up) = UintCount(v, b, p, item.flags, up)
    <3>1. ("#" \in fl) <=> ("#" \in item.flags)
      BY FlagsAre
    <3> HIDE DEF v, b, p, fl, up
    <3> QED BY <3>1, UintCountFlags, Zenon
  <2> HIDE DEF v, b, up
  <2>6. /\ UintCount(v, b, p, fl, up) \in Nat
        /\ Len(cprint_uint(v, b, w, p, fl, up)) = Larger(w, UintCount(v, b, p, fl, up))
    BY <1>1, <2>3, UintIs, Zenon
  <2> QED BY <2>1, <2>4, <2>5, <2>6, Zenon
<1>6. CASE item.conv = "p"
  <2> DEFINE g == fl \cup {"#"}
             h == item.flags \cup {"#"}
  <2>1. Converted(item, ap) = cprint_uint(a, 16, w, p, g, FALSE)
    BY <1>6, ConvertCases
  <2>2. a \in Slots /\ 16 \in Bases
    BY <1>6 DEF Fits, Bases
  <2>3. Need(item, ap) = UintCount(a, 16, p, h, FALSE)
    BY <1>6 DEF Need
  <2>4. UintCount(a, 16, p, g, FALSE) = UintCount(a, 16, p, h, FALSE)
    <3>1. ("#" \in g) <=> ("#" \in h)
      OBVIOUS
    <3> HIDE DEF g, h
    <3> QED BY <3>1, UintCountFlags, Zenon
  <2> HIDE DEF g, h
  <2>5. PICK b, up : b = 16 /\ up = FALSE
    OBVIOUS
  <2>6. b \in Bases /\ up \in BOOLEAN
    BY <2>2, <2>5
  <2>7. /\ UintCount(a, b, p, g, up) \in Nat
        /\ Len(cprint_uint(a, b, w, p, g, up)) = Larger(w, UintCount(a, b, p, g, up))
    <3>1. w \in Int /\ p \in Int /\ a \in Slots
      BY <1>1, <2>2
    <3> HIDE DEF w, p, a
    <3> QED BY <2>6, <3>1, UintIs
  <2> QED BY <2>1, <2>3, <2>4, <2>5, <2>7, Zenon
<1> QED BY <1>1, <1>2, <1>3, <1>4, <1>5, <1>6

(* The same item without its width, as PaddedExactly takes it.             *)
Bare(item) == [item EXCEPT !.width = 0, !.star = FALSE]
BareAt(item, ap) == IF item.star THEN ap + 1 ELSE ap

LEMMA BareIs ==
  ASSUME NEW item, NEW ap \in Nat, Fits(item, ap)
  PROVE  /\ Fits(Bare(item), BareAt(item, ap)) /\ Bare(item).conv = item.conv
         /\ Width(Bare(item), BareAt(item, ap)) = 0
         /\ Need(Bare(item), BareAt(item, ap)) = Need(item, ap)
<1> DEFINE bare == Bare(item)
           bp == BareAt(item, ap)
<1>1. item \in Conversions
  BY DEF Fits
<1>2. /\ bare \in Conversions /\ bare.conv = item.conv /\ bare.flags = item.flags
      /\ bare.width = 0 /\ bare.precision = item.precision /\ bare.length = item.length
      /\ bare.star = FALSE /\ bare.pstar = item.pstar
  BY <1>1 DEF Bare, Conversions
<1> HIDE DEF bare
<1>3. ValueAt(bare, bp) = ValueAt(item, ap)
  BY <1>2 DEF ValueAt, BareAt
<1>4. Argument(bare, bp) = Argument(item, ap)
  BY <1>3, Zenon DEF Argument
<1>5. Precision(bare, bp) = Precision(item, ap)
  BY <1>2, Zenon DEF Precision, BareAt
<1>6. Width(bare, bp) = 0
  BY <1>2, Zenon DEF Width
<1>7. Text(bare, bp) = Text(item, ap)
  BY <1>4, <1>5, Zenon DEF Text
<1>8. Need(bare, bp) = Need(item, ap)
  BY <1>2, <1>4, <1>5, <1>7, Zenon DEF Need
<1>9. Fits(bare, bp)
  BY <1>2, <1>4, Zenon DEF Fits, BareAt
<1> QED BY <1>2, <1>6, <1>8, <1>9 DEF bare

LEMMA PaddedField ==
  ASSUME NEW item, NEW ap \in Nat, Fits(item, ap), item.conv \in Known
  PROVE  Len(Converted(item, ap)) =
           Larger(Width(item, ap), Len(Converted(Bare(item), BareAt(item, ap))))
<1>1. /\ Need(item, ap) \in Nat
      /\ Len(Converted(item, ap)) = Larger(Width(item, ap), Need(item, ap))
  BY ConvertedLength
<1>2. /\ Fits(Bare(item), BareAt(item, ap)) /\ Bare(item).conv = item.conv
      /\ Width(Bare(item), BareAt(item, ap)) = 0
      /\ Need(Bare(item), BareAt(item, ap)) = Need(item, ap)
  BY BareIs
<1>3. Len(Converted(Bare(item), BareAt(item, ap))) = Larger(0, Need(item, ap))
  BY <1>2, ConvertedLength
<1>4. Larger(0, Need(item, ap)) = Need(item, ap)
  BY <1>1 DEF Larger
<1> QED BY <1>1, <1>3, <1>4, Zenon

-----------------------------------------------------------------------------
(* What a number says.                                                     *)
Says(item, ap) ==
  LET m == 2^Bits[item.length]
      range == IF item.conv = "d" THEN (-(m \div 2))..((m \div 2) - 1) ELSE 0..(m - 1)
  IN  CHOOSE v \in range : (v - Argument(item, ap)) % m = 0

LEMMA SaysIs ==
  ASSUME NEW item, NEW ap, Fits(item, ap), item.conv \in Numeric
  PROVE  Says(item, ap) = IF item.conv = "d" THEN Signed(Argument(item, ap), Bits[item.length])
                          ELSE Unsigned(Argument(item, ap), Bits[item.length])
<1>1. PICK M, h, a : /\ M = 2^Bits[item.length] /\ h = 2^(Bits[item.length] - 1)
                     /\ a = Argument(item, ap)
  OBVIOUS
<1>2. item.length \in DOMAIN Bits /\ a \in Slots
  BY <1>1, FieldParts DEF Fits
<1>3. M \in Nat \ {0} /\ h \in Nat \ {0} /\ M = 2 * h /\ a \in Int
  BY <1>1, <1>2, WidthFacts, SlotsAre
<1>4. M \div 2 = h
  <2>1. PICK d, e : d = M \div 2 /\ e = M % 2
    OBVIOUS
  <2>2. d \in Int /\ e \in 0..1 /\ M = 2 * d + e
    BY <1>3, <2>1
  <2>3. d = h
    BY <1>3, <2>2
  <2> QED BY <2>1, <2>3, Zenon
<1>5. CASE item.conv = "d"
  <2>1. PICK s : s = Signed(a, Bits[item.length])
    OBVIOUS
  <2>2. s \in (-h)..(h - 1) /\ (s - a) % M = 0
    BY <1>1, <1>2, <2>1, SignedIs, Zenon
  <2>3. ASSUME NEW v \in (-h)..(h - 1), (v - a) % M = 0 PROVE v = s
    <3>1. v \in Int /\ s \in Int /\ v - s < M /\ s - v < M
      BY <1>3, <2>2
    <3> QED BY <1>3, <2>2, <2>3, <3>1, ModUnique, Zenon
  <2>4. (CHOOSE v \in (-h)..(h - 1) : (v - a) % M = 0) = s
    BY <2>2, <2>3, Zenon
  <2>5. Says(item, ap) = CHOOSE v \in (-h)..(h - 1) : (v - a) % M = 0
    BY <1>1, <1>4, <1>5, Zenon DEF Says
  <2> QED BY <1>1, <1>5, <2>1, <2>4, <2>5, Zenon
<1>6. CASE item.conv # "d"
  <2>1. PICK s : s = Unsigned(a, Bits[item.length])
    OBVIOUS
  <2>2. s \in 0..(M - 1) /\ (s - a) % M = 0
    BY <1>1, <1>2, <2>1, UnsignedIs, Zenon
  <2>3. ASSUME NEW v \in 0..(M - 1), (v - a) % M = 0 PROVE v = s
    <3>1. v \in Int /\ s \in Int /\ v - s < M /\ s - v < M
      BY <1>3, <2>2
    <3> QED BY <1>3, <2>2, <2>3, <3>1, ModUnique, Zenon
  <2>4. (CHOOSE v \in 0..(M - 1) : (v - a) % M = 0) = s
    BY <2>2, <2>3, Zenon
  <2>5. Says(item, ap) = CHOOSE v \in 0..(M - 1) : (v - a) % M = 0
    BY <1>1, <1>6, Zenon DEF Says
  <2> QED BY <1>1, <1>6, <2>1, <2>4, <2>5, Zenon
<1> QED BY <1>5, <1>6, Zenon

LEMMA NumberField ==
  ASSUME NEW item, NEW ap, Fits(item, ap), item.conv \in Numeric
  PROVE  Read(Converted(item, ap), Base(IF item.conv = "d" THEN "u" ELSE item.conv))
           = Says(item, ap)
<1> DEFINE a == Argument(item, ap)
           w == Width(item, ap)
           p == Precision(item, ap)
           fl == Flags(item, ap)
<1>1. /\ w \in Int /\ p \in Int /\ a \in Slots /\ item.length \in DOMAIN Bits
      /\ item.conv \in {"d", "u", "o", "x", "X"}
  <2>1. a \in Slots
    BY DEF Fits
  <2> QED BY <2>1, FieldParts DEF Numeric
<1>2. CASE item.conv = "d"
  <2> DEFINE v == Signed(a, Bits[item.length])
             f == cprint_int(v, w, p, fl)
  <2>1. Converted(item, ap) = f
    BY <1>2, ConvertCases
  <2>2. Base(IF item.conv = "d" THEN "u" ELSE item.conv) = 10 /\ 10 \in Bases
    BY <1>2 DEF Base, Bases
  <2> HIDE DEF a, w, p, fl
  <2>3. /\ v \in Int /\ Magnitude(v) \in Slots
        /\ Magnitude(v) = IF v < 0 THEN -v ELSE v
    <3>1. v \in (-(2^(Bits[item.length] - 1)))..(2^(Bits[item.length] - 1) - 1)
      BY <1>1, SignedIs, Zenon
    <3> HIDE DEF v
    <3> QED BY <1>1, <3>1, MagnitudeIs, Zenon
  <2> HIDE DEF v
  <2>4. /\ f \in Seq(Chars) /\ Shows(f, Magnitude(v), 10, Lower)
        /\ (v < 0) <=> (\E j \in DOMAIN f : f[j] = "-")
    <3>1. v \in Int /\ Magnitude(v) \in Slots /\ w \in Int /\ p \in Int
      BY <1>1, <2>3
    <3>2. f \in Seq(Chars) /\ Shows(f, Magnitude(v), 10, Lower)
      BY <3>1, IntIs
    <3>3. (v < 0) <=> HasMinus(f)
      BY <3>1, IntIs
    <3> QED BY <3>2, <3>3 DEF HasMinus
  <2> HIDE DEF f
  <2>5. ReadDigits(f, 10) = Magnitude(v)
    <3>1. Len(f) \in Nat
      BY <2>4, LenProperties
    <3> QED BY <2>2, <2>3, <2>4, <3>1, ReadShown
  <2>6. Read(f, 10) = v
    <3>1. CASE v < 0
      <4>1. Read(f, 10) = -ReadDigits(f, 10)
        BY <2>4, <3>1, Zenon DEF Read
      <4> QED BY <2>3, <2>5, <3>1, <4>1
    <3>2. CASE ~(v < 0)
      <4>1. Read(f, 10) = ReadDigits(f, 10)
        BY <2>4, <3>2, Zenon DEF Read
      <4> QED BY <2>3, <2>5, <3>2, <4>1
    <3> QED BY <3>1, <3>2
  <2>7. Says(item, ap) = v
    BY <1>2, SaysIs, Zenon DEF v, a
  <2> QED BY <2>1, <2>2, <2>6, <2>7, Zenon
<1>3. CASE item.conv # "d"
  <2> DEFINE v == Unsigned(a, Bits[item.length])
             up == item.conv = "X"
             b == Base(item.conv)
             f == cprint_uint(v, b, w, p, fl, up)
  <2>0. item.conv \in {"u", "o", "x", "X"}
    BY <1>1, <1>3
  <2>1. Converted(item, ap) = f
    BY <2>0, ConvertCases
  <2>2. Base(IF item.conv = "d" THEN "u" ELSE item.conv) = b /\ b \in Bases /\ up \in BOOLEAN
    BY <1>3, <2>0, BaseIs
  <2> HIDE DEF a, w, p, fl, b, up
  <2>3. v \in Slots
    BY <1>1, UnsignedIs, Zenon
  <2> HIDE DEF v
  <2>4. f \in Seq(Unsign) /\ Shows(f, v, b, Alphabet(up)) /\ Alphabet(up) \in {Lower, Upper}
    <3>1. f \in Seq(Unsign) /\ Shows(f, v, b, Alphabet(up))
      BY <1>1, <2>2, <2>3, UintIs
    <3> QED BY <3>1 DEF Alphabet
  <2> HIDE DEF f
  <2>5. Len(f) \in Nat /\ \A j \in DOMAIN f : f[j] \in Unsign
    BY <2>4, LenProperties, ElementOfSeq
  <2>6. ReadDigits(f, b) = v
    BY <2>2, <2>3, <2>4, <2>5, ReadShown
  <2>7. Read(f, b) = v
    <3>1. ~\E j \in DOMAIN f : f[j] = "-"
      BY <2>5 DEF Unsign
    <3> QED BY <2>6, <3>1, Zenon DEF Read
  <2>8. Says(item, ap) = v
    BY <1>3, SaysIs, Zenon DEF v, a
  <2> QED BY <2>1, <2>2, <2>7, <2>8, Zenon
<1> QED BY <1>2, <1>3

-----------------------------------------------------------------------------
(* Both functions are always in the state that C's own left-to-right       *)
(* reading of the format gives for their position in it.                   *)
FieldOf(k) ==
  IF call.fmt[k].conv = "text" THEN call.fmt[k].text
  ELSE Converted(call.fmt[k], FirstArg(call, k))
After(p) ==
  [p |-> p, ap |-> FirstArg(call, p), fields |-> [k \in 1..(p - 1) |-> FieldOf(k)]]
FormatInv ==
  /\ call \in Calls
  /\ con \in {After(p) : p \in 1..(Len(call.fmt) + 1)}
  /\ ser \in {After(p) : p \in 1..(Len(call.fmt) + 1)}

LEMMA CallIs ==
  ASSUME NEW c \in Calls
  PROVE  /\ Matched(c) /\ Len(c.fmt) \in Nat /\ DOMAIN c.fmt = 1..Len(c.fmt)
BY CallsAssumption, LenProperties DEF CallsAssumption, Matched, IsSeq

LEMMA CallFits ==
  ASSUME call \in Calls, NEW k \in 1..Len(call.fmt), call.fmt[k].conv # "text"
  PROVE  Fits(call.fmt[k], FirstArg(call, k)) /\ FirstArg(call, k) \in Nat
<1>1. Matched(call) /\ Len(call.fmt) \in Nat /\ DOMAIN call.fmt = 1..Len(call.fmt)
  BY CallIs
<1>2. FirstArg(call, k) \in Nat
  <2>1. k \in 1..(Len(call.fmt) + 1)
    BY <1>1
  <2> QED BY <1>1, <2>1, FirstNat
<1>3. Fits(call.fmt[k], FirstArg(call, k))
  BY <1>1, Zenon DEF Matched, Fits, Argument
<1> QED BY <1>2, <1>3

LEMMA ConsumedIs == ASSUME NEW item PROVE Consumed(item) = Takes(item)
BY DEF Consumed, Takes, ValueAt

(* The fields are appended one at a time.                                  *)
LEMMA AppendOne ==
  ASSUME NEW p \in Nat \ {0}
  PROVE  Append([k \in 1..(p - 1) |-> FieldOf(k)], FieldOf(p)) = [k \in 1..p |-> FieldOf(k)]
<1> DEFINE s == [k \in 1..(p - 1) |-> FieldOf(k)]
           S == {FieldOf(k) : k \in 1..p}
           t == [k \in 1..p |-> FieldOf(k)]
<1>1. s \in Seq(S) /\ Len(s) = p - 1 /\ FieldOf(p) \in S
  <2>1. p - 1 \in Nat /\ \A k \in 1..(p - 1) : FieldOf(k) \in S
    OBVIOUS
  <2>2. FieldOf(p) \in S
    OBVIOUS
  <2> HIDE DEF S
  <2>3. s \in [1..(p - 1) -> S]
    BY <2>1
  <2>4. s \in Seq(S)
    BY <2>1, <2>3, SeqDef
  <2>5. DOMAIN s = 1..(p - 1) /\ DOMAIN s = 1..Len(s) /\ Len(s) \in Nat
    BY <2>4, LenProperties
  <2> QED BY <2>1, <2>2, <2>4, <2>5
<1>2. \A k \in 1..(p - 1) : s[k] = FieldOf(k)
  OBVIOUS
<1> HIDE DEF s, S
<1>3. /\ Append(s, FieldOf(p)) \in Seq(S) /\ Len(Append(s, FieldOf(p))) = p
      /\ \A k \in 1..(p - 1) : Append(s, FieldOf(p))[k] = s[k]
      /\ Append(s, FieldOf(p))[p] = FieldOf(p)
  <2>1. /\ Append(s, FieldOf(p)) \in Seq(S) /\ Len(Append(s, FieldOf(p))) = Len(s) + 1
        /\ \A k \in 1..Len(s) : Append(s, FieldOf(p))[k] = s[k]
        /\ Append(s, FieldOf(p))[Len(s) + 1] = FieldOf(p)
    BY <1>1, AppendProperties
  <2>2. Len(s) + 1 = p
    BY <1>1
  <2> QED BY <1>1, <2>1, <2>2, Zenon
<1> DEFINE a == Append(s, FieldOf(p))
<1>4. a = [k \in 1..p |-> a[k]]
  BY <1>3, LenProperties
<1>5. \A k \in 1..p : a[k] = FieldOf(k)
  BY <1>2, <1>3
<1> HIDE DEF a
<1>6. a = t
  BY <1>4, <1>5
<1> QED BY <1>6 DEF a, s

LEMMA TurnIs ==
  ASSUME call \in Calls, NEW p \in 1..Len(call.fmt), NEW v, v = After(p)
  PROVE  Turn(v, cprint_uint, cprint_int) = After(p + 1)
<1> DEFINE item == call.fmt[p]
<1>1. /\ Len(call.fmt) \in Nat /\ p \in Nat \ {0} /\ (p + 1) - 1 = p
      /\ FirstArg(call, p + 1) = FirstArg(call, p) + Skips(item) /\ FirstArg(call, p) \in Nat
  <2>1. Len(call.fmt) \in Nat
    BY CallIs
  <2> QED BY <2>1, FirstIs, FirstNat
<1>2. /\ v.p = p /\ v.ap = FirstArg(call, p) /\ v.fields = [k \in 1..(p - 1) |-> FieldOf(k)]
      /\ v = [p |-> v.p, ap |-> v.ap, fields |-> v.fields]
  BY DEF After
<1>3. Append(v.fields, FieldOf(p)) = [k \in 1..p |-> FieldOf(k)]
  BY <1>1, <1>2, AppendOne, Zenon
<1>4. After(p + 1) = [p |-> p + 1, ap |-> FirstArg(call, p + 1),
                      fields |-> Append(v.fields, FieldOf(p))]
  BY <1>1, <1>3, Zenon DEF After
<1>5. CASE item.conv = "text"
  <2>1. Turn(v, cprint_uint, cprint_int) =
          [v EXCEPT !.p = @ + 1, !.fields = Append(@, item.text)]
    BY <1>2, <1>5, Zenon DEF Turn
  <2>2. FieldOf(p) = item.text /\ FirstArg(call, p + 1) = v.ap
    BY <1>1, <1>2, <1>5 DEF FieldOf, Skips
  <2>3. [v EXCEPT !.p = @ + 1, !.fields = Append(@, item.text)]
          = [p |-> v.p + 1, ap |-> v.ap, fields |-> Append(v.fields, item.text)]
    <3>1. PICK x, y, z, t : x = v.p /\ y = v.ap /\ z = v.fields /\ t = item.text
      OBVIOUS
    <3>2. v = [p |-> x, ap |-> y, fields |-> z]
      BY <1>2, <3>1, Zenon
    <3>3. [v EXCEPT !.p = @ + 1, !.fields = Append(@, t)]
            = [p |-> x + 1, ap |-> y, fields |-> Append(z, t)]
      <4>1. PICK a, b : a = x + 1 /\ b = Append(z, t)
        OBVIOUS
      <4>2. [v EXCEPT !.p = @ + 1, !.fields = Append(@, t)] = [v EXCEPT !.p = a, !.fields = b]
        BY <3>2, <4>1, Z3
      <4>3. [v EXCEPT !.p = a, !.fields = b] = [[v EXCEPT !.p = a] EXCEPT !.fields = b]
        BY <3>2
      <4>4. [v EXCEPT !.p = a] = [p |-> a, ap |-> y, fields |-> z]
        BY <3>2
      <4>5. ASSUME NEW u, u = [p |-> a, ap |-> y, fields |-> z]
            PROVE  [u EXCEPT !.fields = b] = [p |-> a, ap |-> y, fields |-> b]
        BY <4>5
      <4> QED BY <4>1, <4>2, <4>3, <4>4, <4>5, Zenon
    <3> QED BY <3>1, <3>3, Zenon
  <2> QED BY <1>2, <1>4, <2>1, <2>2, <2>3, Zenon
<1>6. CASE item.conv # "text"
  <2>1. Turn(v, cprint_uint, cprint_int) =
          [p |-> v.p + 1, ap |-> v.ap + Consumed(item),
           fields |-> Append(v.fields, Converted(item, v.ap))]
    BY <1>2, <1>6, Zenon DEF Turn, Converted
  <2>2. FieldOf(p) = Converted(item, v.ap)
    BY <1>2, <1>6, Zenon DEF FieldOf
  <2>3. FirstArg(call, p + 1) = v.ap + Consumed(item)
    BY <1>1, <1>2, <1>6, ConsumedIs, Zenon DEF Skips
  <2> QED BY <1>2, <1>4, <2>1, <2>2, <2>3, Zenon
<1> QED BY <1>5, <1>6

(* svprintf's turn is cvprintf's.                                          *)
LEMMA SameTurn ==
  ASSUME NEW v
  PROVE  Turn(v, sprint_uint, sprint_int) = Turn(v, cprint_uint, cprint_int)
BY DEF Turn, Convert, sprint_uint, sprint_int

LEMMA AfterKept ==
  ASSUME call' = call, NEW p
  PROVE  After(p)' = After(p)
<1>1. ASSUME NEW item, NEW ap PROVE Converted(item, ap)' = Converted(item, ap)
  BY Zenon DEF Converted, Convert, Width, Flags, Precision
<1>2. ASSUME NEW k PROVE FieldOf(k)' = FieldOf(k)
  BY <1>1, Zenon DEF FieldOf
<1> QED BY <1>2, Zenon DEF After

LEMMA FormatInductive == FormatSpec => []FormatInv
<1>1. FormatInit => FormatInv
  <2> SUFFICES ASSUME FormatInit PROVE FormatInv
    OBVIOUS
  <2>1. call \in Calls /\ con = Start /\ ser = Start
    BY DEF FormatInit
  <2>2. Len(call.fmt) \in Nat /\ FirstArg(call, 1) = 1
    BY <2>1, CallIs, FirstIs
  <2>3. [k \in 1..(1 - 1) |-> FieldOf(k)] = << >>
    OBVIOUS
  <2>4. After(1) = Start
    BY <2>2, <2>3, Zenon DEF After, Start
  <2>5. 1 \in 1..(Len(call.fmt) + 1)
    BY <2>2
  <2> QED BY <2>1, <2>4, <2>5 DEF FormatInv
<1>2. FormatInv /\ [FormatNext]_formatVars => FormatInv'
  <2> SUFFICES ASSUME FormatInv, [FormatNext]_formatVars PROVE FormatInv'
    OBVIOUS
  <2> DEFINE States == {After(p) : p \in 1..(Len(call.fmt) + 1)}
  <2>1. call \in Calls /\ Len(call.fmt) \in Nat /\ con \in States /\ ser \in States
    BY CallIs DEF FormatInv
  <2>2. call' = call
    BY DEF FormatNext, cvprintf, svprintf, Returned, formatVars
  <2>3. States' = States
    BY <2>2, AfterKept, Zenon
  <2>4. ASSUME NEW v \in States, v.p <= Len(call.fmt)
        PROVE  Turn(v, cprint_uint, cprint_int) \in States
    <3>1. PICK p \in 1..(Len(call.fmt) + 1) : v = After(p)
      OBVIOUS
    <3>2. v.p = p
      BY <3>1 DEF After
    <3>3. p \in 1..Len(call.fmt) /\ p + 1 \in 1..(Len(call.fmt) + 1)
      BY <2>1, <2>4, <3>2
    <3>4. Turn(v, cprint_uint, cprint_int) = After(p + 1)
      BY <2>1, <3>1, <3>3, TurnIs
    <3> QED BY <3>3, <3>4
  <2>5. con' \in States /\ ser' \in States
    <3>1. CASE cvprintf
      <4>1. con.p <= Len(call.fmt) /\ con' = Turn(con, cprint_uint, cprint_int) /\ ser' = ser
        BY <3>1 DEF cvprintf
      <4> HIDE DEF States
      <4> QED BY <2>1, <2>4, <4>1
    <3>2. CASE svprintf
      <4>1. ser.p <= Len(call.fmt) /\ ser' = Turn(ser, sprint_uint, sprint_int) /\ con' = con
        BY <3>2 DEF svprintf
      <4>2. ser' = Turn(ser, cprint_uint, cprint_int)
        BY <4>1, SameTurn
      <4> HIDE DEF States
      <4> QED BY <2>1, <2>4, <4>1, <4>2
    <3>3. CASE UNCHANGED formatVars
      BY <2>1, <3>3, Zenon DEF formatVars
    <3> QED BY <3>1, <3>2, <3>3 DEF FormatNext, Returned
  <2> QED BY <2>1, <2>2, <2>3, <2>5, Zenon DEF FormatInv
<1> QED BY <1>1, <1>2, PTL DEF FormatSpec

LEMMA FieldsAre ==
  ASSUME FormatInv, NEW sink \in {con, ser}, NEW k \in DOMAIN sink.fields
  PROVE  k \in 1..Len(call.fmt) /\ sink.fields[k] = FieldOf(k) /\ call \in Calls
<1>1. call \in Calls /\ Len(call.fmt) \in Nat
  BY CallIs DEF FormatInv
<1>2. PICK p \in 1..(Len(call.fmt) + 1) : sink = After(p)
  BY DEF FormatInv
<1>3. sink.fields = [j \in 1..(p - 1) |-> FieldOf(j)]
  BY <1>2 DEF After
<1>4. k \in 1..(p - 1) /\ sink.fields[k] = FieldOf(k)
  BY <1>3
<1> QED BY <1>1, <1>4

(* Every field that cvprintf and svprintf put out for a conversion is      *)
(* padded to its width exactly, for every call whose arguments match.      *)
THEOREM PaddedExactlyHolds == FormatSpec => []PaddedExactly
<1>1. FormatInv => PaddedExactly
  <2> SUFFICES ASSUME FormatInv, NEW sink \in {con, ser}, NEW k \in DOMAIN sink.fields,
                      call.fmt[k].conv \in Known
               PROVE  Len(sink.fields[k]) =
                        Larger(Width(call.fmt[k], FirstArg(call, k)),
                               Len(Converted(Bare(call.fmt[k]),
                                             BareAt(call.fmt[k], FirstArg(call, k)))))
    BY Zenon DEF PaddedExactly, Converted, Bare, BareAt
  <2>1. k \in 1..Len(call.fmt) /\ sink.fields[k] = FieldOf(k) /\ call \in Calls
    BY FieldsAre
  <2>2. call.fmt[k].conv # "text"
    BY DEF Known
  <2>3. Fits(call.fmt[k], FirstArg(call, k)) /\ FirstArg(call, k) \in Nat
    BY <2>1, <2>2, CallFits
  <2>4. FieldOf(k) = Converted(call.fmt[k], FirstArg(call, k))
    BY <2>2, Zenon DEF FieldOf
  <2> QED BY <2>1, <2>3, <2>4, PaddedField, Zenon
<1> QED BY <1>1, FormatInductive, PTL

(* Every number that cvprintf and svprintf put out reads back as the       *)
(* value that C assigns to its conversion, for every call whose arguments  *)
(* match, every width of the length modifiers, base, sign and precision.   *)
THEOREM NumbersReadBackHolds == FormatSpec => []NumbersReadBack
<1>1. FormatInv => NumbersReadBack
  <2> SUFFICES ASSUME FormatInv, NEW sink \in {con, ser}, NEW k \in DOMAIN sink.fields,
                      call.fmt[k].conv \in Numeric
               PROVE  Read(sink.fields[k],
                           Base(IF call.fmt[k].conv = "d" THEN "u" ELSE call.fmt[k].conv))
                        = Meant(k)
    BY Zenon DEF NumbersReadBack
  <2>1. k \in 1..Len(call.fmt) /\ sink.fields[k] = FieldOf(k) /\ call \in Calls
    BY FieldsAre
  <2>2. call.fmt[k].conv # "text"
    BY DEF Numeric
  <2>3. Fits(call.fmt[k], FirstArg(call, k)) /\ FirstArg(call, k) \in Nat
    BY <2>1, <2>2, CallFits
  <2>4. FieldOf(k) = Converted(call.fmt[k], FirstArg(call, k))
    BY <2>2, Zenon DEF FieldOf
  <2>5. Meant(k) = Says(call.fmt[k], FirstArg(call, k))
    BY Zenon DEF Meant, Says, ValueArg, Argument
  <2> QED BY <2>1, <2>3, <2>4, <2>5, NumberField, Zenon
<1> QED BY <1>1, FormatInductive, PTL

=============================================================================
