------------------------ MODULE ContextSwitchProofs -------------------------
(***************************************************************************)
(* Registers and stacks, for any number of tasks and any values in their   *)
(* registers.  What is said of exceptions holds for all vectors but two.   *)
(***************************************************************************)
EXTENDS ContextSwitch, SequenceTheorems, TLAPS

(* The inductive invariant.  A stack is a sequence of n words of any kind. *)
Size(s, n) == n \in Nat /\ Len(s) = n /\ s = [i \in 1..n |-> s[i]]

(* Under the first n words of the stack of x lies only what StackBalanced  *)
(* lets lie there.                                                         *)
Below(x) == IF x \in Tasks THEN 1 ELSE 0
Under(x, s, n) ==
  /\ Size(s, n + Below(x))
  /\ x \in Tasks => s[n + 1] = "task_exit"

(* Under the first n words lies what an interrupt entry has pushed: all    *)
(* registers as they were, and where to go on.                             *)
RegsIn(s, n, file) == \A i \in 1..15 : s[n + i] = file[AllRegs[16 - i]]
IsrFrame(x, s, file, n) ==
  Under(x, s, n + 16) /\ s[n + 16] = "run" /\ RegsIn(s, n, file)

(* Under the first n words lies the return address of scheduler_yield: in  *)
(* the code of the context, or in the entry of an interrupt.               *)
CallerAny(file) == \A r \in Regs \ Names(CalleeSaved) : file[r] = Any
YieldFrame(x, s, file, n) ==
  \/ Under(x, s, n + 1) /\ s[n + 1] = "run" /\ CallerAny(file)
  \/ s[n + 1] = "isr_pop" /\ IsrFrame(x, s, file, n + 1)

(* The frame scheduler_context_switch finds on the stack of a context that *)
(* is not executing; file is what that context must find.                  *)
AllAny(file) == \A r \in Regs : file[r] = Any
CalleeIn(s, file) == \A i \in 1..6 : file[CalleeSaved[7 - i]] \in {Any, s[i]}
SavedFrame(x, s, file) ==
  \/ YieldFrame(x, s, file, 6) /\ (s[7] = "run" => CalleeIn(s, file))
  \/ x \in Tasks /\ Under(x, s, 7) /\ s[7] = "task_trampoline" /\ AllAny(file)

Kept == \A r \in Regs : want[on][r] \in {Any, regs[r]}

TypeOK ==
  /\ on \in Contexts
  /\ pc \in {"run", "yield", "isr_pop", "task_trampoline", "exception_handler", "kpanic"}
  /\ regs = [r \in Regs |-> regs[r]]
  /\ stack = [x \in Contexts |-> stack[x]]
  /\ want = [x \in Contexts |-> want[x]]
  /\ \A x \in Contexts : want[x] = [r \in Regs |-> want[x][r]]

(* What lies on the stack of the context that executes, and on the others. *)
FrameInv ==
  /\ pc = "run" => Under(on, stack[on], 0) /\ Kept
  /\ pc = "yield" =>
       YieldFrame(on, stack[on], want[on], 0) /\ (stack[on][1] = "run" => Kept)
  /\ pc = "isr_pop" => IsrFrame(on, stack[on], want[on], 0)
  /\ pc = "task_trampoline" =>
       on \in Tasks /\ Under(on, stack[on], 0) /\ AllAny(want[on])
  /\ \A x \in Contexts \ {on} : SavedFrame(x, stack[x], want[x])

(* The vectors the kernel has a name for and a stub that agrees with the   *)
(* CPU on the error code; a processor raises 29 in guests with encrypted   *)
(* state only, and 31 never.                                               *)
KnownVectors == Vectors \cap {29, 31} = {}

(* What exception_handler finds, and has found.                            *)
ExceptionInv ==
  /\ report # None => pc = "kpanic"
  /\ KnownVectors =>
       /\ pc = "exception_handler" =>
            /\ raised = <<stack[on][16], stack[on][17]>>
            /\ stack[on][16] \in {VectorWord(v) : v \in exception_names}
       /\ ExceptionReported

IInv == TypeOK /\ FrameInv /\ ExceptionInv

-----------------------------------------------------------------------------
(* Sequences.                                                              *)
LEMMA SeqOf ==
  ASSUME NEW s, NEW n, Size(s, n)
  PROVE  \E S : s \in Seq(S) /\ Len(s) = n /\ n \in Nat
<1> DEFINE S == {s[i] : i \in 1..n}
<1>1. s \in [1..n -> S] /\ n \in Nat /\ Len(s) = n
  BY DEF Size
<1>2. s \in Seq(S)
  BY <1>1
<1>3. QED
  BY <1>1, <1>2

LEMMA SeqIs ==
  ASSUME NEW S, NEW s \in Seq(S), NEW n, Len(s) = n
  PROVE  Size(s, n)
<1>1. Len(s) \in Nat /\ DOMAIN s = 1..Len(s)
  OBVIOUS
<1>2. s \in [1..Len(s) -> S]
  OBVIOUS
<1>3. QED
  BY <1>1, <1>2 DEF Size

(* The n words of s from place a + 1 on are those of t from b + 1 on.      *)
Copy(s, a, t, b, n) == \A i \in 1..n : s[a + i] = t[b + i]

LEMMA Cat ==
  ASSUME NEW s, NEW t, NEW n, NEW m, Size(s, n), Size(t, m), NEW u, u = s \o t
  PROVE  Size(u, n + m) /\ Copy(u, 0, s, 0, n) /\ Copy(u, n, t, 0, m)
<1>1. PICK S : s \in Seq(S) /\ Len(s) = n /\ n \in Nat
  BY SeqOf
<1>2. PICK T : t \in Seq(T) /\ Len(t) = m /\ m \in Nat
  BY SeqOf
<1>3. s \in Seq(S \cup T) /\ t \in Seq(S \cup T)
  BY <1>1, <1>2
<1>4. s \o t \in Seq(S \cup T)
  BY <1>3
<1>5. /\ Len(s \o t) = n + m
      /\ \A i \in 1..(n + m) : (s \o t)[i] = IF i <= n THEN s[i] ELSE t[i - n]
  BY <1>1, <1>2, <1>3, ConcatProperties
<1>6. Size(u, n + m)
  BY <1>4, <1>5, SeqIs
<1>7. QED
  BY <1>1, <1>2, <1>5, <1>6 DEF Copy

LEMMA Rest ==
  ASSUME NEW s, NEW n \in Nat, NEW m \in Nat, Size(s, n + m), NEW d, d = Drop(s, n)
  PROVE  Size(d, m) /\ Copy(d, 0, s, n, m)
<1>1. PICK S : s \in Seq(S) /\ Len(s) = n + m
  BY SeqOf
<1>2. /\ SubSeq(s, n + 1, n + m) \in Seq(S)
      /\ Len(SubSeq(s, n + 1, n + m)) = m
      /\ \A i \in 1..m : SubSeq(s, n + 1, n + m)[i] = s[n + i]
  <2>1. /\ n + 1 \in 1..(Len(s) + 1) /\ n + m \in 0..Len(s)
    BY <1>1
  <2>2. /\ SubSeq(s, n + 1, n + m) \in Seq(S)
        /\ Len(SubSeq(s, n + 1, n + m)) =
             IF n + 1 <= n + m THEN (n + m) - (n + 1) + 1 ELSE 0
        /\ \A i \in 1..((n + m) - (n + 1) + 1) :
             SubSeq(s, n + 1, n + m)[i] = s[(n + 1) + i - 1]
    BY <1>1, <2>1, SubSeqProperties
  <2>3. Len(SubSeq(s, n + 1, n + m)) = m
    BY <2>2
  <2>4. \A i \in 1..m : SubSeq(s, n + 1, n + m)[i] = s[n + i]
    BY <2>2
  <2>5. QED
    BY <2>2, <2>3, <2>4
<1>3. d = SubSeq(s, n + 1, n + m)
  BY <1>1 DEF Drop
<1>4. Size(d, m)
  BY <1>2, <1>3, SeqIs
<1>5. Copy(d, 0, s, n, m)
  BY <1>2, <1>3 DEF Copy
<1>6. QED
  BY <1>4, <1>5

LEMMA TailIs ==
  ASSUME NEW s, NEW m \in Nat, Size(s, m + 1), NEW d, d = Tail(s)
  PROVE  Size(d, m) /\ Copy(d, 0, s, 1, m) /\ Head(s) = s[1]
<1>1. PICK S : s \in Seq(S) /\ Len(s) = m + 1
  BY SeqOf
<1>2. s # << >>
  BY <1>1
<1>3. d \in Seq(S)
  BY <1>1, <1>2
<1>4. Len(d) = m /\ Head(s) = s[1] /\ \A i \in 1..m : d[i] = s[i + 1]
  BY <1>1, <1>2
<1>5. Size(d, m)
  BY <1>3, <1>4, SeqIs
<1>6. QED
  BY <1>4, <1>5 DEF Copy

LEMMA FunctionIs ==
  ASSUME NEW s, NEW n \in Nat, s = [i \in 1..n |-> s[i]]
  PROVE  Size(s, n)
<1> DEFINE S == {s[i] : i \in 1..n}
<1>1. s \in [1..n -> S]
  OBVIOUS
<1>2. s \in Seq(S) /\ Len(s) = n
  BY <1>1
<1>3. QED
  BY <1>2, SeqIs

LEMMA OneWord ==
  ASSUME NEW w
  PROVE  Size(<<w>>, 1) /\ <<w>>[1] = w
<1>1. <<w>> \in Seq({w}) /\ Len(<<w>>) = 1 /\ <<w>>[1] = w
  OBVIOUS
<1>2. QED
  BY <1>1, SeqIs

LEMMA NoWord == Size(<< >>, 0)
<1>1. << >> \in Seq({}) /\ Len(<< >>) = 0
  OBVIOUS
<1>2. QED
  BY <1>1, SeqIs

-----------------------------------------------------------------------------
(* Pushing and popping.                                                    *)
LEMMA Orders ==
  /\ DOMAIN CalleeSaved = 1..6 /\ Len(CalleeSaved) = 6
  /\ DOMAIN AllRegs = 1..15 /\ Len(AllRegs) = 15
  /\ \A i, j \in 1..6 : CalleeSaved[i] = CalleeSaved[j] => i = j
  /\ \A i, j \in 1..15 : AllRegs[i] = AllRegs[j] => i = j
  /\ Names(CalleeSaved) \subseteq Regs
<1>1. DOMAIN CalleeSaved = 1..6 /\ Len(CalleeSaved) = 6
  BY DEF CalleeSaved
<1>2. DOMAIN AllRegs = 1..15 /\ Len(AllRegs) = 15
  BY DEF AllRegs
<1>3. \A i, j \in 1..6 : CalleeSaved[i] = CalleeSaved[j] => i = j
  BY DEF CalleeSaved
<1>4. \A i, j \in 1..15 : AllRegs[i] = AllRegs[j] => i = j
  BY DEF AllRegs
<1>5. Names(CalleeSaved) \subseteq Regs
  <2>1. \A i \in 1..6 : CalleeSaved[i] \in {AllRegs[7], AllRegs[2], AllRegs[12],
                                            AllRegs[13], AllRegs[14], AllRegs[15]}
    BY DEF CalleeSaved, AllRegs
  <2>2. QED
    BY <1>1, <1>2, <2>1 DEF Regs, Names
<1>6. QED
  BY <1>1, <1>2, <1>3, <1>4, <1>5

(* The first n words of s are these registers of the file, the last one    *)
(* that is pushed first.                                                   *)
Distinct(order, n) == \A i, j \in 1..n : order[i] = order[j] => i = j
ReadBack(file, order, n, s) == \A i \in 1..n : file[order[n + 1 - i]] = s[i]

(* The last register pushed is the first word, and is popped first.        *)
LEMMA PushOrder ==
  ASSUME NEW s, NEW m, Size(s, m), NEW order, NEW n \in Nat,
         Len(order) = n, DOMAIN order = 1..n, NEW t, t = Pushed(s, order)
  PROVE  Size(t, n + m) /\ ReadBack(regs, order, n, t) /\ Copy(t, n, s, 0, m)
<1> DEFINE f == [i \in 1..n |-> regs[order[n + 1 - i]]]
<1>1. Size(f, n)
  BY FunctionIs
<1>2. t = f \o s
  BY DEF Pushed
<1>3. \A i \in 1..n : f[i] = regs[order[n + 1 - i]]
  OBVIOUS
<1> HIDE DEF f
<1>4. Size(t, n + m) /\ Copy(t, 0, f, 0, n) /\ Copy(t, n, s, 0, m)
  BY <1>1, <1>2, Cat
<1>5. ReadBack(regs, order, n, t)
  BY <1>3, <1>4 DEF ReadBack, Copy
<1>6. QED
  BY <1>4, <1>5

LEMMA PushAll ==
  ASSUME NEW s, NEW m, Size(s, m), NEW t, t = Pushed(s, AllRegs)
  PROVE  Size(t, 15 + m) /\ RegsIn(t, 0, regs) /\ Copy(t, 15, s, 0, m)
<1>1. Len(AllRegs) = 15 /\ DOMAIN AllRegs = 1..15 /\ 15 \in Nat
  BY Orders
<1>2. Size(t, 15 + m) /\ ReadBack(regs, AllRegs, 15, t) /\ Copy(t, 15, s, 0, m)
  BY <1>1, PushOrder
<1>3. RegsIn(t, 0, regs)
  BY <1>2 DEF ReadBack, RegsIn
<1>4. QED
  BY <1>2, <1>3

LEMMA PushCallee ==
  ASSUME NEW s, NEW m, Size(s, m), NEW t, t = Pushed(s, CalleeSaved)
  PROVE  /\ Size(t, 6 + m) /\ Copy(t, 6, s, 0, m)
         /\ \A i \in 1..6 : regs[CalleeSaved[7 - i]] = t[i]
<1>1. Len(CalleeSaved) = 6 /\ DOMAIN CalleeSaved = 1..6 /\ 6 \in Nat
  BY Orders
<1>2. Size(t, 6 + m) /\ ReadBack(regs, CalleeSaved, 6, t) /\ Copy(t, 6, s, 0, m)
  BY <1>1, PushOrder
<1>3. QED
  BY <1>2 DEF ReadBack

LEMMA PopOrder ==
  ASSUME NEW s, NEW order, NEW n \in Nat, Len(order) = n, DOMAIN order = 1..n,
         Distinct(order, n), Names(order) \subseteq Regs
  PROVE  /\ DOMAIN Popped(s, order) = Regs
         /\ ReadBack(Popped(s, order), order, n, s)
         /\ \A r \in Regs \ Names(order) : Popped(s, order)[r] = regs[r]
<1>1. DOMAIN Popped(s, order) = Regs
  BY DEF Popped
<1>2. \A r \in Regs \ Names(order) : Popped(s, order)[r] = regs[r]
  BY DEF Popped
<1>3. ASSUME NEW i \in 1..n
      PROVE  Popped(s, order)[order[n + 1 - i]] = s[i]
  <2> DEFINE r == order[n + 1 - i]
             k == CHOOSE j \in DOMAIN order : order[Len(order) + 1 - j] = r
  <2>1. n + 1 - i \in 1..n
    OBVIOUS
  <2>2. r \in Names(order)
    BY <2>1 DEF Names
  <2>3. \E j \in 1..n : order[n + 1 - j] = r
    BY <1>3
  <2>4. k \in 1..n /\ order[n + 1 - k] = r
    BY <2>3
  <2>5. n + 1 - k \in 1..n
    BY <2>4
  <2>6. n + 1 - k = n + 1 - i
    BY <2>1, <2>4, <2>5 DEF Distinct
  <2>7. k = i
    BY <2>4, <2>6
  <2>8. Popped(s, order)[r] = s[k]
    BY <2>2 DEF Popped
  <2>9. QED
    BY <2>7, <2>8
<1>4. ReadBack(Popped(s, order), order, n, s)
  BY <1>3 DEF ReadBack
<1>5. QED
  BY <1>1, <1>2, <1>4

LEMMA PopAll ==
  ASSUME NEW s
  PROVE  \A i \in 1..15 : Popped(s, AllRegs)[AllRegs[16 - i]] = s[i]
<1>1. Names(AllRegs) \subseteq Regs
  BY DEF Regs
<1>2. Distinct(AllRegs, 15)
  BY Orders DEF Distinct
<1>3. Len(AllRegs) = 15 /\ DOMAIN AllRegs = 1..15 /\ 15 \in Nat
  BY Orders
<1>4. ReadBack(Popped(s, AllRegs), AllRegs, 15, s)
  BY <1>1, <1>2, <1>3, PopOrder
<1>5. QED
  BY <1>4 DEF ReadBack

LEMMA PopCallee ==
  ASSUME NEW s
  PROVE  \A i \in 1..6 : Popped(s, CalleeSaved)[CalleeSaved[7 - i]] = s[i]
<1>1. Names(CalleeSaved) \subseteq Regs
  BY Orders
<1>2. Distinct(CalleeSaved, 6)
  BY Orders DEF Distinct
<1>3. Len(CalleeSaved) = 6 /\ DOMAIN CalleeSaved = 1..6 /\ 6 \in Nat
  BY Orders
<1>4. ReadBack(Popped(s, CalleeSaved), CalleeSaved, 6, s)
  BY <1>1, <1>2, <1>3, PopOrder
<1>5. QED
  BY <1>4 DEF ReadBack

LEMMA PushWord ==
  ASSUME NEW w, NEW s, NEW m, Size(s, m), NEW t, t = <<w>> \o s
  PROVE  Size(t, m + 1) /\ t[1] = w /\ Copy(t, 1, s, 0, m)
<1>1. Size(<<w>>, 1) /\ <<w>>[1] = w /\ m \in Nat
  BY OneWord DEF Size
<1>2. Size(t, 1 + m) /\ Copy(t, 0, <<w>>, 0, 1) /\ Copy(t, 1, s, 0, m)
  BY <1>1, Cat
<1>3. t[1] = w
  BY <1>1, <1>2 DEF Copy
<1>4. 1 + m = m + 1
  BY <1>1
<1>5. QED
  BY <1>2, <1>3, <1>4

(* All of s from place b + 1 on is all of t from place a + 1 on; what lies *)
(* there keeps its shape.                                                  *)
Moved(s, b, t, a) ==
  \E m \in Nat : Size(s, b + m) /\ Size(t, a + m) /\ Copy(t, a, s, b, m)

LEMMA Shift ==
  ASSUME NEW s, NEW t, NEW a \in Nat, NEW b \in Nat, Moved(s, b, t, a),
         NEW x, NEW file, NEW p \in Nat, NEW q \in Nat, p >= b, q - a = p - b
  PROVE  /\ Under(x, s, p) => Under(x, t, q)
         /\ IsrFrame(x, s, file, p) => IsrFrame(x, t, file, q)
         /\ YieldFrame(x, s, file, p) => YieldFrame(x, t, file, q)
<1> PICK m \in Nat, k \in Nat, l \in Nat :
      k = b + m /\ l = a + m /\ Size(s, k) /\ Size(t, l) /\ Copy(t, a, s, b, m)
  BY DEF Moved
<1>0. ASSUME NEW u \in Nat, NEW v \in Nat, u > b, v - a = u - b, u <= k
      PROVE  t[v] = s[u]
  <2>1. PICK i \in 1..m : i = u - b
    BY <1>0
  <2>2. t[a + i] = s[b + i]
    BY DEF Copy
  <2>3. a + i = v /\ b + i = u
    BY <1>0, <2>1
  <2>4. QED
    BY <2>2, <2>3
<1>1. ASSUME NEW u \in Nat, NEW v \in Nat, u >= b, v - a = u - b, Under(x, s, u)
      PROVE  Under(x, t, v)
  <2>1. PICK z \in {0, 1} : z = Below(x)
    BY DEF Below
  <2>2. k = u + z
    BY <1>1, <2>1 DEF Under, Size
  <2>3. l = v + z
    BY <1>1, <2>2
  <2>4. ASSUME x \in Tasks PROVE t[v + 1] = "task_exit"
    <3>1. z = 1
      BY <2>1, <2>4 DEF Below
    <3>2. t[v + 1] = s[u + 1]
      <4>1. /\ u + 1 \in Nat /\ v + 1 \in Nat /\ u + 1 > b
            /\ (v + 1) - a = (u + 1) - b /\ u + 1 <= k
        BY <1>1, <2>2, <3>1
      <4>2. QED
        BY <1>0, <4>1
    <3>3. QED
      BY <1>1, <2>4, <3>2 DEF Under
  <2>5. QED
    BY <2>1, <2>3, <2>4 DEF Under
<1>2. ASSUME NEW u \in Nat, NEW v \in Nat, u >= b, v - a = u - b, IsrFrame(x, s, file, u)
      PROVE  IsrFrame(x, t, file, v)
  <2>1. Under(x, s, u + 16)
    BY <1>2 DEF IsrFrame
  <2>2. Under(x, t, v + 16)
    <3>1. /\ u + 16 \in Nat /\ v + 16 \in Nat /\ u + 16 >= b
          /\ (v + 16) - a = (u + 16) - b
      BY <1>2
    <3>2. QED
      BY <1>1, <2>1, <3>1
  <2>3. u + 16 <= k
    BY <2>1 DEF Under, Below, Size
  <2>4. ASSUME NEW i \in 1..16 PROVE t[v + i] = s[u + i]
    <3>1. /\ u + i \in Nat /\ v + i \in Nat /\ u + i > b
          /\ (v + i) - a = (u + i) - b /\ u + i <= k
      BY <1>2, <2>3
    <3>2. QED
      BY <1>0, <3>1
  <2>5. t[v + 16] = "run"
    BY <1>2, <2>4 DEF IsrFrame
  <2>6. ASSUME NEW i \in 1..15 PROVE t[v + i] = file[AllRegs[16 - i]]
    <3>1. s[u + i] = file[AllRegs[16 - i]]
      BY <1>2 DEF IsrFrame, RegsIn
    <3>2. i \in 1..16
      OBVIOUS
    <3>3. QED
      BY <2>4, <3>1, <3>2
  <2>7. QED
    BY <2>2, <2>5, <2>6 DEF IsrFrame, RegsIn
<1>3. ASSUME YieldFrame(x, s, file, p)
      PROVE  YieldFrame(x, t, file, q)
  <2>1. PICK u \in Nat, v \in Nat : u = p + 1 /\ v = q + 1
    OBVIOUS
  <2>2. u > b /\ v - a = u - b
    BY <2>1
  <2>3. u <= k
    BY <1>3, <2>1 DEF YieldFrame, IsrFrame, Under, Below, Size
  <2>4. t[v] = s[u]
    BY <1>0, <2>2, <2>3
  <2>5. CASE Under(x, s, u) /\ s[u] = "run" /\ CallerAny(file)
    <3>1. Under(x, t, v)
      BY <1>1, <2>2, <2>5
    <3>2. QED
      BY <2>1, <2>4, <2>5, <3>1 DEF YieldFrame
  <2>6. CASE s[u] = "isr_pop" /\ IsrFrame(x, s, file, u)
    <3>1. IsrFrame(x, t, file, v)
      BY <1>2, <2>2, <2>6
    <3>2. QED
      BY <2>1, <2>4, <2>6, <3>1 DEF YieldFrame
  <2>7. QED
    BY <1>3, <2>1, <2>5, <2>6 DEF YieldFrame
<1>4. Under(x, s, p) => Under(x, t, q)
  BY <1>1
<1>5. IsrFrame(x, s, file, p) => IsrFrame(x, t, file, q)
  BY <1>2
<1>6. QED
  BY <1>3, <1>4, <1>5

LEMMA ShiftUnder ==
  ASSUME NEW s, NEW t, NEW a \in Nat, NEW b \in Nat, Moved(s, b, t, a),
         NEW x, NEW p \in Nat, NEW q \in Nat, p >= b, q - a = p - b, Under(x, s, p)
  PROVE  Under(x, t, q)
<1>1. Under(x, s, p) => Under(x, t, q)
  BY Shift
<1>2. QED
  BY <1>1

LEMMA ShiftIsr ==
  ASSUME NEW s, NEW t, NEW a \in Nat, NEW b \in Nat, Moved(s, b, t, a), NEW x, NEW file,
         NEW p \in Nat, NEW q \in Nat, p >= b, q - a = p - b, IsrFrame(x, s, file, p)
  PROVE  IsrFrame(x, t, file, q)
BY Shift

LEMMA ShiftYield ==
  ASSUME NEW s, NEW t, NEW a \in Nat, NEW b \in Nat, Moved(s, b, t, a), NEW x, NEW file,
         NEW p \in Nat, NEW q \in Nat, p >= b, q - a = p - b, YieldFrame(x, s, file, p)
  PROVE  YieldFrame(x, t, file, q)
BY Shift

(* The contexts that do not execute, when a step changes only the stack    *)
(* and the registers of the one that does.                                 *)
LEMMA OtherFrames ==
  ASSUME IInv, on' = on, DOMAIN stack' = Contexts, DOMAIN want' = Contexts,
         \A x \in Contexts \ {on} : stack'[x] = stack[x] /\ want'[x] = want[x]
  PROVE  \A x \in Contexts \ {on'} : SavedFrame(x, stack'[x], want'[x])
BY DEF IInv, FrameInv

-----------------------------------------------------------------------------
LEMMA InitIInv == Init => IInv
<1> SUFFICES ASSUME Init PROVE IInv
  OBVIOUS
<1>1. TypeOK
  BY DEF TypeOK, Init, Contexts, File
<1>2. ASSUME NEW x \in Contexts \ {on}
      PROVE  SavedFrame(x, stack[x], want[x])
  <2>1. x \in Tasks /\ stack[x] = TaskFrame(x)
    BY DEF Init, Contexts
  <2>2. Size(TaskFrame(x), 8)
    <3>1. TaskFrame(x) \in Seq({"0", Value(x, "entry", 0), Value(x, "arg", 0),
                                "task_trampoline", "task_exit"})
      BY DEF TaskFrame
    <3>2. Len(TaskFrame(x)) = 8
      BY DEF TaskFrame
    <3>3. QED
      BY <3>1, <3>2, SeqIs
  <2>3. TaskFrame(x)[7] = "task_trampoline" /\ TaskFrame(x)[8] = "task_exit"
    BY DEF TaskFrame
  <2>4. Under(x, stack[x], 7)
    BY <2>1, <2>2, <2>3 DEF Under, Below
  <2>5. AllAny(want[x])
    BY <1>2, <2>1 DEF Init, AllAny
  <2>6. QED
    BY <2>1, <2>3, <2>4, <2>5 DEF SavedFrame
<1>3. Under(on, stack[on], 0)
  <2>1. stack[on] = << >> /\ on \notin Tasks
    BY ContextSwitchAssumption DEF Init, Contexts
  <2>2. QED
    BY <2>1, NoWord DEF Under, Below
<1>4. Kept
  BY DEF Init, Kept, Contexts
<1>5. pc = "run" /\ report = None
  BY DEF Init
<1>6. FrameInv
  BY <1>2, <1>3, <1>4, <1>5 DEF FrameInv
<1>7. ExceptionInv
  BY <1>5 DEF ExceptionInv, ExceptionReported, KnownVectors
<1>8. QED
  BY <1>1, <1>6, <1>7 DEF IInv

LEMMA ComputeIInv == ASSUME IInv, NEW v \in Versions, Compute(v) PROVE IInv'
<1>1. on \in Contexts /\ stack' = stack /\ on' = on /\ pc = "run" /\ pc' = "run"
  BY DEF Compute, IInv, TypeOK
<1>2. regs' = [r \in Regs |-> Value(on, r, v)]
  BY DEF Compute, File
<1>3. want' = [want EXCEPT ![on] = regs']
  BY DEF Compute
<1>4. TypeOK'
  BY <1>1, <1>2, <1>3 DEF IInv, TypeOK
<1>5. \A x \in Contexts \ {on'} : SavedFrame(x, stack'[x], want'[x])
  BY <1>1, <1>3, OtherFrames DEF IInv, TypeOK
<1>6. Under(on', stack'[on'], 0)
  BY <1>1 DEF IInv, FrameInv
<1>7. Kept'
  BY <1>1, <1>2, <1>3 DEF IInv, TypeOK, Kept
<1>8. FrameInv'
  BY <1>1, <1>5, <1>6, <1>7 DEF FrameInv
<1>9. ExceptionInv'
  BY <1>1 DEF IInv, ExceptionInv, ExceptionReported, KnownVectors, Compute, exceptionVars
<1>10. QED
  BY <1>4, <1>8, <1>9 DEF IInv

LEMMA YieldIInv == ASSUME IInv, scheduler_yield PROVE IInv'
<1>1. on \in Contexts /\ on' = on /\ pc = "run" /\ pc' = "yield"
  BY DEF scheduler_yield, IInv, TypeOK
<1>2. PICK s, t : s = stack[on] /\ t = <<"run">> \o s
  OBVIOUS
<1>3. stack' = [stack EXCEPT ![on] = t]
  BY <1>2 DEF scheduler_yield
<1>4. regs' = [r \in Regs |-> IF r \in Names(CalleeSaved) THEN regs[r] ELSE Any]
  BY DEF scheduler_yield, Clobbered
<1>5. want' = [want EXCEPT ![on] = regs']
  BY DEF scheduler_yield
<1>6. TypeOK'
  BY <1>1, <1>3, <1>4, <1>5 DEF IInv, TypeOK
<1>7. \A x \in Contexts \ {on'} : SavedFrame(x, stack'[x], want'[x])
  BY <1>1, <1>3, <1>5, OtherFrames DEF IInv, TypeOK
<1>8. Under(on, s, 0)
  BY <1>1, <1>2 DEF IInv, FrameInv
<1>9. stack'[on'] = t /\ want'[on'] = regs'
  BY <1>1, <1>3, <1>5 DEF IInv, TypeOK
<1>10. Under(on, t, 1) /\ t[1] = "run"
  <2>1. PICK m \in Nat : m = Below(on) /\ Size(s, m)
    BY <1>8 DEF Under, Below
  <2>2. Size(t, m + 1) /\ t[1] = "run" /\ Copy(t, 1, s, 0, m)
    BY <1>2, <2>1, PushWord
  <2>3. Moved(s, 0, t, 1)
    BY <2>1, <2>2 DEF Moved
  <2>4. QED
    BY <1>8, <2>2, <2>3, ShiftUnder
<1>11. CallerAny(want'[on'])
  BY <1>4, <1>9 DEF CallerAny
<1>12. YieldFrame(on', stack'[on'], want'[on'], 0)
  BY <1>1, <1>9, <1>10, <1>11 DEF YieldFrame
<1>13. Kept'
  BY <1>1, <1>9 DEF Kept
<1>14. FrameInv'
  BY <1>1, <1>7, <1>12, <1>13 DEF FrameInv
<1>15. ExceptionInv'
  BY <1>1 DEF IInv, ExceptionInv, ExceptionReported, KnownVectors, scheduler_yield, exceptionVars
<1>16. QED
  BY <1>6, <1>14, <1>15 DEF IInv

(* What an interrupt entry leaves on the stack of the code it interrupts.  *)
LEMMA EntryPushes ==
  ASSUME IInv, pc = "run", NEW s, s = Pushed(<<"run">> \o stack[on], AllRegs)
  PROVE  IsrFrame(on, s, regs, 0)
<1>1. PICK r, t : r = stack[on] /\ t = <<"run">> \o r
  OBVIOUS
<1>2. PICK m \in Nat : m = Below(on) /\ Size(r, m)
  BY <1>1 DEF IInv, FrameInv, Under, Below
<1>3. Size(t, m + 1) /\ t[1] = "run" /\ Copy(t, 1, r, 0, m)
  BY <1>1, <1>2, PushWord
<1>4. Size(s, 15 + (m + 1)) /\ RegsIn(s, 0, regs) /\ Copy(s, 15, t, 0, m + 1)
  BY <1>1, <1>3, PushAll
<1>5. s[16] = "run"
  <2>1. s[15 + 1] = t[0 + 1]
    BY <1>2, <1>4 DEF Copy
  <2>2. QED
    BY <1>3, <2>1
<1>6. Under(on, s, 16)
  <2>1. Moved(r, 0, t, 1)
    BY <1>2, <1>3 DEF Moved
  <2>2. Under(on, r, 0)
    BY <1>1 DEF IInv, FrameInv
  <2>3. Under(on, t, 1)
    BY <2>1, <2>2, ShiftUnder
  <2>4. Moved(t, 0, s, 15)
    BY <1>2, <1>3, <1>4 DEF Moved
  <2>5. QED
    BY <2>3, <2>4, ShiftUnder
<1>7. QED
  BY <1>4, <1>5, <1>6 DEF IsrFrame

LEMMA TimerIInv == ASSUME IInv, isr_timer PROVE IInv'
<1>1. on \in Contexts /\ on' = on /\ pc = "run" /\ pc' = "yield"
  BY DEF isr_timer, IInv, TypeOK
<1>2. PICK s : s = Pushed(<<"run">> \o stack[on], AllRegs)
  OBVIOUS
<1>3. PICK t : t = <<"isr_pop">> \o s
  OBVIOUS
<1>4. stack' = [stack EXCEPT ![on] = t]
  BY <1>2, <1>3 DEF isr_timer
<1>5. regs' = [r \in Regs |-> regs'[r]]
  BY DEF isr_timer, Clobbered
<1>6. want' = [want EXCEPT ![on] = regs]
  BY DEF isr_timer
<1>7. TypeOK'
  BY <1>1, <1>4, <1>5, <1>6 DEF IInv, TypeOK
<1>8. \A x \in Contexts \ {on'} : SavedFrame(x, stack'[x], want'[x])
  BY <1>1, <1>4, <1>6, OtherFrames DEF IInv, TypeOK
<1>9. stack'[on'] = t /\ want'[on'] = regs
  BY <1>1, <1>4, <1>6 DEF IInv, TypeOK
<1>10. IsrFrame(on, s, regs, 0)
  BY <1>1, <1>2, EntryPushes
<1>11. PICK m \in Nat : Size(s, m)
  BY <1>10 DEF IsrFrame, Under, Below, Size
<1>12. Size(t, m + 1) /\ t[1] = "isr_pop" /\ Copy(t, 1, s, 0, m)
  BY <1>3, <1>11, PushWord
<1>13. IsrFrame(on, t, regs, 1)
  <2>1. Moved(s, 0, t, 1)
    BY <1>11, <1>12 DEF Moved
  <2>2. QED
    BY <1>10, <2>1, ShiftIsr
<1>14. YieldFrame(on', stack'[on'], want'[on'], 0) /\ stack'[on'][1] # "run"
  BY <1>1, <1>9, <1>12, <1>13 DEF YieldFrame
<1>15. FrameInv'
  BY <1>1, <1>8, <1>14 DEF FrameInv
<1>16. ExceptionInv'
  BY <1>1 DEF IInv, ExceptionInv, ExceptionReported, KnownVectors, isr_timer, exceptionVars
<1>17. QED
  BY <1>7, <1>15, <1>16 DEF IInv

LEMMA SpuriousIInv == ASSUME IInv, isr_spurious PROVE IInv'
<1>1. on \in Contexts /\ on' = on /\ pc = "run" /\ pc' = "isr_pop"
  BY DEF isr_spurious, IInv, TypeOK
<1>2. PICK s : s = Pushed(<<"run">> \o stack[on], AllRegs)
  OBVIOUS
<1>3. stack' = [stack EXCEPT ![on] = s]
  BY <1>2 DEF isr_spurious
<1>4. regs' = [r \in Regs |-> regs'[r]]
  BY DEF isr_spurious, Clobbered
<1>5. want' = [want EXCEPT ![on] = regs]
  BY DEF isr_spurious
<1>6. TypeOK'
  BY <1>1, <1>3, <1>4, <1>5 DEF IInv, TypeOK
<1>7. \A x \in Contexts \ {on'} : SavedFrame(x, stack'[x], want'[x])
  BY <1>1, <1>3, <1>5, OtherFrames DEF IInv, TypeOK
<1>8. stack'[on'] = s /\ want'[on'] = regs
  BY <1>1, <1>3, <1>5 DEF IInv, TypeOK
<1>9. IsrFrame(on, s, regs, 0)
  BY <1>1, <1>2, EntryPushes
<1>10. FrameInv'
  BY <1>1, <1>7, <1>8, <1>9 DEF FrameInv
<1>11. ExceptionInv'
  BY <1>1 DEF IInv, ExceptionInv, ExceptionReported, KnownVectors, isr_spurious, exceptionVars
<1>12. QED
  BY <1>6, <1>10, <1>11 DEF IInv

(* The words exception_handler takes for the vector and the error code.    *)
LEMMA CommonWords ==
  ASSUME IInv, KnownVectors, NEW v \in Vectors, NEW c \in ErrorCodes, isr_common(v, c)
  PROVE  /\ stack'[on'][16] = VectorWord(v) /\ stack'[on'][17] = CodeWord(c)
         /\ v \in exception_names
<1>1. /\ on \in Contexts /\ on' = on /\ pc = "run" /\ pc' = "exception_handler"
      /\ regs' = regs /\ want' = want /\ report' = report
  BY DEF isr_common, IInv, TypeOK
<1>2. PICK u : u = IF v \in CpuPushesCode THEN <<CodeWord(c)>> ELSE << >>
  OBVIOUS
<1>3. PICK t : t = IF v \in isr_err THEN << >> ELSE <<CodeWord(0)>>
  OBVIOUS
<1>4. PICK w : w = <<VectorWord(v)>> \o t \o u \o <<"run">> \o stack[on]
  OBVIOUS
<1>5. stack' = [stack EXCEPT ![on] = Pushed(w, AllRegs)]
  BY <1>2, <1>3, <1>4 DEF isr_common
<1>6. v \in 0..31 /\ v # 29 /\ v # 31
  BY ContextSwitchAssumption DEF KnownVectors
<1>7. \/ t = << >> /\ u = <<CodeWord(c)>>
      \/ t = <<CodeWord(c)>> /\ u = << >>
  <2>1. CASE v \in isr_err
    <3>1. v \in CpuPushesCode
      BY <2>1 DEF isr_err, CpuPushesCode
    <3>2. QED
      BY <1>2, <1>3, <2>1, <3>1
  <2>2. CASE v \notin isr_err
    <3>1. v \notin CpuPushesCode
      BY <1>6, <2>2 DEF isr_err, CpuPushesCode
    <3>2. c = 0
      BY <3>1 DEF isr_common
    <3>3. QED
      BY <1>2, <1>3, <2>2, <3>1, <3>2
  <2>3. QED
    BY <2>1, <2>2
<1>8. PICK k \in Nat : Size(w, 3 + k) /\ w[1] = VectorWord(v) /\ w[2] = CodeWord(c)
  <2>1. PICK a, b, d : a = <<VectorWord(v)>> \o t /\ b = a \o u /\ d = b \o <<"run">>
    OBVIOUS
  <2>2. Size(b, 2) /\ b[1] = VectorWord(v) /\ b[2] = CodeWord(c)
    <3>1. CASE t = << >> /\ u = <<CodeWord(c)>>
      <4>1. Size(t, 0) /\ Size(u, 1) /\ u[1] = CodeWord(c)
        BY <3>1, NoWord, OneWord
      <4>2. Size(a, 0 + 1) /\ a[1] = VectorWord(v)
        BY <2>1, <4>1, PushWord
      <4>3. Size(a, 1)
        BY <4>2
      <4>4. Size(b, 1 + 1) /\ Copy(b, 0, a, 0, 1) /\ Copy(b, 1, u, 0, 1)
        BY <2>1, <4>1, <4>3, Cat
      <4>5. b[0 + 1] = a[0 + 1] /\ b[1 + 1] = u[0 + 1]
        BY <4>4 DEF Copy
      <4>6. QED
        BY <4>1, <4>2, <4>4, <4>5
    <3>2. CASE t = <<CodeWord(c)>> /\ u = << >>
      <4>1. Size(t, 1) /\ Size(u, 0) /\ t[1] = CodeWord(c)
        BY <3>2, NoWord, OneWord
      <4>2. Size(a, 1 + 1) /\ a[1] = VectorWord(v) /\ Copy(a, 1, t, 0, 1)
        BY <2>1, <4>1, PushWord
      <4>3. Size(a, 2)
        BY <4>2
      <4>4. Size(b, 2 + 0) /\ Copy(b, 0, a, 0, 2)
        BY <2>1, <4>1, <4>3, Cat
      <4>5. b[0 + 1] = a[0 + 1] /\ b[0 + 2] = a[0 + 2] /\ a[1 + 1] = t[0 + 1]
        BY <4>2, <4>4 DEF Copy
      <4>6. QED
        BY <4>1, <4>2, <4>4, <4>5
    <3>3. QED
      BY <1>7, <3>1, <3>2
  <2>3. Size(d, 2 + 1) /\ Copy(d, 0, b, 0, 2)
    <3>1. Size(<<"run">>, 1)
      BY OneWord
    <3>2. QED
      BY <2>1, <2>2, <3>1, Cat
  <2>4. PICK k \in Nat : Size(stack[on], k)
    BY <1>1 DEF IInv, FrameInv, Under, Below, Size
  <2>5. w = d \o stack[on]
    BY <1>4, <2>1
  <2>6. Size(d, 3)
    BY <2>3
  <2>7. Size(w, 3 + k) /\ Copy(w, 0, d, 0, 3)
    BY <2>4, <2>5, <2>6, Cat
  <2>8. w[0 + 1] = d[0 + 1] /\ w[0 + 2] = d[0 + 2] /\ d[0 + 1] = b[0 + 1] /\ d[0 + 2] = b[0 + 2]
    BY <2>3, <2>7 DEF Copy
  <2>9. QED
    BY <2>2, <2>7, <2>8
<1>9. PICK p : p = Pushed(w, AllRegs)
  OBVIOUS
<1>10. Copy(p, 15, w, 0, 3 + k)
  BY <1>8, <1>9, PushAll
<1>11. p[15 + 1] = w[0 + 1] /\ p[15 + 2] = w[0 + 2]
  BY <1>10 DEF Copy
<1>12. stack'[on'][16] = VectorWord(v) /\ stack'[on'][17] = CodeWord(c)
  BY <1>1, <1>5, <1>8, <1>9, <1>11 DEF IInv, TypeOK
<1>13. v \in exception_names
  BY <1>6 DEF exception_names
<1>14. QED
  BY <1>12, <1>13

LEMMA CommonIInv ==
  ASSUME IInv, NEW v \in Vectors, NEW c \in ErrorCodes, isr_common(v, c)
  PROVE  IInv'
<1>1. /\ on \in Contexts /\ on' = on /\ pc = "run" /\ pc' = "exception_handler"
      /\ regs' = regs /\ want' = want /\ report' = report
  BY DEF isr_common, IInv, TypeOK
<1>2. PICK s : stack' = [stack EXCEPT ![on] = s]
  BY DEF isr_common
<1>3. TypeOK'
  BY <1>1, <1>2 DEF IInv, TypeOK
<1>4. \A x \in Contexts \ {on'} : SavedFrame(x, stack'[x], want'[x])
  BY <1>1, <1>2, OtherFrames DEF IInv, TypeOK
<1>5. FrameInv'
  BY <1>1, <1>4 DEF FrameInv
<1>6. raised' = <<VectorWord(v), CodeWord(c)>> /\ report' = None
  BY <1>1 DEF isr_common, IInv, ExceptionInv
<1>7. KnownVectors => /\ raised' = <<stack'[on'][16], stack'[on'][17]>>
                      /\ stack'[on'][16] \in {VectorWord(u) : u \in exception_names}
  BY <1>6, CommonWords
<1>8. ExceptionInv'
  BY <1>1, <1>6, <1>7 DEF ExceptionInv, ExceptionReported, KnownVectors
<1>9. QED
  BY <1>3, <1>5, <1>8 DEF IInv

LEMMA HandlerIInv == ASSUME IInv, NEW rip, exception_handler(rip) PROVE IInv'
<1>1. /\ pc = "exception_handler" /\ pc' = "kpanic" /\ report = None
      /\ on' = on /\ regs' = regs /\ stack' = stack /\ want' = want /\ raised' = raised
  BY DEF exception_handler, IInv, ExceptionInv
<1>2. TypeOK'
  BY <1>1 DEF IInv, TypeOK
<1>3. \A x \in Contexts \ {on'} : SavedFrame(x, stack'[x], want'[x])
  BY <1>1, OtherFrames DEF IInv, TypeOK
<1>4. FrameInv'
  BY <1>1, <1>3 DEF FrameInv
<1>5. PICK a, b : a = stack[on][16] /\ b = stack[on][17]
  OBVIOUS
<1>6. report' = <<a, b, rip>>
  BY <1>5 DEF exception_handler
<1>7. KnownVectors => raised = <<a, b>> /\ a \in {VectorWord(v) : v \in exception_names}
  BY <1>1, <1>5 DEF IInv, ExceptionInv
<1>8. SubSeq(<<a, b, rip>>, 1, 2) = <<a, b>>
  <2>1. /\ <<a, b, rip>> \in Seq({a, b, rip}) /\ Len(<<a, b, rip>>) = 3
        /\ <<a, b, rip>>[1] = a /\ <<a, b, rip>>[2] = b
    OBVIOUS
  <2>2. /\ SubSeq(<<a, b, rip>>, 1, 2) \in Seq({a, b, rip})
        /\ Len(SubSeq(<<a, b, rip>>, 1, 2)) = 2
        /\ SubSeq(<<a, b, rip>>, 1, 2)[1] = a /\ SubSeq(<<a, b, rip>>, 1, 2)[2] = b
    BY <2>1, SubSeqProperties
  <2>3. /\ <<a, b>> \in Seq({a, b, rip}) /\ Len(<<a, b>>) = 2
        /\ <<a, b>>[1] = a /\ <<a, b>>[2] = b
    OBVIOUS
  <2>4. \A i \in 1..2 : SubSeq(<<a, b, rip>>, 1, 2)[i] = <<a, b>>[i]
    BY <2>2, <2>3
  <2>5. QED
    BY <2>2, <2>3, <2>4, SeqEqual
<1>9. report'[1] = a
  BY <1>6
<1>10. ExceptionInv'
  BY <1>1, <1>6, <1>7, <1>8, <1>9 DEF ExceptionInv, ExceptionReported, KnownVectors
<1>11. QED
  BY <1>2, <1>4, <1>10 DEF IInv

(* Nothing else was ready: back to the caller of scheduler_yield.          *)
LEMMA YieldReturnsIInv == ASSUME IInv, YieldReturns PROVE IInv'
<1>1. PICK s, t, file : s = stack[on] /\ t = Tail(s) /\ file = want[on]
  OBVIOUS
<1>2. /\ on \in Contexts /\ on' = on /\ pc = "yield"
      /\ regs' = regs /\ want' = want /\ pc' = Head(s)
      /\ stack' = [stack EXCEPT ![on] = t]
  BY <1>1 DEF YieldReturns, IInv, TypeOK
<1>3. YieldFrame(on, s, file, 0) /\ (s[1] = "run" => Kept)
  BY <1>1, <1>2 DEF IInv, FrameInv
<1>4. \A x \in Contexts \ {on'} : SavedFrame(x, stack'[x], want'[x])
  BY <1>2, OtherFrames DEF IInv, TypeOK
<1>5. stack'[on'] = t /\ want'[on'] = file
  BY <1>1, <1>2 DEF IInv, TypeOK
<1>6. PICK m \in Nat : Size(s, m + 1)
  <2>1. CASE Under(on, s, 0 + 1)
    BY <2>1 DEF Under, Below
  <2>2. CASE Under(on, s, 0 + 1 + 16)
    <3>1. CASE Size(s, 16 + 1)
      BY <3>1
    <3>2. CASE Size(s, 17 + 1)
      BY <3>2
    <3>3. QED
      BY <2>2, <3>1, <3>2 DEF Under, Below
  <2>3. QED
    BY <1>3, <2>1, <2>2 DEF YieldFrame, IsrFrame
<1>7. Size(t, m) /\ Copy(t, 0, s, 1, m) /\ Head(s) = s[1]
  BY <1>1, <1>6, TailIs
<1>8. Moved(s, 1, t, 0)
  BY <1>6, <1>7 DEF Moved
<1>9. /\ Under(on, s, 1) => Under(on, t, 0)
      /\ IsrFrame(on, s, file, 1) => IsrFrame(on, t, file, 0)
  BY <1>8, ShiftUnder, ShiftIsr
<1>10. /\ s[1] \in {"run", "isr_pop"}
       /\ s[1] = "run" => Under(on, t, 0)
       /\ s[1] = "isr_pop" => IsrFrame(on, t, file, 0)
  BY <1>3, <1>9 DEF YieldFrame
<1>11. pc' = s[1] /\ pc' \in {"run", "isr_pop"}
  BY <1>2, <1>7, <1>10
<1>12. TypeOK'
  BY <1>2, <1>11 DEF IInv, TypeOK
<1>13. s[1] = "run" => Kept'
  BY <1>2, <1>3 DEF Kept
<1>14. FrameInv'
  BY <1>2, <1>4, <1>5, <1>10, <1>11, <1>13 DEF FrameInv
<1>15. report' = None
  BY <1>2 DEF YieldReturns, exceptionVars, IInv, ExceptionInv
<1>16. ExceptionInv'
  BY <1>11, <1>15 DEF ExceptionInv, ExceptionReported, KnownVectors
<1>17. QED
  BY <1>12, <1>14, <1>16 DEF IInv

LEMMA IsrPopIInv == ASSUME IInv, IsrPop PROVE IInv'
<1>1. PICK s, t, file : s = stack[on] /\ t = Drop(s, 16) /\ file = want[on]
  OBVIOUS
<1>2. /\ on \in Contexts /\ on' = on /\ pc = "isr_pop" /\ want' = want
      /\ regs' = Popped(s, AllRegs) /\ pc' = s[16]
      /\ stack' = [stack EXCEPT ![on] = t]
  BY <1>1, Orders DEF IsrPop, IInv, TypeOK
<1>3. IsrFrame(on, s, file, 0)
  BY <1>1, <1>2 DEF IInv, FrameInv
<1>4. pc' = "run"
  BY <1>2, <1>3 DEF IsrFrame
<1>5. stack'[on'] = t /\ want'[on'] = file
  BY <1>1, <1>2 DEF IInv, TypeOK
<1>6. PICK m \in Nat : Size(s, 16 + m)
  BY <1>3 DEF IsrFrame, Under, Below
<1>7. Size(t, m) /\ Copy(t, 0, s, 16, m)
  BY <1>1, <1>6, Rest
<1>8. Under(on, t, 0)
  <2>1. Under(on, s, 16)
    BY <1>3 DEF IsrFrame
  <2>2. Moved(s, 16, t, 0)
    BY <1>6, <1>7 DEF Moved
  <2>3. PICK p \in Nat : p = 16
    OBVIOUS
  <2>4. Moved(s, p, t, 0) /\ Under(on, s, p)
    BY <2>1, <2>2, <2>3
  <2>5. QED
    BY <2>4, ShiftUnder
<1>9. Kept'
  <2>1. \A i \in 1..15 : Popped(s, AllRegs)[AllRegs[16 - i]] = s[i]
    BY PopAll
  <2>2. \A i \in 1..15 : s[i] = file[AllRegs[16 - i]]
    BY <1>3 DEF IsrFrame, RegsIn
  <2>3. ASSUME NEW r \in Regs PROVE file[r] = regs'[r]
    <3>1. PICK j \in 1..15 : r = AllRegs[j]
      BY Orders DEF Regs, Names
    <3>2. PICK i \in 1..15 : i = 16 - j /\ 16 - i = j
      OBVIOUS
    <3>3. QED
      BY <1>2, <2>1, <2>2, <3>1, <3>2
  <2>4. QED
    BY <1>5, <2>3 DEF Kept
<1>10. TypeOK'
  <2>1. regs' = [r \in Regs |-> regs'[r]]
    BY <1>2 DEF Popped
  <2>2. QED
    BY <1>2, <1>4, <2>1 DEF IInv, TypeOK
<1>11. \A x \in Contexts \ {on'} : SavedFrame(x, stack'[x], want'[x])
  BY <1>2, OtherFrames DEF IInv, TypeOK
<1>12. FrameInv'
  BY <1>2, <1>4, <1>5, <1>8, <1>9, <1>11 DEF FrameInv
<1>13. ExceptionInv'
  BY <1>2, <1>4 DEF IInv, ExceptionInv, ExceptionReported, KnownVectors, IsrPop, exceptionVars
<1>14. QED
  BY <1>10, <1>12, <1>13 DEF IInv

LEMMA TrampolineIInv == ASSUME IInv, task_trampoline PROVE IInv'
<1>1. /\ pc = "task_trampoline" /\ pc' = "run" /\ on' = on /\ regs' = regs
      /\ stack' = stack /\ want' = want /\ raised' = raised /\ report' = report
  BY DEF task_trampoline, exceptionVars
<1>2. TypeOK'
  BY <1>1 DEF IInv, TypeOK
<1>3. \A x \in Contexts \ {on'} : SavedFrame(x, stack'[x], want'[x])
  BY <1>1, OtherFrames DEF IInv, TypeOK
<1>4. Under(on', stack'[on'], 0) /\ Kept'
  BY <1>1 DEF IInv, FrameInv, AllAny, Kept
<1>5. FrameInv'
  BY <1>1, <1>3, <1>4 DEF FrameInv
<1>6. ExceptionInv'
  BY <1>1 DEF IInv, ExceptionInv, ExceptionReported, KnownVectors
<1>7. QED
  BY <1>2, <1>5, <1>6 DEF IInv

(* The context that is left gets six more words, the one that is resumed   *)
(* loses seven.                                                            *)
LEMMA SwitchIInv ==
  ASSUME IInv, NEW new \in Contexts, scheduler_context_switch(new)
  PROVE  IInv'
<1>1. PICK old, s, t, file, kept :
        /\ old = on /\ s = stack[old] /\ t = stack[new]
        /\ kept = want[old] /\ file = want[new]
  OBVIOUS
<1>2. PICK s2, t2 : s2 = Pushed(s, CalleeSaved) /\ t2 = Drop(t, 7)
  OBVIOUS
<1>3. /\ old \in Contexts /\ new # old /\ on' = new /\ pc = "yield" /\ want' = want
      /\ regs' = Popped(t, CalleeSaved) /\ pc' = t[7]
      /\ stack' = [stack EXCEPT ![old] = s2, ![new] = t2]
  BY <1>1, <1>2, Orders DEF scheduler_context_switch, IInv, TypeOK
<1>4. SavedFrame(new, t, file)
  BY <1>1, <1>3 DEF IInv, FrameInv
<1>5. YieldFrame(old, s, kept, 0) /\ (s[1] = "run" => Kept)
  BY <1>1, <1>3 DEF IInv, FrameInv
<1>6. /\ stack'[old] = s2 /\ stack'[new] = t2
      /\ \A x \in Contexts \ {old, new} : stack'[x] = stack[x]
  BY <1>3 DEF IInv, TypeOK
<1>7. SavedFrame(old, s2, kept)
  <2>1. PICK m \in Nat : Size(s, m) /\ m > 0
    <3>1. Under(old, s, 0 + 1) \/ Under(old, s, 0 + 1 + 16)
      BY <1>5 DEF YieldFrame, IsrFrame
    <3>2. QED
      BY <3>1 DEF Under, Below
  <2>2. /\ Size(s2, 6 + m) /\ Copy(s2, 6, s, 0, m)
        /\ \A i \in 1..6 : regs[CalleeSaved[7 - i]] = s2[i]
    BY <1>2, <2>1, PushCallee
  <2>3. Moved(s, 0, s2, 6)
    BY <2>1, <2>2 DEF Moved
  <2>4. YieldFrame(old, s2, kept, 6)
    BY <1>5, <2>3, ShiftYield
  <2>5. s2[6 + 1] = s[0 + 1]
    BY <2>1, <2>2 DEF Copy
  <2>6. ASSUME s2[7] = "run" PROVE CalleeIn(s2, kept)
    <3>1. Kept
      BY <1>5, <2>5, <2>6
    <3>2. \A i \in 1..6 : CalleeSaved[7 - i] \in Regs
      <4>1. \A i \in 1..6 : 7 - i \in 1..6
        OBVIOUS
      <4>2. QED
        BY <4>1, Orders DEF Names
    <3>3. \A i \in 1..6 : kept[CalleeSaved[7 - i]] \in {Any, regs[CalleeSaved[7 - i]]}
      BY <1>1, <3>1, <3>2 DEF Kept
    <3>4. QED
      BY <2>2, <3>3 DEF CalleeIn
  <2>7. QED
    BY <1>5, <2>4, <2>6 DEF SavedFrame
<1>8. \A x \in Contexts \ {on'} : SavedFrame(x, stack'[x], want'[x])
  BY <1>1, <1>3, <1>6, <1>7 DEF IInv, FrameInv
<1>9. PICK m \in Nat : Size(t, 7 + m)
  <2>1. Under(new, t, 6 + 1) \/ Under(new, t, 6 + 1 + 16) \/ Under(new, t, 7)
    BY <1>4 DEF SavedFrame, YieldFrame, IsrFrame
  <2>2. Size(t, 7 + 0) \/ Size(t, 7 + 1) \/ Size(t, 7 + 16) \/ Size(t, 7 + 17)
    BY <2>1 DEF Under, Below
  <2>3. QED
    BY <2>2
<1>10. Size(t2, m) /\ Copy(t2, 0, t, 7, m)
  BY <1>2, <1>9, Rest
<1>11. /\ Under(new, t, 7) => Under(new, t2, 0)
       /\ IsrFrame(new, t, file, 7) => IsrFrame(new, t2, file, 0)
  <2>1. Moved(t, 7, t2, 0)
    BY <1>9, <1>10 DEF Moved
  <2>2. PICK p \in Nat : p = 7
    OBVIOUS
  <2>3. Moved(t, p, t2, 0)
    BY <2>1, <2>2
  <2>4. ASSUME Under(new, t, p) PROVE Under(new, t2, 0)
    <3>1. 0 \in Nat /\ p >= p /\ 0 - 0 = p - p
      OBVIOUS
    <3>2. QED
      BY <2>3, <2>4, <3>1, ShiftUnder, Zenon
  <2>5. IsrFrame(new, t, file, p) => IsrFrame(new, t2, file, 0)
    BY <2>3, ShiftIsr
  <2>6. QED
    BY <2>2, <2>4, <2>5
<1>12. \A i \in 1..6 : regs'[CalleeSaved[7 - i]] = t[i]
  BY <1>3, PopCallee
<1>13. regs' = [r \in Regs |-> regs'[r]]
  BY <1>3 DEF Popped
<1>14. report' = None
  BY <1>3 DEF scheduler_context_switch, exceptionVars, IInv, ExceptionInv
<1>15. stack'[on'] = t2 /\ want'[on'] = file
  BY <1>1, <1>3, <1>6
<1>16. CASE t[7] = "run" /\ Under(new, t, 7) /\ CallerAny(file) /\ CalleeIn(t, file)
  <2>1. pc' = "run"
    BY <1>3, <1>16
  <2>2. Under(on', stack'[on'], 0)
    BY <1>3, <1>11, <1>15, <1>16
  <2>3. ASSUME NEW r \in Regs PROVE file[r] \in {Any, regs'[r]}
    <3>1. CASE r \notin Names(CalleeSaved)
      BY <1>16, <3>1 DEF CallerAny
    <3>2. CASE r \in Names(CalleeSaved)
      <4>1. PICK j \in 1..6 : r = CalleeSaved[j]
        BY <3>2, Orders DEF Names
      <4>2. PICK i \in 1..6 : i = 7 - j /\ 7 - i = j
        OBVIOUS
      <4>3. file[CalleeSaved[7 - i]] \in {Any, t[i]}
        BY <1>16 DEF CalleeIn
      <4>4. QED
        BY <1>12, <4>1, <4>2, <4>3
    <3>3. QED
      BY <3>1, <3>2
  <2>4. Kept'
    BY <1>15, <2>3 DEF Kept
  <2>5. TypeOK'
    BY <1>3, <1>13, <2>1 DEF IInv, TypeOK
  <2>6. FrameInv'
    BY <1>8, <2>1, <2>2, <2>4 DEF FrameInv
  <2>7. ExceptionInv'
    BY <1>14, <2>1 DEF ExceptionInv, ExceptionReported, KnownVectors
  <2>8. QED
    BY <2>5, <2>6, <2>7 DEF IInv
<1>17. CASE t[7] = "isr_pop" /\ IsrFrame(new, t, file, 7)
  <2>1. pc' = "isr_pop"
    BY <1>3, <1>17
  <2>2. IsrFrame(on', stack'[on'], want'[on'], 0)
    BY <1>3, <1>11, <1>15, <1>17
  <2>3. TypeOK'
    BY <1>3, <1>13, <2>1 DEF IInv, TypeOK
  <2>4. FrameInv'
    BY <1>8, <2>1, <2>2 DEF FrameInv
  <2>5. ExceptionInv'
    BY <1>14, <2>1 DEF ExceptionInv, ExceptionReported, KnownVectors
  <2>6. QED
    BY <2>3, <2>4, <2>5 DEF IInv
<1>18. CASE new \in Tasks /\ Under(new, t, 7) /\ t[7] = "task_trampoline" /\ AllAny(file)
  <2>1. pc' = "task_trampoline"
    BY <1>3, <1>18
  <2>2. on' \in Tasks /\ Under(on', stack'[on'], 0) /\ AllAny(want'[on'])
    BY <1>3, <1>11, <1>15, <1>18
  <2>3. TypeOK'
    BY <1>3, <1>13, <2>1 DEF IInv, TypeOK
  <2>4. FrameInv'
    BY <1>8, <2>1, <2>2 DEF FrameInv
  <2>5. ExceptionInv'
    BY <1>14, <2>1 DEF ExceptionInv, ExceptionReported, KnownVectors
  <2>6. QED
    BY <2>3, <2>4, <2>5 DEF IInv
<1>19. QED
  BY <1>4, <1>16, <1>17, <1>18 DEF SavedFrame, YieldFrame

LEMMA StutterIInv == ASSUME IInv, UNCHANGED vars PROVE IInv'
<1>1. /\ on' = on /\ pc' = pc /\ regs' = regs /\ stack' = stack /\ want' = want
      /\ raised' = raised /\ report' = report
  BY DEF vars
<1>2. QED
  BY <1>1 DEF IInv, TypeOK, FrameInv, ExceptionInv, Kept, ExceptionReported, KnownVectors

LEMMA NextIInv == ASSUME IInv, [Next]_vars PROVE IInv'
BY ComputeIInv, YieldIInv, TimerIInv, SpuriousIInv, CommonIInv, HandlerIInv,
   YieldReturnsIInv, SwitchIInv, IsrPopIInv, TrampolineIInv, StutterIInv DEF Next

-----------------------------------------------------------------------------
(* The stacks and registers of all contexts keep their shape.              *)
THEOREM Invariance == Spec => []IInv
<1>1. IInv /\ [Next]_vars => IInv'
  BY NextIInv
<1>2. QED
  BY InitIInv, <1>1, PTL DEF Spec

(* However the contexts take turns, code that goes on after a yield finds  *)
(* its callee-saved registers and code that was interrupted all of them.   *)
THEOREM RegistersKeptHolds == Spec => []RegistersKept
<1>1. IInv => RegistersKept
  BY DEF IInv, FrameInv, Kept, RegistersKept
<1>2. QED
  BY Invariance, <1>1, PTL

(* No call or interrupt leaves a word behind on a stack, or takes one too  *)
(* many off it.                                                            *)
THEOREM StackBalancedHolds == Spec => []StackBalanced
<1>1. IInv => StackBalanced
  <2> SUFFICES ASSUME IInv, pc = "run"
               PROVE  stack[on] = IF on \in Tasks THEN <<"task_exit">> ELSE << >>
    BY DEF StackBalanced
  <2>1. Under(on, stack[on], 0)
    BY DEF IInv, FrameInv
  <2>2. CASE on \in Tasks
    <3>1. Size(stack[on], 1) /\ stack[on][1] = "task_exit"
      BY <2>1, <2>2 DEF Under, Below
    <3>2. QED
      BY <2>2, <3>1 DEF Size
  <2>3. CASE on \notin Tasks
    <3>1. Size(stack[on], 0)
      BY <2>1, <2>3 DEF Under, Below
    <3>2. QED
      BY <2>3, <3>1 DEF Size
  <2>4. QED
    BY <2>2, <2>3
<1>2. QED
  BY Invariance, <1>1, PTL

(* Whatever context faults, the handler reports the vector and the error   *)
(* code of the exception that was raised, and has a name for it.           *)
THEOREM ExceptionReportedHolds ==
  ASSUME KnownVectors
  PROVE  Spec => []ExceptionReported
<1>1. IInv => ExceptionReported
  BY DEF IInv, ExceptionInv
<1>2. QED
  BY Invariance, <1>1, PTL
=============================================================================
