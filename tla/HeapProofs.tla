----------------------------- MODULE HeapProofs -----------------------------
(***************************************************************************)
(* Heap.tla, for every arena size, every sequence of requests and every    *)
(* width of size_t.                                                        *)
(***************************************************************************)
EXTENDS Heap, TLAPS

(* Rounding a request gives a natural number, whatever wraps.              *)
LEMMA RoundUpNat == ASSUME NEW n \in Nat PROVE RoundUp(n) \in Nat
<1>1. (n + 7) % SizeMod \in Nat
  BY HeapAssumption
<1> DEFINE m == (n + 7) % SizeMod
<1> HIDE DEF m
<1>2. m \in Nat
  BY <1>1 DEF m
<1>3. (m \div 8) * 8 \in Nat
  BY <1>2
<1> QED BY <1>3 DEF RoundUp, m

LEMMA InitIInv == Init => IInv
BY HeapAssumption
DEF Init, IInv, TypeOK, Tiling, FlagsMatchOwners, FullyCoalesced, WalkInv,
    Blocks, Block, NULL, CanMerge

LEMMA KallocInitIInv ==
  ASSUME IInv, NEW n \in InitSizes, kalloc_init(n) PROVE IInv'
<1> USE HeapAssumption DEF NULL, HDR
<1>0. n \in Nat /\ pc = "boot" /\ Blocks = {} /\ current = NULL
      /\ DOMAIN live = {} /\ TypeOK
  BY DEF kalloc_init, IInv, WalkInv, FlagsMatchOwners
<1>1. CASE n < HDR
  BY <1>0, <1>1
  DEF kalloc_init, IInv, TypeOK, Tiling, FlagsMatchOwners, FullyCoalesced,
      WalkInv, Blocks, Block, CanMerge, Passed, Fits
<1>2. CASE n >= HDR
  <2>1. /\ heap' = [b \in {HeapStart} |->
                      [size |-> n - HDR, next |-> NULL, free |-> TRUE]]
        /\ pc' = "idle" /\ total' = n /\ magic' = {HeapStart}
        /\ UNCHANGED <<current, size, asked, live, freed>>
    BY <1>0, <1>2 DEF kalloc_init
  <2>2. Blocks' = {HeapStart} /\ n - HDR \in Nat
    BY <1>0, <1>2, <2>1 DEF Blocks
  <2>3. heap'[HeapStart] = [size |-> n - HDR, next |-> NULL, free |-> TRUE]
    BY <2>1
  <2>4. TypeOK'
    BY <1>0, <2>1, <2>2 DEF TypeOK, Block, Blocks
  <2>5. Tiling'
    BY <1>0, <2>1, <2>2, <2>3 DEF Tiling, End, HeapEnd
  <2>6. FlagsMatchOwners'
    BY <1>0, <2>1, <2>2, <2>3 DEF FlagsMatchOwners
  <2>7. FullyCoalesced' /\ WalkInv'
    BY <1>0, <2>1, <2>2, <2>3 DEF FullyCoalesced, WalkInv, CanMerge
  <2> QED BY <2>4, <2>5, <2>6, <2>7 DEF IInv
<1> QED BY <1>0, <1>1, <1>2

LEMMA EnterIInv ==
  ASSUME IInv, NEW n \in Nat, NEW need \in Nat, Enter(n, need) PROVE IInv'
<1> USE HeapAssumption DEF NULL
<1>1. CASE n = 0
  BY <1>1
  DEF Enter, IInv, TypeOK, Tiling, FlagsMatchOwners, FullyCoalesced,
      WalkInv, Blocks, Block, CanMerge, Passed, Fits, End, HeapEnd
<1>2. CASE n # 0
  <2>1. /\ pc = "idle" /\ pc' = "kmalloc"
        /\ current' = HeapStart /\ size' = RoundUp(n) /\ asked' = need
        /\ UNCHANGED <<total, heap, magic, live, freed>>
    BY <1>2 DEF Enter
  <2>2. TypeOK'
    BY <2>1, RoundUpNat DEF IInv, TypeOK, Tiling, Blocks, Block
  <2>3. Tiling'
    BY <2>1 DEF IInv, Tiling, Blocks, End, HeapEnd
  <2>4. FlagsMatchOwners'
    BY <2>1 DEF IInv, FlagsMatchOwners, Blocks
  <2>5. FullyCoalesced' /\ WalkInv'
    <3>1. \A b \in Blocks : HeapStart <= b
      BY <2>1 DEF IInv, Tiling
    <3>2. \A b \in Blocks' : ~Passed(b)' /\ ~CanMerge(b)'
      BY <2>1, <3>1 DEF IInv, TypeOK, FullyCoalesced, Passed, CanMerge, Blocks
    <3> QED BY <2>1, <3>2 DEF FullyCoalesced, WalkInv
  <2> QED BY <2>2, <2>3, <2>4, <2>5 DEF IInv
<1> QED BY <1>1, <1>2

(* kmalloc finds a block: the list is cut in two, or used as it is.        *)
LEMMA TakeIInv == ASSUME IInv, Take PROVE IInv'
<1> USE HeapAssumption DEF NULL, HDR
<1> SUFFICES ASSUME NEW c, c = current, NEW n, n = size PROVE IInv'
  OBVIOUS
<1> DEFINE p == c + HDR
           rest == c + HDR + n
<1>1. /\ pc = "kmalloc" /\ pc' = "idle" /\ current' = NULL
      /\ size' = 0 /\ asked' = 0 /\ total' = total
      /\ freed' = freed \ {p}
      /\ live' = [q \in DOMAIN live \cup {p} |->
                    IF q = p THEN asked ELSE live[q]]
  BY DEF Take, Return
<1>2. /\ c \in Blocks /\ heap[c].free
      /\ heap[c].size >= n
      /\ \A b \in Blocks : b \in Nat /\ heap[b] \in Block
      /\ \A b \in Blocks : heap[b].size \in Nat /\ heap[b].next \in Nat
      /\ n \in Nat /\ asked \in Nat /\ total \in Nat
  BY DEF Take, IInv, TypeOK, Fits, Block
<1>3. /\ HeapStart \in Blocks
      /\ \A b \in Blocks :
           /\ HeapStart <= b /\ End(b) <= HeapEnd
           /\ IF End(b) = HeapEnd THEN heap[b].next = NULL
              ELSE heap[b].next = End(b) /\ End(b) \in Blocks
      /\ \A a, b \in Blocks : a < b => End(a) <= b
      /\ \A b \in Blocks : ~CanMerge(b)
  BY <1>1 DEF IInv, Tiling, WalkInv
<1>4. CASE CanSplit(c)
  <2>1. heap' = Split(c) /\ magic' = magic \cup {rest}
    BY <1>4 DEF Take
  <2>2. /\ Blocks' = Blocks \cup {rest}
        /\ heap'[rest] = [size |-> heap[c].size - n - HDR,
                          next |-> heap[c].next, free |-> TRUE]
        /\ heap'[c] = [size |-> n, next |-> rest, free |-> FALSE]
        /\ \A b \in Blocks \ {c, rest} : heap'[b] = heap[b]
    BY <1>2, <2>1 DEF Split, Blocks
  <2>3. /\ rest \in Nat /\ rest \notin Blocks
        /\ c < rest /\ rest + HDR + 8 <= End(c)
        /\ heap[c].size - n - HDR \in Nat
    <3>1. /\ rest \in Nat /\ c < rest
          /\ rest + HDR + 8 <= End(c)
          /\ heap[c].size - n - HDR \in Nat
      BY <1>2, <1>4 DEF CanSplit, End
    <3>2. End(c) \in Nat
      BY <1>2 DEF End
    <3>3. rest \notin Blocks
      BY <1>2, <1>3, <3>1, <3>2
    <3> QED BY <3>1, <3>3
  <2>4. TypeOK'
    <3>1. heap' \in [Blocks' -> Block]
      BY <1>2, <2>1, <2>2, <2>3 DEF Split, Block
    <3>2. live' \in [DOMAIN live' -> Nat] /\ DOMAIN live' \subseteq Nat
      BY <1>1, <1>2 DEF IInv, TypeOK
    <3> QED BY <1>1, <1>2, <2>1, <2>2, <2>3, <3>1, <3>2 DEF IInv, TypeOK
  <2>5. /\ End(c)' = rest
        /\ End(rest)' = End(c)
        /\ \A b \in Blocks \ {c} : End(b)' = End(b)
        /\ HeapEnd' = HeapEnd
    <3>1. End(c)' = rest /\ HeapEnd' = HeapEnd
      BY <1>1, <1>2, <2>2 DEF End, HeapEnd
    <3>2. End(rest)' = End(c)
      BY <1>1, <1>2, <2>2, <2>3 DEF End
    <3>3. \A b \in Blocks \ {c} : End(b)' = End(b)
      BY <1>1, <1>2, <2>2, <2>3 DEF End
    <3> QED BY <3>1, <3>2, <3>3
  <2>6. Tiling'
    <3>1. HeapStart \in Blocks'
      BY <1>3, <2>2
    <3>2. \A b \in Blocks' :
            /\ HeapStart <= b /\ End(b)' <= HeapEnd'
            /\ IF End(b)' = HeapEnd' THEN heap'[b].next = NULL
               ELSE heap'[b].next = End(b)' /\ End(b)' \in Blocks'
      <4> SUFFICES ASSUME NEW b \in Blocks'
                   PROVE /\ HeapStart <= b /\ End(b)' <= HeapEnd'
                         /\ IF End(b)' = HeapEnd' THEN heap'[b].next = NULL
                            ELSE heap'[b].next = End(b)' /\ End(b)' \in Blocks'
        OBVIOUS
      <4>0. HeapEnd \in Nat /\ End(c) \in Nat
        BY <1>2 DEF HeapEnd, End
      <4>1. CASE b = c
        BY <1>2, <1>3, <2>2, <2>3, <2>5, <4>0, <4>1
      <4>2. CASE b = rest
        BY <1>2, <1>3, <2>2, <2>3, <2>5, <4>0, <4>2
      <4>3. CASE b \in Blocks \ {c, rest}
        BY <1>2, <1>3, <2>2, <2>3, <2>5, <4>3
      <4> QED BY <2>2, <4>1, <4>2, <4>3
    <3>3. ASSUME NEW a \in Blocks', NEW b \in Blocks', a < b
          PROVE End(a)' <= b
      <4>0. End(c) \in Nat /\ a \in Nat /\ b \in Nat
        BY <1>2, <2>2, <2>3 DEF End
      <4>1. CASE a = c /\ b = rest
        BY <2>3, <2>5, <4>1
      <4>2. CASE a = c /\ b # rest
        BY <1>2, <1>3, <2>2, <2>3, <2>5, <3>3, <4>0, <4>2
      <4>3. CASE a = rest
        BY <1>2, <1>3, <2>2, <2>3, <2>5, <3>3, <4>0, <4>3
      <4>4. CASE a \in Blocks \ {c} /\ b = rest
        <5>1. End(a) \in Nat /\ End(a)' = End(a)
          BY <1>2, <2>5, <4>4 DEF End
        <5>2. CASE a < c
          BY <1>2, <1>3, <2>3, <4>4, <5>1, <5>2
        <5>3. CASE c < a
          BY <1>2, <1>3, <2>3, <3>3, <4>0, <4>4, <5>3
        <5> QED BY <1>2, <4>0, <4>4, <5>2, <5>3
      <4>5. CASE a \in Blocks \ {c} /\ b \in Blocks
        BY <1>3, <2>5, <3>3, <4>5
      <4> QED BY <2>2, <4>1, <4>2, <4>3, <4>4, <4>5
    <3> QED BY <3>1, <3>2, <3>3 DEF Tiling
  <2>7. FlagsMatchOwners'
    <3>1. ASSUME NEW q \in DOMAIN live'
          PROVE q - HDR \in Blocks' /\ ~heap'[q - HDR].free
      <4>1. CASE q = p
        <5>1. q - HDR = c
          BY <1>2, <4>1
        <5> QED BY <1>2, <2>2, <5>1
      <4>2. CASE q # p
        <5>1. q \in DOMAIN live /\ q \in Nat
          BY <1>1, <4>2 DEF IInv, TypeOK
        <5>2. q - HDR \in Blocks \ {c} /\ ~heap[q - HDR].free
          BY <1>2, <4>2, <5>1 DEF IInv, FlagsMatchOwners
        <5> QED BY <2>2, <2>3, <5>2
      <4> QED BY <4>1, <4>2
    <3>2. ASSUME NEW b \in Blocks', ~heap'[b].free
          PROVE b + HDR \in DOMAIN live'
      BY <1>1, <1>2, <2>2, <3>2 DEF IInv, FlagsMatchOwners
    <3> QED BY <3>1, <3>2 DEF FlagsMatchOwners
  <2>8. FullyCoalesced'
    <3>1. ASSUME NEW b \in Blocks' PROVE ~CanMerge(b)'
      <4>1. heap[c].next # NULL => ~heap[heap[c].next].free
        BY <1>2, <1>3 DEF CanMerge
      <4>2. heap[c].next # NULL =>
              heap[c].next \in Blocks \ {c, rest}
        BY <1>2, <1>3, <2>3 DEF End
      <4>3. CASE b = c
        BY <2>2, <4>3 DEF CanMerge
      <4>4. CASE b = rest
        <5>1. heap'[b].next = heap[c].next
          BY <2>2, <4>4
        <5>2. heap[c].next # NULL => heap'[heap[c].next] = heap[heap[c].next]
          BY <2>2, <4>2
        <5> QED BY <4>1, <5>1, <5>2 DEF CanMerge
      <4>5. CASE b \in Blocks \ {c, rest}
        <5>1. heap'[b] = heap[b] /\ ~CanMerge(b)
          BY <1>3, <2>2, <4>5
        <5>2. heap[b].next # NULL => heap[b].next \in Blocks \ {rest}
          BY <1>2, <1>3, <2>3, <4>5
        <5>3. heap[b].next \in Blocks \ {rest, c} =>
                heap'[heap[b].next] = heap[heap[b].next]
          BY <2>2
        <5>4. heap'[c].free = FALSE
          BY <2>2
        <5> QED BY <5>1, <5>2, <5>3, <5>4 DEF CanMerge
      <4> QED BY <2>2, <4>3, <4>4, <4>5
    <3> QED BY <3>1 DEF FullyCoalesced
  <2>9. WalkInv'
    BY <1>1 DEF WalkInv
  <2> QED BY <2>4, <2>6, <2>7, <2>8, <2>9 DEF IInv
<1>5. CASE ~CanSplit(c)
  <2>1. heap' = [heap EXCEPT ![c].free = FALSE] /\ magic' = magic
    BY <1>5 DEF Take
  <2>2. /\ Blocks' = Blocks
        /\ heap'[c] = [heap[c] EXCEPT !.free = FALSE]
        /\ \A b \in Blocks \ {c} : heap'[b] = heap[b]
    BY <1>2, <2>1 DEF Blocks
  <2>3. /\ heap'[c].size = heap[c].size
        /\ heap'[c].next = heap[c].next
        /\ heap'[c].free = FALSE
        /\ heap'[c] \in Block
    BY <1>2, <2>2 DEF Block
  <2>4. TypeOK'
    <3>1. heap' \in [Blocks' -> Block]
      BY <1>2, <2>1, <2>2, <2>3 DEF Blocks
    <3>2. live' \in [DOMAIN live' -> Nat] /\ DOMAIN live' \subseteq Nat
      BY <1>1, <1>2 DEF IInv, TypeOK
    <3> QED BY <1>1, <1>2, <2>1, <2>2, <3>1, <3>2 DEF IInv, TypeOK
  <2>5. (\A b \in Blocks : End(b)' = End(b)) /\ HeapEnd' = HeapEnd
    BY <1>1, <1>2, <2>2, <2>3 DEF End, HeapEnd
  <2>6. Tiling'
    <3>1. \A b \in Blocks : heap'[b].next = heap[b].next
      BY <2>2, <2>3
    <3> QED BY <1>3, <2>2, <2>5, <3>1 DEF Tiling
  <2>7. FlagsMatchOwners'
    <3>1. ASSUME NEW q \in DOMAIN live'
          PROVE q - HDR \in Blocks' /\ ~heap'[q - HDR].free
      <4>1. CASE q = p
        <5>1. q - HDR = c
          BY <1>2, <4>1
        <5> QED BY <1>2, <2>2, <2>3, <5>1
      <4>2. CASE q # p
        <5>1. q \in DOMAIN live /\ q \in Nat
          BY <1>1, <4>2 DEF IInv, TypeOK
        <5>2. q - HDR \in Blocks \ {c} /\ ~heap[q - HDR].free
          BY <1>2, <4>2, <5>1 DEF IInv, FlagsMatchOwners
        <5> QED BY <2>2, <5>2
      <4> QED BY <4>1, <4>2
    <3>2. ASSUME NEW b \in Blocks', ~heap'[b].free
          PROVE b + HDR \in DOMAIN live'
      BY <1>1, <1>2, <2>2, <3>2 DEF IInv, FlagsMatchOwners
    <3> QED BY <3>1, <3>2 DEF FlagsMatchOwners
  <2>8. FullyCoalesced'
    BY <1>2, <1>3, <2>2, <2>3 DEF FullyCoalesced, CanMerge, Block
  <2>9. WalkInv'
    BY <1>1 DEF WalkInv
  <2> QED BY <2>4, <2>6, <2>7, <2>8, <2>9 DEF IInv
<1> QED BY <1>4, <1>5

(* A loop that leaves a block for the one its next pointer names passes    *)
(* that block and no other.                                                *)
LEMMA NextPasses ==
  ASSUME IInv, pc \notin {"boot", "panic"}, NEW c \in Blocks, NEW b \in Blocks,
         heap[c].next = NULL \/ b < heap[c].next
  PROVE  b = c \/ b < c
<1> USE HeapAssumption DEF NULL, HDR
<1>1. /\ c \in Nat /\ b \in Nat /\ heap[b].size \in Nat /\ heap[c].size \in Nat
      /\ total \in Nat
  BY DEF IInv, TypeOK, Block
<1>2. /\ End(b) <= HeapEnd
      /\ IF End(c) = HeapEnd THEN heap[c].next = NULL
         ELSE heap[c].next = End(c) /\ End(c) \in Blocks
      /\ c < b => End(c) <= b
      /\ HeapStart <= c
  BY DEF IInv, Tiling
<1> QED BY <1>1, <1>2 DEF End, HeapEnd

LEMMA SkipIInv == ASSUME IInv, Skip PROVE IInv'
<1> USE DEF NULL
<1> SUFFICES ASSUME NEW c, c = current PROVE IInv'
  OBVIOUS
<1>1. /\ pc = "kmalloc" /\ c \in Blocks /\ ~Fits(c)
      /\ current' = heap[c].next
      /\ UNCHANGED <<pc, total, heap, magic, size, asked, live, freed>>
  BY DEF Skip, IInv, TypeOK
<1>2. heap[c].next \in Blocks \cup {NULL}
  BY <1>1 DEF IInv, Tiling
<1>3. TypeOK'
  BY <1>1, <1>2 DEF IInv, TypeOK, Blocks, Block
<1>4. Tiling' /\ FlagsMatchOwners' /\ FullyCoalesced'
  BY <1>1 DEF IInv, Tiling, FlagsMatchOwners, FullyCoalesced, Blocks, End,
              HeapEnd, CanMerge
<1>5. ASSUME NEW b \in Blocks, Passed(b)' PROVE ~Fits(b)
  <2>1. b = c \/ b < c
    BY <1>1, <1>5, NextPasses DEF Passed
  <2> QED BY <1>1, <2>1 DEF IInv, WalkInv, Passed
<1>6. WalkInv'
  <2>1. \A b \in Blocks : ~CanMerge(b)
    BY <1>1 DEF IInv, WalkInv
  <2> QED BY <1>1, <1>5, <2>1 DEF WalkInv, Blocks, Fits, CanMerge, Passed
<1> QED BY <1>3, <1>4, <1>6 DEF IInv

(* What ends a call without touching the list.                             *)
LEMMA ReturnIInv ==
  ASSUME IInv, Return, pc # "boot", pc # "panic",
         UNCHANGED <<total, heap, magic, live, freed>>,
         \A b \in Blocks : ~CanMerge(b)
  PROVE  IInv'
<1>1. TypeOK'
  BY DEF IInv, TypeOK, Blocks, Block, Return, NULL
<1>2. Tiling' /\ FlagsMatchOwners'
  BY DEF IInv, Tiling, FlagsMatchOwners, Blocks, End, HeapEnd, Return
<1>3. FullyCoalesced' /\ WalkInv'
  BY DEF FullyCoalesced, WalkInv, CanMerge, Blocks, Return
<1> QED BY <1>1, <1>2, <1>3 DEF IInv

LEMMA FailIInv == ASSUME IInv, Fail PROVE IInv'
BY ReturnIInv DEF Fail, IInv, WalkInv

LEMMA DoneIInv == ASSUME IInv, Done PROVE IInv'
BY ReturnIInv DEF Done, IInv, WalkInv, Passed

LEMMA KfreeIInv == ASSUME IInv, NEW p \in Nat, kfree(p) PROVE IInv'
<1> USE HeapAssumption DEF NULL, HDR
<1> DEFINE block == p - HDR
<1>1. CASE p = NULL \/ block \notin magic
  BY <1>1
  DEF kfree, IInv, TypeOK, Tiling, FlagsMatchOwners, FullyCoalesced,
      WalkInv, Blocks, Block, CanMerge, Passed, Fits, End, HeapEnd
<1>2. CASE p # NULL /\ block \in magic
  <2>1. /\ pc = "idle" /\ pc' = "kfree" /\ current' = HeapStart
        /\ heap' = [b \in Blocks |-> [heap[b] EXCEPT !.free = @ \/ b = block]]
        /\ live' = [q \in DOMAIN live \ {p} |-> live[q]]
        /\ freed' \subseteq freed \cup {p}
        /\ UNCHANGED <<total, magic, size, asked>>
    BY <1>2 DEF kfree
  <2>2. /\ \A b \in Blocks : b \in Nat /\ heap[b] \in Block
        /\ Blocks' = Blocks
    BY <2>1 DEF IInv, TypeOK, Blocks
  <2>3. ASSUME NEW b \in Blocks
        PROVE /\ heap'[b].size = heap[b].size
              /\ heap'[b].next = heap[b].next
              /\ heap'[b].free = (heap[b].free \/ b = block)
              /\ heap'[b] \in Block
    BY <2>1, <2>2 DEF Block
  <2>4. TypeOK'
    <3>1. heap' \in [Blocks' -> Block]
      BY <2>1, <2>2, <2>3
    <3>2. live' \in [DOMAIN live' -> Nat] /\ DOMAIN live' \subseteq Nat
      BY <2>1 DEF IInv, TypeOK
    <3>3. HeapStart \in Blocks
      BY <2>1 DEF IInv, Tiling
    <3> QED BY <2>1, <2>2, <3>1, <3>2, <3>3 DEF IInv, TypeOK
  <2>5. Tiling'
    <3>1. (\A b \in Blocks : End(b)' = End(b)) /\ HeapEnd' = HeapEnd
      BY <2>1, <2>3 DEF End, HeapEnd
    <3> QED BY <2>1, <2>2, <2>3, <3>1 DEF IInv, Tiling
  <2>6. FlagsMatchOwners'
    <3>1. ASSUME NEW q \in DOMAIN live'
          PROVE q - HDR \in Blocks' /\ ~heap'[q - HDR].free
      <4>1. q \in DOMAIN live /\ q # p /\ q \in Nat
        BY <2>1 DEF IInv, TypeOK
      <4>2. q - HDR \in Blocks /\ ~heap[q - HDR].free /\ q - HDR # block
        BY <4>1 DEF IInv, FlagsMatchOwners
      <4> QED BY <2>2, <2>3, <4>2
    <3>2. ASSUME NEW b \in Blocks', ~heap'[b].free
          PROVE b + HDR \in DOMAIN live'
      <4>1. ~heap[b].free /\ b # block /\ b \in Blocks /\ b \in Nat
        BY <2>2, <2>3, <3>2
      <4>2. b + HDR \in DOMAIN live /\ b + HDR # p
        BY <4>1 DEF IInv, FlagsMatchOwners
      <4> QED BY <2>1, <4>2
    <3> QED BY <3>1, <3>2 DEF FlagsMatchOwners
  <2>7. FullyCoalesced' /\ WalkInv'
    <3>1. \A b \in Blocks' : ~Passed(b)'
      BY <2>1, <2>2 DEF IInv, Tiling, Passed
    <3> QED BY <2>1, <3>1 DEF FullyCoalesced, WalkInv
  <2> QED BY <2>4, <2>5, <2>6, <2>7 DEF IInv
<1> QED BY <1>1, <1>2

LEMMA AdvanceIInv == ASSUME IInv, Advance PROVE IInv'
<1> USE DEF NULL
<1> SUFFICES ASSUME NEW c, c = current PROVE IInv'
  OBVIOUS
<1>1. /\ pc = "kfree" /\ c \in Blocks /\ ~CanMerge(c)
      /\ current' = heap[c].next
      /\ UNCHANGED <<pc, total, heap, magic, size, asked, live, freed>>
  BY DEF Advance, IInv, TypeOK
<1>2. heap[c].next \in Blocks \cup {NULL}
  BY <1>1 DEF IInv, Tiling
<1>3. TypeOK'
  BY <1>1, <1>2 DEF IInv, TypeOK, Blocks, Block
<1>4. Tiling' /\ FlagsMatchOwners' /\ FullyCoalesced'
  BY <1>1 DEF IInv, Tiling, FlagsMatchOwners, FullyCoalesced, Blocks, End,
              HeapEnd, CanMerge
<1>5. ASSUME NEW b \in Blocks, Passed(b)' PROVE ~CanMerge(b)
  <2>1. b = c \/ b < c
    BY <1>1, <1>5, NextPasses DEF Passed
  <2> QED BY <1>1, <2>1 DEF IInv, WalkInv, Passed
<1>6. WalkInv'
  BY <1>1, <1>5 DEF WalkInv, Blocks, CanMerge, Passed
<1> QED BY <1>3, <1>4, <1>6 DEF IInv

(* kfree merges current with its successor, which disappears.              *)
LEMMA MergeIInv == ASSUME IInv, Merge PROVE IInv'
<1> USE HeapAssumption DEF NULL, HDR
<1> SUFFICES ASSUME NEW c, c = current, NEW gone, gone = heap[c].next
             PROVE IInv'
  OBVIOUS
<1>1. /\ pc = "kfree" /\ c \in Blocks /\ c # NULL /\ current' = c
      /\ heap[c].free /\ gone # NULL /\ heap[gone].free
      /\ heap' = [b \in Blocks \ {gone} |->
                    IF b = c
                    THEN [size |-> heap[b].size + HDR + heap[gone].size,
                          next |-> heap[gone].next, free |-> TRUE]
                    ELSE heap[b]]
      /\ UNCHANGED <<pc, total, magic, current, size, asked, live, freed>>
  BY DEF Merge, Absorb, AbsorbedWith, CanMerge, IInv, TypeOK
<1>2. /\ \A b \in Blocks : b \in Nat /\ heap[b] \in Block
      /\ \A b \in Blocks : heap[b].size \in Nat /\ heap[b].next \in Nat
      /\ total \in Nat
  BY DEF IInv, TypeOK, Block
<1>3. /\ HeapStart \in Blocks
      /\ \A b \in Blocks :
           /\ HeapStart <= b /\ End(b) <= HeapEnd
           /\ IF End(b) = HeapEnd THEN heap[b].next = NULL
              ELSE heap[b].next = End(b) /\ End(b) \in Blocks
      /\ \A a, b \in Blocks : a < b => End(a) <= b
  BY <1>1 DEF IInv, Tiling
<1>4. gone = End(c) /\ gone \in Blocks /\ c < gone /\ End(gone) > gone
  <2>1. gone = End(c) /\ gone \in Blocks
    BY <1>1, <1>3
  <2> QED BY <1>1, <1>2, <2>1 DEF End
<1>5. /\ Blocks' = Blocks \ {gone}
      /\ c \in Blocks' /\ HeapStart \in Blocks'
      /\ heap'[c] = [size |-> heap[c].size + HDR + heap[gone].size,
                     next |-> heap[gone].next, free |-> TRUE]
      /\ \A b \in Blocks' \ {c} : heap'[b] = heap[b]
  <2>1. HeapStart # gone /\ c # gone
    BY <1>1, <1>2, <1>3, <1>4
  <2> QED BY <1>1, <1>3, <2>1 DEF Blocks
<1>6. /\ End(c)' = End(gone)
      /\ \A b \in Blocks' \ {c} : End(b)' = End(b)
      /\ HeapEnd' = HeapEnd
  <2>1. End(c)' = c + HDR + (heap[c].size + HDR + heap[gone].size)
    BY <1>5 DEF End
  <2>2. gone = c + HDR + heap[c].size
    BY <1>4 DEF End
  <2>3. End(c)' = End(gone)
    <3>1. c \in Nat /\ heap[c].size \in Nat /\ heap[gone].size \in Nat
      BY <1>1, <1>2, <1>4
    <3> QED BY <2>1, <2>2, <3>1 DEF End
  <2> QED BY <1>1, <1>5, <2>3 DEF End, HeapEnd
<1>7. TypeOK'
  <2>1. heap' \in [Blocks' -> Block]
    <3>1. heap'[c] \in Block
      BY <1>1, <1>2, <1>4, <1>5 DEF Block
    <3> QED BY <1>1, <1>2, <1>5, <3>1
  <2> QED BY <1>1, <1>5, <2>1 DEF IInv, TypeOK
<1>8. Tiling'
  <2>1. ASSUME NEW b \in Blocks'
        PROVE /\ HeapStart <= b /\ End(b)' <= HeapEnd'
              /\ IF End(b)' = HeapEnd' THEN heap'[b].next = NULL
                 ELSE heap'[b].next = End(b)' /\ End(b)' \in Blocks'
    <3>0. End(gone) \in Nat /\ gone \in Nat
      BY <1>2, <1>4 DEF End
    <3>1. CASE b = c
      <4>1. End(gone) # gone
        BY <1>4, <3>0
      <4> QED BY <1>3, <1>4, <1>5, <1>6, <3>1, <4>1
    <3>2. CASE b # c
      <4>1. End(b) # gone
        <5>1. CASE b < c
          <6>1. End(b) <= c /\ End(b) \in Nat
            BY <1>1, <1>2, <1>3, <1>5, <5>1 DEF End
          <6> QED BY <1>1, <1>2, <1>4, <3>0, <6>1
        <5>2. CASE c < b
          <6>1. b \in Blocks /\ b # gone /\ b \in Nat /\ End(b) \in Nat /\ End(b) > b
            <7>1. b \in Blocks /\ b # gone
              BY <1>5
            <7>2. b \in Nat /\ heap[b].size \in Nat
              BY <1>2, <7>1
            <7> QED BY <7>1, <7>2 DEF End
          <6>2. End(c) <= b
            BY <1>1, <1>3, <5>2, <6>1
          <6> QED BY <1>4, <3>0, <6>1, <6>2
        <5> QED BY <1>1, <1>2, <1>5, <3>2, <5>1, <5>2
      <4>2. b \in Blocks /\ heap'[b].next = heap[b].next /\ End(b)' = End(b)
        BY <1>5, <1>6, <3>2
      <4> QED BY <1>3, <1>5, <1>6, <4>1, <4>2
    <3> QED BY <3>1, <3>2
  <2>2. ASSUME NEW a \in Blocks', NEW b \in Blocks', a < b
        PROVE End(a)' <= b
    <3>1. CASE a = c
      <4>1. b \in Blocks /\ b \in Nat /\ b # gone /\ End(c) <= b
        BY <1>1, <1>2, <1>3, <1>5, <2>2, <3>1
      <4>2. gone < b
        BY <1>2, <1>4, <4>1
      <4> QED BY <1>3, <1>4, <1>6, <3>1, <4>1, <4>2
    <3>2. CASE a # c
      BY <1>3, <1>5, <1>6, <2>2, <3>2
    <3> QED BY <3>1, <3>2
  <2> QED BY <1>5, <2>1, <2>2 DEF Tiling
<1>9. FlagsMatchOwners'
  <2>1. ASSUME NEW q \in DOMAIN live'
        PROVE q - HDR \in Blocks' /\ ~heap'[q - HDR].free
    <3>1. q - HDR \in Blocks /\ ~heap[q - HDR].free
      BY <1>1 DEF IInv, FlagsMatchOwners
    <3>2. q - HDR # c /\ q - HDR # gone
      BY <1>1, <3>1
    <3> QED BY <1>5, <3>1, <3>2
  <2>2. ASSUME NEW b \in Blocks', ~heap'[b].free
        PROVE b + HDR \in DOMAIN live'
    <3>1. b # c
      BY <1>5, <2>2
    <3>2. ~heap[b].free /\ b \in Blocks
      BY <1>5, <2>2, <3>1
    <3> QED BY <1>1, <3>2 DEF IInv, FlagsMatchOwners
  <2> QED BY <2>1, <2>2 DEF FlagsMatchOwners
<1>10. FullyCoalesced' /\ WalkInv'
  <2>1. ASSUME NEW b \in Blocks', Passed(b)' PROVE ~CanMerge(b)'
    <3>1. b < c /\ b \in Blocks /\ b # c
      BY <1>1, <1>2, <1>5, <2>1 DEF Passed
    <3>2. ~CanMerge(b) /\ heap'[b] = heap[b]
      BY <1>1, <1>5, <3>1 DEF IInv, WalkInv, Passed
    <3>3. heap[b].next # NULL =>
            heap[b].next \in Blocks' /\ heap[b].next # gone
      <4>1. heap'[b].next = NULL \/ heap'[b].next \in Blocks'
        BY <1>1, <1>8 DEF Tiling
      <4> QED BY <1>5, <3>2, <4>1
    <3>4. heap[b].next # NULL =>
            heap'[heap[b].next].free = heap[heap[b].next].free
      BY <1>1, <1>5, <3>3
    <3> QED BY <3>2, <3>3, <3>4 DEF CanMerge
  <2> QED BY <1>1, <2>1 DEF FullyCoalesced, WalkInv
<1> QED BY <1>7, <1>8, <1>9, <1>10 DEF IInv

LEMMA StutterIInv == ASSUME IInv, UNCHANGED vars PROVE IInv'
BY DEF vars, IInv, TypeOK, Tiling, FlagsMatchOwners, FullyCoalesced, WalkInv,
       Blocks, Block, CanMerge, Passed, Fits, End, HeapEnd

LEMMA NextIInv == ASSUME IInv, [Next]_vars PROVE IInv'
<1>1. ASSUME NEW n \in InitSizes, kalloc_init(n) PROVE IInv'
  BY <1>1, KallocInitIInv
<1>2. ASSUME NEW n \in Requests, kmalloc(n) PROVE IInv'
  BY <1>2, EnterIInv, HeapAssumption DEF kmalloc
<1>3. ASSUME NEW a \in Arrays, kcalloc(a[1], a[2]) PROVE IInv'
  <2>1. a[1] \in Nat /\ a[2] \in Nat
    BY HeapAssumption
  <2>2. a[1] * a[2] \in Nat
    BY <2>1
  <2>3. (a[1] * a[2]) % SizeMod \in Nat
    BY <2>2, HeapAssumption
  <2> QED BY <1>3, <2>2, <2>3, EnterIInv DEF kcalloc
<1>4. ASSUME NEW p \in Freeable, kfree(p) PROVE IInv'
  <2>1. p \in Nat
    BY DEF Freeable, IInv, TypeOK, NULL
  <2> QED BY <1>4, <2>1, KfreeIInv
<1>5. CASE Loop
  BY <1>5, TakeIInv, SkipIInv, FailIInv, MergeIInv, AdvanceIInv, DoneIInv
  DEF Loop
<1>6. CASE Halted \/ UNCHANGED vars
  BY <1>6, StutterIInv DEF Halted
<1> QED BY <1>1, <1>2, <1>3, <1>4, <1>5, <1>6 DEF Next, Call

-----------------------------------------------------------------------------
(* Whatever is called in whatever order, the list tiles the arena, the     *)
(* free flags agree with the callers, and neighbours are merged.           *)
THEOREM Invariance == Spec => []IInv
<1>1. Init => IInv
  BY InitIInv
<1>2. IInv /\ [Next]_vars => IInv'
  BY NextIInv
<1> QED BY <1>1, <1>2, PTL DEF Spec

(* The variables of lib/alloc.c keep their types.                          *)
THEOREM TypeCorrect == Spec => []TypeOK
<1>1. IInv => TypeOK
  BY DEF IInv
<1> QED BY <1>1, Invariance, PTL

(* The block list of lib/alloc.c always covers the arena exactly.          *)
THEOREM TilingHolds == Spec => []Tiling
<1>1. IInv => Tiling
  BY DEF IInv
<1> QED BY <1>1, Invariance, PTL

(* kmalloc never offers memory in use, kfree loses none.                   *)
THEOREM OwnersHold == Spec => []FlagsMatchOwners
<1>1. IInv => FlagsMatchOwners
  BY DEF IInv
<1> QED BY <1>1, Invariance, PTL

(* After every kmalloc, kcalloc and kfree no two neighbours are both free. *)
THEOREM CoalescedHolds == Spec => []FullyCoalesced
<1>1. IInv => FullyCoalesced
  BY DEF IInv
<1> QED BY <1>1, Invariance, PTL

(* kmalloc returns NULL only when no free block is large enough.           *)
THEOREM FailOnlyWhenFullHolds == Spec => FailOnlyWhenFull
<1>1. IInv /\ [Next]_vars => [Fail => \A b \in Blocks : ~Fits(b)]_vars
  BY DEF IInv, WalkInv, Passed, Fail
<1> QED BY <1>1, Invariance, PTL DEF Spec, FailOnlyWhenFull

(* When no caller holds memory, kfree has put the arena back together.     *)
THEOREM NoLeakHolds == Spec => []NoLeak
<1>1. ASSUME IInv, pc = "idle", live = << >>
      PROVE  heap = [b \in {HeapStart} |->
                       [size |-> total - HDR, next |-> NULL, free |-> TRUE]]
  <2> USE HeapAssumption DEF NULL, HDR
  <2>1. /\ heap \in [Blocks -> Block] /\ total \in Nat
        /\ \A b \in Blocks : b \in Nat /\ heap[b].size \in Nat
    BY <1>1 DEF IInv, TypeOK, Block
  <2>2. /\ HeapStart \in Blocks
        /\ \A b \in Blocks :
             /\ HeapStart <= b /\ End(b) <= HeapEnd
             /\ IF End(b) = HeapEnd THEN heap[b].next = NULL
                ELSE heap[b].next = End(b) /\ End(b) \in Blocks
        /\ \A a, b \in Blocks : a < b => End(a) <= b
    BY <1>1 DEF IInv, Tiling
  <2>3. \A b \in Blocks : heap[b].free
    BY <1>1 DEF IInv, FlagsMatchOwners
  <2>4. End(HeapStart) = HeapEnd /\ heap[HeapStart].next = NULL
    <3>1. ~CanMerge(HeapStart)
      BY <1>1, <2>2 DEF IInv, FullyCoalesced
    <3>2. HeapStart # End(HeapStart) /\ End(HeapStart) # NULL
      BY <2>1, <2>2 DEF End
    <3> QED BY <2>2, <2>3, <3>1, <3>2 DEF CanMerge
  <2>5. Blocks = {HeapStart}
    <3>1. ASSUME NEW b \in Blocks PROVE b = HeapStart
      <4>1. b \in Nat /\ End(b) \in Nat /\ b < End(b)
        BY <2>1 DEF End
      <4>2. HeapEnd \in Nat
        BY <2>1 DEF HeapEnd
      <4> QED BY <2>2, <2>4, <4>1, <4>2
    <3> QED BY <2>2, <3>1
  <2>6. heap[HeapStart].size = total - HDR
    BY <2>1, <2>2, <2>4 DEF End, HeapEnd
  <2>7. heap[HeapStart] =
          [size |-> total - HDR, next |-> NULL, free |-> TRUE]
    BY <2>1, <2>2, <2>3, <2>4, <2>6 DEF Block
  <2> QED BY <2>1, <2>5, <2>7
<1>2. IInv => NoLeak
  BY <1>1 DEF NoLeak
<1> QED BY <1>2, Invariance, PTL
-----------------------------------------------------------------------------
(* Rounding keeps blocks on multiples of 8, and covers the request as long *)
(* as it does not leave size_t.                                            *)
LEMMA RoundUpAligned == ASSUME NEW n \in Nat PROVE RoundUp(n) % 8 = 0
<1> DEFINE m == (n + 7) % SizeMod
<1>1. m \in Nat
  BY HeapAssumption
<1> HIDE DEF m
<1>2. m \div 8 \in Nat
  BY <1>1
<1>3. ((m \div 8) * 8) % 8 = 0
  BY <1>2
<1> QED BY <1>3 DEF RoundUp, m

LEMMA RoundUpCovers ==
  ASSUME NEW n \in Nat, n + 7 < SizeMod PROVE RoundUp(n) >= n
<1>1. (n + 7) % SizeMod = n + 7
  BY HeapAssumption
<1>2. ((n + 7) \div 8) * 8 >= n
  OBVIOUS
<1> QED BY <1>1, <1>2 DEF RoundUp

LEMMA EnterFitInv ==
  ASSUME IInv, FitInv, NEW n \in Nat, n + 7 < SizeMod, Enter(n, n) PROVE FitInv'
<1>1. UNCHANGED <<total, heap, live>> /\ pc = "idle"
  BY DEF Enter
<1>2. AllocFits'
  BY <1>1 DEF FitInv, AllocFits
<1>3. CASE n = 0
  BY <1>1, <1>2, <1>3 DEF Enter, FitInv, Blocks
<1>4. CASE n # 0
  BY <1>1, <1>2, <1>4, RoundUpAligned, RoundUpCovers DEF Enter, FitInv, Blocks
<1> QED BY <1>3, <1>4

(* kmalloc hands out a block of at least the size it looked for.           *)
LEMMA TakeFitInv == ASSUME IInv, FitInv, Take PROVE FitInv'
<1> USE HeapAssumption DEF NULL, HDR
<1> SUFFICES ASSUME NEW c, c = current, NEW n, n = size PROVE FitInv'
  OBVIOUS
<1> DEFINE p == c + HDR
           rest == c + HDR + n
<1>1. /\ pc' = "idle" /\ size' = 0
      /\ live' = [q \in DOMAIN live \cup {p} |->
                    IF q = p THEN asked ELSE live[q]]
  BY DEF Take, Return
<1>2. /\ c \in Blocks /\ heap[c].size >= n /\ n >= asked /\ n % 8 = 0
      /\ \A b \in Blocks : b \in Nat /\ b % 8 = 0 /\ heap[b].size \in Nat
      /\ n \in Nat /\ asked \in Nat
  BY DEF Take, IInv, TypeOK, Fits, Block, FitInv
<1>3. /\ \A b \in Blocks' : b % 8 = 0
      /\ heap'[c].size >= n
      /\ \A b \in Blocks \ {c} : b # rest => heap'[b].size = heap[b].size
  <2>1. CASE CanSplit(c)
    <3>1. heap' = Split(c)
      BY <2>1 DEF Take
    <3>2. Blocks' = Blocks \cup {rest} /\ rest % 8 = 0 /\ rest # c
      BY <1>2, <3>1 DEF Split, Blocks
    <3>3. heap'[c].size = n /\ \A b \in Blocks \ {c, rest} : heap'[b] = heap[b]
      BY <1>2, <3>1, <3>2 DEF Split, Blocks
    <3> QED BY <1>2, <3>2, <3>3
  <2>2. CASE ~CanSplit(c)
    <3>1. heap' = [heap EXCEPT ![c].free = FALSE]
      BY <2>2 DEF Take
    <3>2. heap'[c].size = heap[c].size /\ Blocks' = Blocks
      BY <1>2, <3>1 DEF Blocks, Block, IInv, TypeOK
    <3>3. \A b \in Blocks \ {c} : heap'[b] = heap[b]
      BY <3>1 DEF Blocks, IInv, TypeOK
    <3> QED BY <1>2, <3>2, <3>3
  <2> QED BY <2>1, <2>2
<1>4. CanSplit(c) => rest \notin Blocks
  <2>1. pc = "kmalloc" /\ heap[c].size >= n
    BY <1>2 DEF Take
  <2>2. \A b \in Blocks : c < b => End(c) <= b
    BY <1>2, <2>1 DEF IInv, Tiling
  <2> QED BY <1>2, <2>2 DEF CanSplit, End
<1>5. \A b \in Blocks \ {c} : heap'[b].size = heap[b].size
  <2>1. CASE CanSplit(c)
    BY <1>3, <1>4, <2>1
  <2>2. CASE ~CanSplit(c)
    BY <2>2 DEF Take, Blocks, IInv, TypeOK
  <2> QED BY <2>1, <2>2
<1>6. AllocFits'
  <2> SUFFICES ASSUME NEW q \in DOMAIN live' PROVE heap'[q - HDR].size >= live'[q]
    BY DEF AllocFits
  <2>1. CASE q = p
    <3>1. q - HDR = c /\ live'[q] = asked
      BY <1>1, <1>2, <2>1
    <3>2. heap'[c].size >= asked
      <4>1. heap'[c].size \in Nat
        BY TakeIInv, <1>2, <1>3 DEF IInv, TypeOK, Block, Take, Split, Blocks
      <4> QED BY <1>2, <1>3, <4>1
    <3> QED BY <3>1, <3>2
  <2>2. CASE q # p
    <3>1. q \in DOMAIN live /\ q \in Nat /\ live'[q] = live[q]
      BY <1>1, <2>2 DEF IInv, TypeOK
    <3>2. q - HDR \in Blocks \ {c}
      BY <1>2, <2>2, <3>1 DEF IInv, FlagsMatchOwners
    <3>3. heap[q - HDR].size >= live[q]
      BY <3>1 DEF FitInv, AllocFits
    <3> QED BY <1>5, <3>1, <3>2, <3>3
  <2> QED BY <2>1, <2>2
<1> QED BY <1>1, <1>3, <1>6 DEF FitInv

LEMMA KfreeFitInv == ASSUME IInv, FitInv, NEW p, kfree(p) PROVE FitInv'
<1>1. pc' # "boot" /\ pc' # "kmalloc" /\ size' = size
  BY DEF kfree
<1>2. Blocks' = Blocks /\ \A b \in Blocks : heap'[b].size = heap[b].size
  BY DEF kfree, Blocks, IInv, TypeOK, Block
<1>3. \A q \in DOMAIN live' : q \in DOMAIN live /\ live'[q] = live[q]
  BY DEF kfree
<1>4. AllocFits'
  BY <1>2, <1>3 DEF AllocFits, FitInv, IInv, FlagsMatchOwners
<1> QED BY <1>1, <1>2, <1>4 DEF FitInv

(* Merging moves no block in use.                                          *)
LEMMA MergeFitInv == ASSUME IInv, FitInv, Merge PROVE FitInv'
<1> DEFINE gone == heap[current].next
<1>1. /\ pc' = "kfree" /\ UNCHANGED <<size, live>>
      /\ Blocks' = Blocks \ {gone}
      /\ heap[current].free /\ heap[gone].free
      /\ \A b \in Blocks \ {gone, current} : heap'[b] = heap[b]
  BY DEF Merge, Absorb, AbsorbedWith, CanMerge, Blocks
<1>2. ASSUME NEW q \in DOMAIN live PROVE heap'[q - HDR] = heap[q - HDR]
  BY <1>1 DEF IInv, FlagsMatchOwners
<1>3. AllocFits'
  BY <1>1, <1>2 DEF AllocFits, FitInv
<1> QED BY <1>1, <1>3 DEF FitInv

LEMMA NextFitInv ==
  ASSUME NoWrap, IInv, FitInv, [Next]_vars PROVE FitInv'
<1> USE HeapAssumption
<1>1. ASSUME NEW n \in InitSizes, kalloc_init(n) PROVE FitInv'
  <2>1. DOMAIN live = {} /\ UNCHANGED <<live, size>> /\ pc' # "kmalloc" /\ pc' # "boot"
    BY <1>1 DEF kalloc_init, IInv, WalkInv, FlagsMatchOwners
  <2>2. Blocks' \subseteq Blocks \cup {HeapStart}
    BY <1>1 DEF kalloc_init, Blocks
  <2> QED BY <2>1, <2>2 DEF FitInv, AllocFits
<1>2. ASSUME NEW n \in Requests, kmalloc(n) PROVE FitInv'
  BY <1>2, EnterFitInv DEF kmalloc, NoWrap
<1>3. ASSUME NEW a \in Arrays, kcalloc(a[1], a[2]) PROVE FitInv'
  <2>1. a[1] \in Nat /\ a[2] \in Nat
    OBVIOUS
  <2>2. a[1] * a[2] \in Nat /\ a[1] * a[2] + 7 < SizeMod
    BY <2>1 DEF NoWrap
  <2>3. (a[1] * a[2]) % SizeMod = a[1] * a[2]
    BY <2>2
  <2> QED BY <1>3, <2>2, <2>3, EnterFitInv DEF kcalloc
<1>4. ASSUME NEW p \in Freeable, kfree(p) PROVE FitInv'
  BY <1>4, KfreeFitInv
<1>5. CASE Skip \/ Advance
  BY <1>5 DEF Skip, Advance, FitInv, AllocFits, Blocks
<1>6. CASE Fail \/ Done
  BY <1>6 DEF Fail, Done, Return, FitInv, AllocFits, Blocks
<1>7. CASE Halted \/ UNCHANGED vars
  BY <1>7 DEF Halted, vars, FitInv, AllocFits, Blocks
<1> QED BY <1>1, <1>2, <1>3, <1>4, <1>5, <1>6, <1>7, TakeFitInv, MergeFitInv
        DEF Next, Call, Loop

LEMMA FitInvariance == ASSUME NoWrap PROVE Spec => [](IInv /\ FitInv)
<1>1. Init => FitInv
  BY DEF Init, FitInv, AllocFits, Blocks
<1>2. IInv /\ FitInv /\ [Next]_vars => FitInv'
  BY NextFitInv
<1> QED BY <1>1, <1>2, Invariance, PTL DEF Spec

(* Unless a request leaves size_t, what kmalloc and kcalloc return is as   *)
(* large as what the caller asked for.                                     *)
THEOREM AllocFitsHolds == ASSUME NoWrap PROVE Spec => []AllocFits
<1>1. FitInv => AllocFits
  BY DEF FitInv
<1> QED BY <1>1, FitInvariance, PTL

(* What kmalloc returns satisfies the contract: aligned, in the arena and  *)
(* clear of what other callers hold.                                       *)
LEMMA TakeHandsOut == ASSUME IInv, FitInv, Take PROVE Contract!HandOut
<1> USE HeapAssumption DEF NULL, HDR
<1> SUFFICES ASSUME NEW c, c = current PROVE Contract!HandOut
  OBVIOUS
<1> DEFINE p == c + HDR
<1>1. /\ pc = "kmalloc" /\ total' = total
      /\ live' = [q \in DOMAIN live \cup {p} |->
                    IF q = p THEN asked ELSE live[q]]
  BY DEF Take
<1>2. /\ c \in Blocks /\ heap[c].free /\ heap[c].size >= asked
      /\ \A b \in Blocks : b \in Nat /\ b % 8 = 0 /\ heap[b].size \in Nat
      /\ size \in Nat /\ asked \in Nat /\ total \in Nat
  BY <1>1 DEF Take, IInv, TypeOK, Fits, Block, FitInv
<1>3. /\ HeapStart <= c /\ End(c) <= HeapEnd
      /\ \A a, b \in Blocks : a < b => End(a) <= b
  BY <1>1, <1>2 DEF IInv, Tiling
<1>4. p \notin DOMAIN live
  <2>1. p - HDR = c
    BY <1>2
  <2> QED BY <1>2, <2>1 DEF IInv, FlagsMatchOwners
<1>5. p \in DOMAIN live' \ DOMAIN live /\ live'[p] = asked
  BY <1>1, <1>4
<1>6. p % 8 = 0 /\ HeapStart <= p /\ p + asked <= HeapStart + total
  BY <1>2, <1>3 DEF End, HeapEnd
<1>7. ASSUME NEW q \in DOMAIN live
      PROVE p + asked <= q \/ q + live[q] <= p
  <2>1. q \in Nat /\ live[q] \in Nat
    BY DEF IInv, TypeOK
  <2>2. q - HDR \in Blocks /\ ~heap[q - HDR].free
    BY DEF IInv, FlagsMatchOwners
  <2>3. heap[q - HDR].size >= live[q]
    BY DEF FitInv, AllocFits
  <2>4. CASE q - HDR < c
    BY <1>2, <1>3, <2>1, <2>2, <2>3, <2>4 DEF End
  <2>5. CASE c < q - HDR
    BY <1>2, <1>3, <2>1, <2>2, <2>3, <2>5 DEF End
  <2> QED BY <1>2, <2>1, <2>2, <2>4, <2>5
<1>8. live' = [q \in DOMAIN live \cup {p} |-> IF q = p THEN live'[p] ELSE live[q]]
  BY <1>1, <1>5
<1> QED BY <1>1, <1>5, <1>6, <1>7, <1>8 DEF Contract!HandOut, Contract!Disjoint

(* lib/alloc.c implements the contract of include/alloc.h, unless a        *)
(* request leaves size_t: every step of a call is kalloc_init making the   *)
(* arena, memory handed out, memory given back, or invisible.              *)
THEOREM Refinement == ASSUME NoWrap PROVE Spec => ImplementsContract
<1>1. Init => Contract!Init
  BY DEF Init, Contract!Init
<1>2. IInv /\ FitInv /\ [Next]_vars => [Contract!Next]_(Contract!vars)
  <2> SUFFICES ASSUME IInv, FitInv, [Next]_vars
               PROVE  Contract!Next \/ UNCHANGED Contract!vars
    OBVIOUS
  <2> USE DEF Contract!vars
  <2>1. ASSUME NEW n \in InitSizes, kalloc_init(n)
        PROVE Contract!Next \/ UNCHANGED Contract!vars
    <3>1. total = 0 /\ live' = live
      BY <2>1 DEF kalloc_init, FitInv
    <3>2. total' = total \/ total' # 0
      BY <2>1, HeapAssumption DEF kalloc_init, HDR
    <3> QED BY <3>1, <3>2 DEF Contract!Next, Contract!Create
  <2>2. ASSUME NEW n, NEW need, Enter(n, need) PROVE UNCHANGED Contract!vars
    BY <2>2 DEF Enter
  <2>3. ASSUME NEW p \in Freeable, kfree(p)
        PROVE Contract!Next \/ UNCHANGED Contract!vars
    <3>1. CASE live' = live
      BY <2>3, <3>1 DEF kfree
    <3>2. CASE live' # live
      <4>1. live' = [q \in DOMAIN live \ {p} |-> live[q]] /\ total' = total
        BY <2>3, <3>2 DEF kfree
      <4>2. p \in DOMAIN live
        BY <3>2, <4>1 DEF IInv, TypeOK
      <4> QED BY <4>1, <4>2 DEF Contract!Next, Contract!GiveBack
    <3> QED BY <3>1, <3>2
  <2>4. CASE Take
    BY <2>4, TakeHandsOut DEF Contract!Next
  <2>5. CASE Skip \/ Fail \/ Merge \/ Advance \/ Done \/ Halted \/ UNCHANGED vars
    BY <2>5 DEF Skip, Fail, Merge, Advance, Done, Halted, vars
  <2> QED BY <2>1, <2>2, <2>3, <2>4, <2>5
          DEF Next, Call, Loop, kmalloc, kcalloc
<1> QED BY <1>1, <1>2, FitInvariance, PTL DEF Spec, ImplementsContract, Contract!Spec
=============================================================================
