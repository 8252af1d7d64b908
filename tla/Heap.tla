-------------------------------- MODULE Heap --------------------------------
(***************************************************************************)
(* The kernel heap, lib/alloc.c: one list of blocks in address order, each *)
(* with a header in front of its payload.  kmalloc walks the list from     *)
(* g_heap_start to the first free block that is large enough and splits it *)
(* when the rest can hold a header and 8 bytes; kfree marks the block free *)
(* and walks the whole list once, merging neighbours.  One step of the     *)
(* model is one iteration of those loops.                                  *)
(*                                                                         *)
(* Payload bytes are not modelled.  What stays behind of a header when its *)
(* block is merged away is its magic word, because kfree looks at it.      *)
(***************************************************************************)
EXTENDS Integers, FiniteSets

CONSTANTS
  HeapStart,      \* ld_heap_start
  InitSizes,      \* sizes kalloc_init may be called with
  SizeMod,        \* 2^64 in the build: size_t arithmetic is modulo SizeMod
  Requests,       \* sizes kmalloc is called with
  Arrays,         \* <<nmemb, size>> pairs kcalloc is called with
  MayDoubleFree   \* do callers free a pointer they have already freed?

HDR == 32         \* sizeof(heap_block_t)
NULL == 0

ASSUME HeapAssumption ==
  /\ HeapStart \in Nat \ {0}
  /\ HeapStart % 8 = 0
  /\ SizeMod \in Nat \ {0}
  /\ InitSizes \subseteq Nat
  /\ Requests \subseteq Nat
  /\ Arrays \subseteq Nat \X Nat
  /\ MayDoubleFree \in BOOLEAN

VARIABLES
  pc,        \* "boot", "idle", "kmalloc", "kfree" (in the loop), "panic"
  total,     \* g_heap_total_size
  heap,      \* the list: address of a header |-> its fields
  magic,     \* addresses whose magic word is HEAP_MAGIC
  current,   \* local of both loops
  size,      \* local of kmalloc: the request, rounded up
  asked,     \* bytes the caller of the kmalloc under way needs
  live,      \* pointer held by a caller |-> bytes it asked for
  freed      \* pointers a caller may free twice: given back, not handed out

vars == <<pc, total, heap, magic, current, size, asked, live, freed>>

Block == [size : Nat, next : Nat, free : BOOLEAN]
Blocks == DOMAIN heap
HeapEnd == HeapStart + total

(* First address after block b.                                            *)
End(b) == b + HDR + heap[b].size

Init ==
  /\ pc = "boot"
  /\ total = 0
  /\ heap = << >>
  /\ magic = {}
  /\ current = NULL /\ size = 0 /\ asked = 0
  /\ live = << >>
  /\ freed = {}

kalloc_init(n) ==
  /\ pc = "boot"
  /\ IF n < HDR
     THEN pc' = "panic" /\ UNCHANGED <<total, heap, magic>>
     ELSE /\ pc' = "idle"
          /\ total' = n
          /\ heap' = [b \in {HeapStart} |->
                        [size |-> n - HDR, next |-> NULL, free |-> TRUE]]
          /\ magic' = {HeapStart}
  /\ UNCHANGED <<current, size, asked, live, freed>>

-----------------------------------------------------------------------------
(* (size + 7) & ~7, in size_t.                                             *)
RoundUpDown(n) == (n \div 8) * 8
RoundUp(n) == (((n + 7) % SizeMod) \div 8) * 8

(* Entry of kmalloc(n) by a caller that needs the given number of bytes.   *)
Enter(n, need) ==
  /\ pc = "idle"
  /\ IF n = 0
     THEN UNCHANGED <<pc, current, size, asked>>      \* returns nullptr
     ELSE /\ pc' = "kmalloc"
          /\ current' = HeapStart
          /\ size' = RoundUp(n)
          /\ asked' = need
  /\ UNCHANGED <<total, heap, magic, live, freed>>

kmalloc(n) == Enter(n, n)

(* kcalloc multiplies in size_t; zeroing the block changes no header.      *)
kcalloc(nmemb, n) == Enter((nmemb * n) % SizeMod, nmemb * n)

(* A call returns; its locals are gone.                                    *)
Return == pc' = "idle" /\ current' = NULL /\ size' = 0 /\ asked' = 0

FitsAny(b) == heap[b].size >= size
Fits(b) == heap[b].free /\ heap[b].size >= size

(* size is at most heap[b].size here, so the sum cannot wrap.              *)
CanSplit(b) == heap[b].size >= size + HDR + 8

(* The list after block b is cut to size bytes, the rest a new free block. *)
Split(b) ==
  LET rest == b + HDR + size
  IN  [a \in Blocks \cup {rest} |->
         IF a = b THEN [size |-> size, next |-> rest, free |-> FALSE]
         ELSE IF a = rest
              THEN [size |-> heap[b].size - size - HDR,
                    next |-> heap[b].next, free |-> TRUE]
              ELSE heap[a]]

(* kmalloc returns the payload of current.                                 *)
Take ==
  /\ pc = "kmalloc" /\ current # NULL /\ Fits(current)
  /\ IF CanSplit(current)
     THEN /\ heap' = Split(current)
          /\ magic' = magic \cup {current + HDR + size}
     ELSE /\ heap' = [heap EXCEPT ![current].free = FALSE]
          /\ UNCHANGED magic
  /\ LET p == current + HDR
     IN  /\ live' = [q \in DOMAIN live \cup {p} |->
                       IF q = p THEN asked ELSE live[q]]
         /\ freed' = freed \ {p}
  /\ Return
  /\ UNCHANGED total

(* The walk of kmalloc goes on to the next block.                          *)
Skip ==
  /\ pc = "kmalloc" /\ current # NULL /\ ~Fits(current)
  /\ current' = heap[current].next
  /\ UNCHANGED <<pc, total, heap, magic, size, asked, live, freed>>

(* The walk of kmalloc ran off the list: it logs and returns NULL.         *)
FailAtLast ==
  /\ pc = "kmalloc" /\ (current = NULL \/ heap[current].next = NULL)
  /\ Return
  /\ UNCHANGED <<total, heap, magic, live, freed>>
Fail ==
  /\ pc = "kmalloc" /\ current = NULL
  /\ Return
  /\ UNCHANGED <<total, heap, magic, live, freed>>

-----------------------------------------------------------------------------
(* Marking a header that is no longer on the list writes dead memory.      *)
kfree(p) ==
  /\ pc = "idle"
  /\ LET block == p - HDR
     IN  IF p = NULL
         THEN UNCHANGED <<pc, heap, current, live, freed>>
         ELSE IF block \notin magic
         THEN pc' = "panic" /\ UNCHANGED <<heap, current, live, freed>>
         ELSE /\ heap' = [b \in Blocks |->
                            [heap[b] EXCEPT !.free = @ \/ b = block]]
              /\ current' = HeapStart
              /\ live' = [q \in DOMAIN live \ {p} |-> live[q]]
              /\ freed' = IF MayDoubleFree THEN freed \cup {p} ELSE {}
              /\ pc' = "kfree"
  /\ UNCHANGED <<total, magic, size, asked>>

CanMergeAny(b) == heap[b].free /\ heap[b].next # NULL
CanMergeNotLast(b) ==
  /\ heap[b].free
  /\ heap[b].next # NULL
  /\ heap[heap[b].next].free /\ heap[heap[b].next].next # NULL
CanMerge(b) ==
  /\ heap[b].free
  /\ heap[b].next # NULL
  /\ heap[heap[b].next].free

(* current absorbs its successor and is looked at again.                   *)
AbsorbedWith(header) ==
  LET gone == heap[current].next
  IN  [b \in Blocks \ {gone} |->
         IF b = current
         THEN [size |-> heap[b].size + header + heap[gone].size,
               next |-> heap[gone].next, free |-> TRUE]
         ELSE heap[b]]
AbsorbForgetHeader == heap' = AbsorbedWith(0) /\ UNCHANGED current
AbsorbAndAdvance ==
  heap' = AbsorbedWith(HDR) /\ current' = heap[heap[current].next].next
Absorb == heap' = AbsorbedWith(HDR) /\ UNCHANGED current

Merge ==
  /\ pc = "kfree" /\ current # NULL /\ CanMerge(current)
  /\ Absorb
  /\ UNCHANGED <<pc, total, magic, size, asked, live, freed>>

AdvancePastUsed ==
  /\ pc = "kfree" /\ current # NULL /\ ~CanMerge(current)
  /\ current' = IF heap[current].free /\ heap[current].next # NULL
                THEN current ELSE heap[current].next
  /\ UNCHANGED <<pc, total, heap, magic, size, asked, live, freed>>
Advance ==
  /\ pc = "kfree" /\ current # NULL /\ ~CanMerge(current)
  /\ current' = heap[current].next
  /\ UNCHANGED <<pc, total, heap, magic, size, asked, live, freed>>

Done ==
  /\ pc = "kfree" /\ current = NULL
  /\ Return
  /\ UNCHANGED <<total, heap, magic, live, freed>>

(* kpanic ends in hlt.                                                     *)
Halted == pc = "panic" /\ UNCHANGED vars

-----------------------------------------------------------------------------
(* Pointers a caller passes to kfree.                                      *)
Freeable == {NULL} \cup DOMAIN live \cup (IF MayDoubleFree THEN freed ELSE {})

Call ==
  \/ \E n \in InitSizes : kalloc_init(n)
  \/ \E n \in Requests : kmalloc(n)
  \/ \E a \in Arrays : kcalloc(a[1], a[2])
  \/ \E p \in Freeable : kfree(p)

Loop == Take \/ Skip \/ Fail \/ Merge \/ Advance \/ Done

Next == Call \/ Loop \/ Halted

Spec == Init /\ [][Next]_vars

(* A call under way keeps executing; nothing forces callers to call.       *)
FairSpec == Spec /\ WF_vars(Loop)

-----------------------------------------------------------------------------
(* The variables stay in their types, and the loops only stand on headers  *)
(* of the list.                                                            *)
TypeOK ==
  /\ pc \in {"boot", "idle", "kmalloc", "kfree", "panic"}
  /\ total \in Nat
  /\ heap \in [Blocks -> Block] /\ Blocks \subseteq Nat
  /\ magic \subseteq Nat /\ Blocks \subseteq magic
  /\ current \in Blocks \cup {NULL}
  /\ size \in Nat /\ asked \in Nat
  /\ live \in [DOMAIN live -> Nat] /\ DOMAIN live \subseteq Nat
  /\ freed \subseteq Nat

(* The list kmalloc and kfree walk covers the arena exactly: it starts at  *)
(* g_heap_start, each next pointer is the address right after the block,   *)
(* the last block ends at the end of the arena, and no block lies inside   *)
(* another.                                                                *)
Tiling ==
  pc \notin {"boot", "panic"} =>
    /\ HeapStart \in Blocks
    /\ \A b \in Blocks :
         /\ HeapStart <= b /\ End(b) <= HeapEnd
         /\ IF End(b) = HeapEnd THEN heap[b].next = NULL
            ELSE heap[b].next = End(b) /\ End(b) \in Blocks
    /\ \A a, b \in Blocks : a < b => End(a) <= b

(* A block is marked allocated exactly when some caller holds its payload: *)
(* memory in use is never offered again, memory given back is not lost.    *)
FlagsMatchOwners ==
  /\ \A p \in DOMAIN live : p - HDR \in Blocks /\ ~heap[p - HDR].free
  /\ \A b \in Blocks : ~heap[b].free => b + HDR \in DOMAIN live

(* What kmalloc and kcalloc return is as large as what the caller asked    *)
(* for (include/alloc.h:17-18, 32-33).                                     *)
AllocFits ==
  \A p \in DOMAIN live : heap[p - HDR].size >= live[p]

(* Between calls no two neighbours are both free: one walk of kfree merges *)
(* everything that can be merged, and kmalloc's split creates no new pair. *)
FullyCoalesced ==
  pc = "idle" => \A b \in Blocks : ~CanMerge(b)

(* Once every caller has given its memory back, the heap is the single     *)
(* free block kalloc_init made: no sequence of calls fragments or leaks it.*)
NoLeak ==
  (pc = "idle" /\ live = << >>) =>
    heap = [b \in {HeapStart} |->
              [size |-> total - HDR, next |-> NULL, free |-> TRUE]]

(* kmalloc returns NULL only if no free block could hold the request.      *)
FailOnlyWhenFull ==
  [][Fail => \A b \in Blocks : ~Fits(b)]_vars

(* kfree's message (lib/alloc.c:71) names a double free as what its magic  *)
(* check catches: a free that passes the check is of a pointer in use.     *)
DoubleFreeCaught ==
  [][(pc = "idle" /\ pc' = "kfree") => DOMAIN live' # DOMAIN live]_vars

(* Every kmalloc and kfree returns: the walk that merges without advancing *)
(* runs out of blocks.                                                     *)
CallsReturn == (pc \in {"kmalloc", "kfree"}) ~> (pc = "idle")

Contract == INSTANCE HeapContract

(* The allocator implements the contract of include/alloc.h.               *)
ImplementsContract == Contract!Spec

(* The inductive invariant behind the theorems.  While kmalloc walks, what *)
(* it has passed does not fit; while kfree walks, what it has passed is    *)
(* merged.                                                                 *)
Passed(b) == current = NULL \/ b < current

WalkInv ==
  /\ pc = "boot" => Blocks = {}
  /\ pc \in {"boot", "idle"} => current = NULL
  /\ pc = "kmalloc" => \A b \in Blocks : Passed(b) => ~Fits(b)
  /\ pc = "kmalloc" => \A b \in Blocks : ~CanMerge(b)
  /\ pc = "kfree" => \A b \in Blocks : Passed(b) => ~CanMerge(b)

IInv == TypeOK /\ Tiling /\ FlagsMatchOwners /\ FullyCoalesced /\ WalkInv
(* Requests so large that rounding them up, or the product of kcalloc,     *)
(* leaves size_t are the ones for which AllocFits fails.                   *)
NoWrap ==
  /\ \A n \in Requests : n + 7 < SizeMod
  /\ \A a \in Arrays : a[1] * a[2] + 7 < SizeMod

(* What AllocFits and the contract need besides IInv: every header lies on *)
(* a multiple of 8, and what kmalloc looks for covers what was asked.      *)
FitInv ==
  /\ pc = "boot" => total = 0
  /\ size % 8 = 0 /\ \A b \in Blocks : b % 8 = 0
  /\ pc = "kmalloc" => size >= asked
  /\ AllocFits
=============================================================================
