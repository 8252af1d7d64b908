---------------------------- MODULE HeapContract ----------------------------
(***************************************************************************)
(* What include/alloc.h promises the callers of the kernel heap, without   *)
(* saying how: an arena appears once (kalloc_init), after that memory is   *)
(* handed out and given back.  A pointer that is handed out is aligned to  *)
(* 8 bytes and names a region of the arena that overlaps no region another *)
(* caller still holds; giving one region back disturbs no other.           *)
(* Heap.tla is shown to implement this module.                             *)
(***************************************************************************)
EXTENDS Integers

CONSTANTS HeapStart   \* first address of the arena

VARIABLES
  total,   \* bytes in the arena, 0 before kalloc_init
  live     \* live[p] = bytes asked for by the caller that now holds p

vars == <<total, live>>

(* The bytes [p, p + n) and [q, q + m) have none in common.                *)
Disjoint(p, n, q, m) == p + n <= q \/ q + m <= p

Init == total = 0 /\ live = << >>

Create ==
  /\ total = 0
  /\ total' # 0
  /\ UNCHANGED live

HandOut ==
  \E p \in DOMAIN live' \ DOMAIN live :
    /\ live' = [q \in DOMAIN live \cup {p} |-> IF q = p THEN live'[p] ELSE live[q]]
    /\ p % 8 = 0
    /\ HeapStart <= p /\ p + live'[p] <= HeapStart + total
    /\ \A q \in DOMAIN live : Disjoint(p, live'[p], q, live[q])
    /\ UNCHANGED total

GiveBack ==
  \E p \in DOMAIN live :
    /\ live' = [q \in DOMAIN live \ {p} |-> live[q]]
    /\ UNCHANGED total

Next == Create \/ HandOut \/ GiveBack

Spec == Init /\ [][Next]_vars
=============================================================================
