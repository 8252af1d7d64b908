------------------------------- MODULE MCHeap -------------------------------
(* Small instances of Heap for TLC: real header size and alignment, a heap *)
(* with room for up to four minimal blocks, and a size_t of 10 bits.       *)
EXTENDS Heap

MCInitSizes == {24, 40, 196}
MCRequests == {0, 1, 41, 180}
MCArrays == {<<3, 7>>}
MCWrapRequests == {8, 1020}
=============================================================================
