------------------------------- MODULE Paging -------------------------------
(***************************************************************************)
(* The page tables, drivers/paging.c: four levels of tables taken from a   *)
(* fixed pool, filled with 2 MiB and 4 KiB identity mappings.  paging_init *)
(* maps low memory, the kernel and the usable regions of the memory map,   *)
(* then loads cr3; fb_init, lapic_init (on every CPU) and hpet_init map    *)
(* device registers afterwards.  One step maps one page.                   *)
(*                                                                         *)
(* A table is a function from its indices to entries.  mem holds the       *)
(* tables by their address; a write through a table pointer that does not  *)
(* name a table (it names a 2 MiB page) is recorded in stray.              *)
(***************************************************************************)
EXTENDS Integers, Sequences, FiniteSets

CONSTANTS
  Page,        \* bytes in a page, 4096 in the source
  Fan,         \* entries in a table, 512
  PoolSize,    \* tables in page_table_pool, 32
  PoolBase,    \* address of page_table_pool
  KernelStart, KernelEnd,   \* ld_kernel_start, ld_kernel_end
  MemoryMaps,  \* memory maps the loader may pass: sequences of <<base, length>>
  Devices      \* register blocks <<address, size>> that drivers map

HugePage == Page * Fan
Reach == Page * Fan * Fan * Fan * Fan    \* addresses below it have an index

ASSUME PagingAssumption ==
  /\ Page \in Nat \ {0} /\ Fan \in Nat \ {0} /\ PoolSize \in Nat \ {0}
  /\ PoolBase \in Nat /\ PoolBase % Page = 0
  /\ KernelStart \in Nat /\ KernelEnd \in Nat /\ KernelStart < KernelEnd
  /\ KernelStart <= PoolBase /\ PoolBase + PoolSize * Page <= KernelEnd
  /\ \A m \in MemoryMaps : m \in Seq(Nat \X Nat)
  /\ Devices \subseteq Nat \X Nat

VARIABLES
  mmap,    \* the memory map the loader left
  pc,      \* "boot", "paging_init", "running", "panic"
  g_pml4,  \* address of the top table, NULL before paging_init
  cr3,
  used,    \* pool_offset, in tables
  mem,     \* address of a table |-> its entries
  todo,    \* regions paging_init has still to map
  job,     \* the region being mapped
  stray    \* has a page been written as if it were a table?

vars == <<mmap, pc, g_pml4, cr3, used, mem, todo, job, stray>>

NULL == -1
Absent == [addr |-> NULL, huge |-> FALSE, cache_disable |-> FALSE]
EmptyTable == [i \in 0..(Fan - 1) |-> Absent]
NoJob == [next |-> 0, end |-> 0, huge |-> FALSE, cache_disable |-> FALSE,
          request |-> <<0, 0>>]

-----------------------------------------------------------------------------
AlignDown(a, unit) == (a \div unit) * unit
AlignUp(a, unit) == AlignDown(a + unit - 1, unit)

pml4_idx(a) == (a \div (HugePage * Fan * Fan)) % Fan
pdpt_idx(a) == (a \div (HugePage * Fan)) % Fan
pd_idx(a) == (a \div HugePage) % Fan
pt_idx(a) == (a \div Page) % Fan

(* The regions paging_init maps, in its order.                             *)
KernelSizeTight == AlignUp(KernelEnd - KernelStart, HugePage) - HugePage
KernelSize ==
  AlignUp(AlignUp(KernelEnd - KernelStart, HugePage) + PoolSize * Page, HugePage)

Region(base, size) ==
  [next |-> base, end |-> base + size, huge |-> TRUE, cache_disable |-> FALSE,
   request |-> <<base, size>>]

UsableRegion(entry) ==
  LET base == AlignDown(entry[1], HugePage)
      end == AlignUp(entry[1] + entry[2], HugePage)
  IN  Region(base, end - base)

InitRegions(m) ==
  <<Region(0, HugePage), Region(KernelStart, KernelSize)>>
    \o [i \in 1..Len(m) |-> UsableRegion(m[i])]

-----------------------------------------------------------------------------
(* A walk through the tables: what is in mem, how many tables are used,    *)
(* the table the walk has reached, and whether it went wrong.              *)
At(table) == [mem |-> mem, used |-> used, table |-> table, fault |-> "none"]

(* alloc_page_table, for entry i of the table reached.                     *)
NewTableLast(w) == PoolBase + (w.used - 1) * Page
NewTable(w) == PoolBase + w.used * Page
alloc_page_table(w, i) ==
  LET new == NewTable(w)
      link == [addr |-> new, huge |-> FALSE, cache_disable |-> FALSE]
  IN  IF w.used = PoolSize THEN [w EXCEPT !.fault = "panic"]
      ELSE [w EXCEPT !.used = w.used + 1,
                     !.mem = [a \in DOMAIN w.mem \cup {new} |->
                                IF a = new THEN EmptyTable
                                ELSE IF a = w.table
                                THEN [w.mem[a] EXCEPT ![i] = link]
                                ELSE w.mem[a]],
                     !.table = new]

PresentNever(entry) == FALSE
Present(entry) == entry.addr # NULL

(* The table that entry i points to, which is allocated if there is none.  *)
Descend(w, i) ==
  IF w.fault # "none" THEN w
  ELSE IF w.table \notin DOMAIN w.mem THEN [w EXCEPT !.fault = "stray"]
  ELSE IF Present(w.mem[w.table][i]) THEN [w EXCEPT !.table = w.mem[w.table][i].addr]
  ELSE alloc_page_table(w, i)

Write(w, i, entry) ==
  IF w.fault # "none" THEN w
  ELSE IF w.table \notin DOMAIN w.mem THEN [w EXCEPT !.fault = "stray"]
  ELSE [w EXCEPT !.mem[w.table][i] = entry]

map_page_4kb(a, cd) ==
  Write(Descend(Descend(Descend(At(g_pml4), pml4_idx(a)), pdpt_idx(a)), pd_idx(a)),
        pt_idx(a),
        [addr |-> AlignDown(a, Page), huge |-> FALSE, cache_disable |-> cd])

map_page_2mb(a) ==
  Write(Descend(Descend(At(g_pml4), pml4_idx(a)), pdpt_idx(a)),
        pd_idx(a),
        [addr |-> AlignDown(a, HugePage), huge |-> TRUE, cache_disable |-> FALSE])

-----------------------------------------------------------------------------
Init ==
  /\ mmap \in MemoryMaps
  /\ pc = "boot"
  /\ g_pml4 = NULL /\ cr3 = NULL
  /\ used = 0
  /\ mem = << >>
  /\ todo = << >> /\ job = NoJob
  /\ stray = FALSE

(* paging_init up to its first map_region_2mb; a second call panics.       *)
paging_init ==
  /\ pc \in {"boot", "running"} /\ job = NoJob
  /\ IF g_pml4 # NULL
     THEN pc' = "panic" /\ UNCHANGED <<g_pml4, used, mem, todo>>
     ELSE /\ pc' = "paging_init"
          /\ g_pml4' = PoolBase
          /\ used' = 1
          /\ mem' = [a \in {PoolBase} |-> EmptyTable]
          /\ todo' = InitRegions(mmap)
  /\ UNCHANGED <<mmap, cr3, job, stray>>

NextRegion ==
  /\ pc = "paging_init" /\ job.next >= job.end /\ todo # << >>
  /\ job' = Head(todo)
  /\ todo' = Tail(todo)
  /\ UNCHANGED <<mmap, pc, g_pml4, cr3, used, mem, stray>>

(* One turn of map_region_2mb or map_region_4kb.                           *)
MapPage ==
  /\ pc # "panic" /\ ~stray /\ job.next < job.end
  /\ \E w \in {IF job.huge THEN map_page_2mb(job.next)
               ELSE map_page_4kb(job.next, job.cache_disable)} :
       /\ mem' = w.mem
       /\ used' = w.used
       /\ stray' = (w.fault = "stray")
       /\ pc' = IF w.fault = "panic" THEN "panic" ELSE pc
  /\ job' = [job EXCEPT !.next = @ + (IF job.huge THEN HugePage ELSE Page)]
  /\ UNCHANGED <<mmap, g_pml4, cr3, todo>>

paging_switch ==
  /\ pc = "paging_init" /\ job.next >= job.end /\ todo = << >>
  /\ cr3' = g_pml4
  /\ job' = NoJob
  /\ pc' = "running"
  /\ UNCHANGED <<mmap, g_pml4, used, mem, todo, stray>>

LastPageOfSize(addr, size) == AlignDown(addr, Page) + AlignUp(size, Page)
LastPage(addr, size) == AlignUp(addr + size, Page)
paging_map_mmio_region(addr, size) ==
  /\ pc = "running" /\ job = NoJob
  /\ job' = [next |-> AlignDown(addr, Page), end |-> LastPage(addr, size),
             huge |-> FALSE, cache_disable |-> TRUE, request |-> <<addr, size>>]
  /\ UNCHANGED <<mmap, pc, g_pml4, cr3, used, mem, todo, stray>>

RegionDone ==
  /\ pc = "running" /\ job # NoJob /\ job.next >= job.end
  /\ job' = NoJob
  /\ UNCHANGED <<mmap, pc, g_pml4, cr3, used, mem, todo, stray>>

Halted == pc = "panic" /\ UNCHANGED vars

Next ==
  \/ paging_init \/ NextRegion \/ MapPage \/ paging_switch \/ RegionDone
  \/ \E d \in Devices : paging_map_mmio_region(d[1], d[2])
  \/ Halted

Spec == Init /\ [][Next]_vars

-----------------------------------------------------------------------------
(* Number n of a large page that paging_init maps for the memory map m.    *)
InRegion(m, n) ==
  \E k \in 1..Len(InitRegions(m)) :
    /\ InitRegions(m)[k].next \div HugePage <= n
    /\ n < InitRegions(m)[k].end \div HugePage

(* What the theorems of PagingProofs ask of memory maps and devices.       *)
(* Addresses have no more bits than the tables translate.                  *)
InReach ==
  /\ \A m \in MemoryMaps : \A k \in 1..Len(InitRegions(m)) :
       InitRegions(m)[k].end <= Reach
  /\ \A d \in Devices : LastPage(d[1], d[2]) <= Reach

(* The registers of devices lie outside the large pages that paging_init   *)
(* maps, as map_page_4kb needs.                                            *)
Apart ==
  \A m \in MemoryMaps, d \in Devices :
    \A a \in AlignDown(d[1], Page)..(LastPage(d[1], d[2]) - 1) :
      ~InRegion(m, a \div HugePage)

-----------------------------------------------------------------------------
(* The translation the CPU makes of address a with top table t: external,  *)
(* from the format the entries are written in.                             *)
Lookup(a, t) ==
  LET l4 == mem[t][pml4_idx(a)]
      l3 == mem[l4.addr][pdpt_idx(a)]
      l2 == mem[l3.addr][pd_idx(a)]
      l1 == mem[l2.addr][pt_idx(a)]
      leaf == IF l4.addr = NULL THEN Absent
              ELSE IF l3.addr = NULL THEN Absent
              ELSE IF l2.huge \/ l2.addr = NULL THEN l2 ELSE l1
  IN  leaf

Translate(a) ==
  IF g_pml4 = NULL THEN NULL
  ELSE LET leaf == Lookup(a, g_pml4)
       IN  IF leaf.addr = NULL THEN NULL
           ELSE leaf.addr + (a % (IF leaf.huge THEN HugePage ELSE Page))

Addresses == 0..(Reach - 1)

(* What is mapped is mapped to itself, at every moment; and when cr3 is    *)
(* loaded, and ever after, everything the kernel runs on is mapped: low    *)
(* memory, its image with the pool, the usable memory.                     *)
KernelStaysMapped ==
  /\ \A a \in Addresses : Translate(a) \in {NULL, a}
  /\ cr3 # NULL =>
       /\ \A a \in 0..(HugePage - 1) : Translate(a) = a
       /\ \A a \in KernelStart..(KernelEnd - 1) : Translate(a) = a
       /\ \A i \in 1..Len(mmap) :
            \A a \in mmap[i][1]..(mmap[i][1] + mmap[i][2] - 1) : Translate(a) = a

(* Each table hangs under exactly one entry, the top table under none: no  *)
(* mapping is changed through a table that another region uses.  And no    *)
(* page of memory is written as if it were a page table.                   *)
TablesFormTree ==
  /\ \A t \in DOMAIN mem :
       Cardinality({e \in (DOMAIN mem) \X (0..(Fan - 1)) :
                      mem[e[1]][e[2]].addr = t /\ ~mem[e[1]][e[2]].huge})
         = IF t = g_pml4 THEN 0 ELSE 1
  /\ ~stray

(* A mapping, once made, is neither removed nor moved; and mapping the     *)
(* same registers again, as lapic_init does on every AP and without a      *)
(* lock, changes no table: APs cannot disturb each other.                  *)
MappingsStay ==
  [][/\ \A a \in Addresses : Translate(a) # NULL => Translate(a)' = Translate(a)
     /\ (MapPage /\ ~job.huge /\ Lookup(job.next, g_pml4).cache_disable)
          => UNCHANGED <<mem, used>>]_vars

(* When a driver's request returns, its registers are mapped, uncached.    *)
DeviceMapped ==
  [][RegionDone =>
       \A a \in job.request[1]..(job.request[1] + job.request[2] - 1) :
         Translate(a) = a /\ Lookup(a, g_pml4).cache_disable]_vars
=============================================================================
