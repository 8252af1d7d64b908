------------------------------ MODULE Firmware ------------------------------
(***************************************************************************)
(* How the kernel reads what the boot loader and the firmware left in      *)
(* memory: the multiboot2 tags (kernel/multiboot2.c), the ACPI root table  *)
(* (drivers/acpi.c) and the MADT (drivers/madt.c).  All three are lists    *)
(* that are walked by adding an entry's own length to a pointer; one step  *)
(* is one entry.  A pointer is the offset into the list it walks.  When    *)
(* kernel_main takes these steps is said in Boot.tla.                      *)
(***************************************************************************)
EXTENDS Integers, Sequences, FiniteSets

CONSTANTS
  Images,    \* what the loader and the firmware may have left
  NotFound   \* 0xFF, what madt_get_lapic_id returns for an unknown CPU

SdtHeader == 36     \* sizeof(acpi_sdt_header_t)
NULL == 0

(* Every image has a MADT if it has a root table: lapic_init does not ask. *)
ASSUME FirmwareAssumption ==
  /\ NotFound \in Nat
  /\ \A m \in Images : \A r \in DOMAIN m.roots :
       \E t \in DOMAIN m.roots[r].tables : m.roots[r].tables[t].signature = "APIC"

VARIABLES
  image,        \* the one in memory
  pc,
  ptr,          \* the pointer of the walk under way
  fb,           \* has fb_init been called?
  rsdp,         \* result of get_acpi_rsdp: index of a tag, or NULL
  root,         \* the RSDT or XSDT, [length, tables]
  entry_size,   \* 4 or 8
  i,            \* loop variable of acpi_parse_tables
  madt_table,   \* index of a table of the root, or NULL
  hpet_table,
  cpu_count,
  lapic_base

vars == <<image, pc, ptr, fb, rsdp, root, entry_size, i, madt_table,
          hpet_table, cpu_count, lapic_base>>

-----------------------------------------------------------------------------
(* Offset of the k-th element of a list whose elements have these sizes.   *)
Offset(sizes, k) ==
  LET off[j \in 1..(Len(sizes) + 1)] ==
        IF j = 1 THEN 0 ELSE off[j - 1] + sizes[j - 1]
  IN  off[k]

Align8(n) == ((n + 7) \div 8) * 8

(* The loader puts tags on 8-byte boundaries; MADT entries are packed.     *)
Tags == image.tags
TagSizes == [k \in DOMAIN Tags |-> Align8(Tags[k].size)]
Entries(t) == root.tables[t].entries
EntrySizes(t) == [k \in DOMAIN Entries(t) |-> Entries(t)[k].length]

(* The element a pointer stands on; there may be none.                     *)
TagsAt(p) == {k \in DOMAIN Tags : Offset(TagSizes, k) = p}
EntriesAt(t, p) == {k \in DOMAIN Entries(t) : Offset(EntrySizes(t), k) = p}
The(S) == CHOOSE x \in S : TRUE

Init ==
  /\ image \in Images
  /\ pc = "mb2_parse" /\ ptr = 0
  /\ fb = FALSE
  /\ rsdp = NULL
  /\ root = [length |-> 0, tables |-> << >>]
  /\ entry_size = 0 /\ i = 0
  /\ madt_table = NULL /\ hpet_table = NULL
  /\ cpu_count = 0 /\ lapic_base = 0

Tag == Tags[The(TagsAt(ptr))]
NextTagPacked == ptr + Tag.size
NextTag == ptr + Align8(Tag.size)

-----------------------------------------------------------------------------
(* One turn of mb2_parse; what it only logs is left out.                   *)
mb2_parse ==
  /\ pc = "mb2_parse" /\ TagsAt(ptr) # {}
  /\ IF Tag.type = "END"
     THEN pc' = "get_acpi_rsdp" /\ ptr' = 0 /\ UNCHANGED fb
     ELSE /\ fb' = (fb \/ Tag.type = "FRAMEBUFFER")
          /\ ptr' = NextTag
          /\ UNCHANGED pc
  /\ UNCHANGED <<image, rsdp, root, entry_size, i, madt_table, hpet_table,
                 cpu_count, lapic_base>>

(* One turn of get_acpi_rsdp: a version 2 tag ends the search.             *)
LastTagsEnd == {"END"}
LastTags == {"END", "ACPI_V2"}
get_acpi_rsdp ==
  /\ pc = "get_acpi_rsdp" /\ TagsAt(ptr) # {}
  /\ rsdp' = IF Tag.type \in {"ACPI_V1", "ACPI_V2"} THEN The(TagsAt(ptr)) ELSE rsdp
  /\ IF Tag.type \in LastTags
     THEN pc' = "acpi_init" /\ UNCHANGED ptr
     ELSE ptr' = NextTag /\ UNCHANGED pc
  /\ UNCHANGED <<image, fb, root, entry_size, i, madt_table, hpet_table,
                 cpu_count, lapic_base>>

(* The revision says which root the RSDP has; an absent one is a panic.    *)
acpi_init ==
  /\ pc = "acpi_init"
  /\ LET new == rsdp # NULL /\ Tags[rsdp].rsdp.revision >= 2
         table == IF new THEN Tags[rsdp].rsdp.xsdt ELSE Tags[rsdp].rsdp.rsdt
     IN  IF rsdp = NULL \/ table = NULL
         THEN pc' = "panic" /\ UNCHANGED <<root, entry_size>>
         ELSE /\ root' = image.roots[table]
              /\ entry_size' = IF new THEN 8 ELSE 4
              /\ pc' = "acpi_parse_tables"
  /\ UNCHANGED <<image, ptr, fb, rsdp, i, madt_table, hpet_table,
                 cpu_count, lapic_base>>

Count == (root.length - SdtHeader) \div entry_size

(* What lies behind the last entry is no table the kernel knows.           *)
Signature(k) ==
  IF k \in DOMAIN root.tables THEN root.tables[k].signature ELSE "unknown"

(* One turn of acpi_parse_tables.                                          *)
acpi_parse_tables ==
  /\ pc = "acpi_parse_tables" /\ i < Count
  /\ i' = i + 1
  /\ CASE Signature(i + 1) = "APIC" ->
            /\ madt_table' = i + 1
            /\ ptr' = 0 /\ pc' = "madt_parse"
            /\ UNCHANGED hpet_table
       [] Signature(i + 1) = "HPET" ->
            hpet_table' = i + 1 /\ UNCHANGED <<madt_table, ptr, pc>>
       [] OTHER -> UNCHANGED <<madt_table, hpet_table, ptr, pc>>
  /\ UNCHANGED <<image, fb, rsdp, root, entry_size, cpu_count, lapic_base>>

TablesDone ==
  /\ pc = "acpi_parse_tables" /\ i >= Count
  /\ pc' = "lapic_init"
  /\ UNCHANGED <<image, ptr, fb, rsdp, root, entry_size, i, madt_table,
                 hpet_table, cpu_count, lapic_base>>

-----------------------------------------------------------------------------
(* The end of the MADT, relative to its first entry.                       *)
MadtEnd == Offset(EntrySizes(madt_table), Len(Entries(madt_table)) + 1)
Entry == Entries(madt_table)[The(EntriesAt(madt_table, ptr))]

AnyLapic(e) == e.type = "LAPIC"
Enabled(e) == e.type = "LAPIC" /\ e.enabled

(* One turn of madt_parse.                                                 *)
madt_parse ==
  /\ pc = "madt_parse"
  /\ ptr < MadtEnd => EntriesAt(madt_table, ptr) # {}
  /\ IF ptr < MadtEnd
     THEN /\ cpu_count' = cpu_count + (IF Enabled(Entry) THEN 1 ELSE 0)
          /\ ptr' = ptr + Entry.length
          /\ UNCHANGED pc
     ELSE pc' = "acpi_parse_tables" /\ UNCHANGED <<cpu_count, ptr>>
  /\ UNCHANGED <<image, fb, rsdp, root, entry_size, i, madt_table, hpet_table,
                 lapic_base>>

(* The first entry that satisfies a test, as the look-ups walk the MADT.   *)
Matches(Test(_)) == {k \in DOMAIN Entries(madt_table) : Test(Entries(madt_table)[k])}
FirstMatch(S) == Entries(madt_table)[CHOOSE k \in S : \A j \in S : k <= j]

madt_get_lapic_id(cpu) ==
  LET S == Matches(LAMBDA e : Enabled(e) /\ e.uid = cpu)
  IN  IF S = {} THEN NotFound ELSE FirstMatch(S).apic_id

madt_get_lapic_base ==
  LET S == Matches(LAMBDA e : e.type = "LAPIC_OVERRIDE")
  IN  IF S = {} THEN root.tables[madt_table].lapic_addr ELSE FirstMatch(S).addr

(* What kernel_main does with the tables before smp_init.                  *)
lapic_init ==
  /\ pc = "lapic_init"
  /\ lapic_base' = madt_get_lapic_base
  /\ pc' = "hpet_init"
  /\ UNCHANGED <<image, ptr, fb, rsdp, root, entry_size, i, madt_table,
                 hpet_table, cpu_count>>

hpet_init ==
  /\ pc = "hpet_init"
  /\ pc' = IF hpet_table = NULL THEN "panic" ELSE "booted"
  /\ UNCHANGED <<image, ptr, fb, rsdp, root, entry_size, i, madt_table,
                 hpet_table, cpu_count, lapic_base>>

(* The LAPIC ids smp_init sends INIT to, if it runs on the CPU with id bsp.*)
SmpTargets(bsp) ==
  {madt_get_lapic_id(cpu) : cpu \in 0..(cpu_count - 1)} \ {bsp}

-----------------------------------------------------------------------------
(* What the theorems of BootProofs ask of a machine m.  Every entry has a  *)
(* length, the end tag is the last tag and only that, the length of a root *)
(* table is that of its entries, and there is one MADT.                    *)
TagRecord ==
  [type : STRING, size : Nat \ {0}, rsdp : [revision : Nat, rsdt : Nat, xsdt : Nat]]
EntryRecord ==
  [type : STRING, length : Nat \ {0}, uid : Nat, apic_id : Nat, enabled : BOOLEAN,
   addr : Nat]
TableRecord ==
  [signature : STRING, addr : Nat, entries : Seq(EntryRecord), lapic_addr : Nat]
RootRecord == [length : Nat, addr : Nat, tables : Seq(TableRecord)]

IsRoot(m, r, size) ==
  r # NULL =>
    /\ r \in DOMAIN m.roots
    /\ m.roots[r].length = SdtHeader + size * Len(m.roots[r].tables)

WellFormed(m) ==
  /\ m.tags \in Seq(TagRecord) /\ m.tags # << >> /\ m.roots \in Seq(RootRecord)
  /\ \A k \in DOMAIN m.tags :
       /\ (m.tags[k].type = "END") <=> (k = Len(m.tags))
       /\ m.tags[k].type \in {"ACPI_V1", "ACPI_V2"} =>
            /\ IsRoot(m, m.tags[k].rsdp.rsdt, 4)
            /\ IsRoot(m, m.tags[k].rsdp.xsdt, 8)
  /\ \A r \in DOMAIN m.roots : \A t, u \in DOMAIN m.roots[r].tables :
       LET tables == m.roots[r].tables
       IN  tables[t].signature = "APIC" /\ tables[u].signature = "APIC" => t = u

(* The uids of its enabled CPUs are 0, 1, 2 ... in some order.             *)
EnabledIn(entries) == {k \in DOMAIN entries : Enabled(entries[k])}
Numbered(m) ==
  \A r \in DOMAIN m.roots : \A t \in DOMAIN m.roots[r].tables :
    LET entries == m.roots[r].tables[t].entries
        E == EnabledIn(entries)
    IN  /\ \A k \in E : entries[k].uid < Cardinality(E)
        /\ \A j, k \in E : entries[j].uid = entries[k].uid => j = k

-----------------------------------------------------------------------------
(* A walk never steps into the middle of an entry or past the last one:    *)
(* the pointer is on a tag, on a MADT entry or at the end of the MADT, and *)
(* no entry behind the last one of the root table is read.                 *)
WalkOnEntries ==
  /\ i \in 0..Len(root.tables)
  /\ pc \in {"mb2_parse", "get_acpi_rsdp"} => TagsAt(ptr) # {}
  /\ pc = "madt_parse" => ptr = MadtEnd \/ EntriesAt(madt_table, ptr) # {}

(* If the loader passes both kinds of RSDP, the version 2 one is used,     *)
(* wherever it stands (kernel/multiboot2.c:69), and a version 1 one is     *)
(* used if there is no other.                                              *)
BestRsdp ==
  pc \in {"acpi_init", "acpi_parse_tables", "booted"} =>
    LET of(type) == {k \in DOMAIN Tags : Tags[k].type = type}
    IN  IF of("ACPI_V2") # {} THEN rsdp \in of("ACPI_V2")
        ELSE IF of("ACPI_V1") # {} THEN rsdp \in of("ACPI_V1")
        ELSE rsdp = NULL

EnabledIds ==
  {e.apic_id : e \in {Entries(madt_table)[k] : k \in
     Matches(LAMBDA e : e.type = "LAPIC" /\ e.enabled)}}

(* Once the tables are read, the loop of smp_init over 0 .. cpu_count - 1  *)
(* addresses every enabled CPU except the one it runs on, and nobody else. *)
SmpReachesAll ==
  pc = "booted" =>
    \A bsp \in EnabledIds : SmpTargets(bsp) = EnabledIds \ {bsp}

(* "Not found" is an answer, never the address of an IPI (madt.c:84).      *)
NotFoundIsNoTarget ==
  pc = "booted" =>
    \A bsp \in EnabledIds : NotFound \notin SmpTargets(bsp)

=============================================================================
