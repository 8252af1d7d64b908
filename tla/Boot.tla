-------------------------------- MODULE Boot --------------------------------
(***************************************************************************)
(* From the entry point to the worker loop: boot/main.nasm, the order in   *)
(* which kernel_main (kernel/main.c) sets up the parts of the kernel, and  *)
(* what the parts use of each other on the way.  The walks over the boot   *)
(* information and the ACPI tables are those of Firmware, page tables      *)
(* those of Paging, sleeps those of Hpet; the serial port, the interrupt   *)
(* table, the PIC and the LAPIC are kept as far as their set-up goes.      *)
(*                                                                         *)
(* Starting the APs is seen from outside, with its sleeps; the races in it *)
(* are the subject of Smp.tla, what goes on in the worker loops that of    *)
(* Scheduler.tla.                                                          *)
(***************************************************************************)
EXTENDS Firmware, Hpet

CONSTANTS
  Page, Fan, PoolSize, PoolBase, KernelStart, KernelEnd,   \* as in Paging
  MemoryMaps, Devices,   \* as in Paging: those of the machines are among them
  Trampoline,    \* SMP_TRAMPOLINE_ADDR
  HeapSize,      \* bytes between ld_heap_start and ld_heap_end
  ConsoleSize,   \* bytes console_init allocates if there is a frame buffer
  TaskSize,      \* sizeof(task_t), with the header of its block
  MaxCpus,       \* MAX_CPUS, 16 in the source
  NTasks,        \* tasks kernel_main creates, 8
  MaxWait        \* bound on the milliseconds an AP is waited for

(* The layout of the build: the pool of page tables lies in the kernel's   *)
(* image, and what boot/main.nasm maps holds that image; the trampoline is *)
(* in the first large page.                                                *)
ASSUME BootAssumption ==
  /\ Page \in Nat \ {0} /\ Fan \in Nat \ {0} /\ PoolSize \in Nat \ {0}
  /\ PoolBase \in Nat /\ PoolBase % Page = 0
  /\ KernelStart \in Nat /\ KernelEnd \in Nat /\ KernelStart < KernelEnd
  /\ KernelStart <= PoolBase /\ PoolBase + PoolSize * Page <= KernelEnd
  /\ KernelEnd <= Page * Fan * Fan
  /\ Trampoline \in 0..(Page * Fan - 1)
  /\ {HeapSize, ConsoleSize, TaskSize, MaxCpus, NTasks, MaxWait} \subseteq Nat

VARIABLES
  mmap, ppc, g_pml4, cr3, used, mem, todo, job, stray,   \* Paging; ppc is its pc
  mode,      \* "start", "kernel_main", "worker", or how it stopped
  line,      \* the call of kernel_main that is next
  uart,      \* registers of COM1
  gates,     \* vectors with a gate in the table that lidt has loaded
  masked,    \* has the PIC been masked?
  IF_,       \* the interrupt flag of the BSP
  console,   \* console_ready()
  heap,      \* bytes of the heap not yet allocated
  idle,      \* does every CPU have its idle task?
  cpu, stage,   \* loop variable of smp_init, and where in the loop it is
  waits,        \* sleeps of the wait for this AP
  ap,           \* LAPIC id |-> where that AP is
  faults        \* history: what has been used and was not ready

pagingVars == <<mmap, ppc, g_pml4, cr3, used, mem, todo, job, stray>>
partVars == <<uart, gates, masked, IF_, console, heap, idle>>
smpVars == <<cpu, stage, waits, ap>>
bootVars == <<vars, hpetVars, pagingVars, partVars, smpVars, mode, line, faults>>

(* The memory map and the register blocks of a machine.                    *)
LapicBases(m) ==
  UNION {UNION {{table.lapic_addr} \cup
                  {table.entries[k].addr : k \in
                     {k \in DOMAIN table.entries : table.entries[k].type = "LAPIC_OVERRIDE"}}
                : table \in {m.roots[r].tables[t] : t \in DOMAIN m.roots[r].tables}}
         : r \in DOMAIN m.roots}
Blocks(m) == {m.fb, <<m.hpet, Page>>} \cup {<<base, Page>> : base \in LapicBases(m)}

ASSUME MachinesAssumption ==
  /\ MemoryMaps \subseteq Seq(Nat \X Nat) /\ Devices \subseteq Nat \X Nat
  /\ \A m \in Images : m.mmap \in MemoryMaps /\ Blocks(m) \subseteq Devices

P == INSTANCE Paging WITH pc <- ppc

(* The calls of kernel_main.  x86_disable_interrupts, before smp_init, is  *)
(* left out: interrupts have been disabled since the boot loader.          *)
kernel_main_hpet_late ==
  <<"serial_init", "idt_init", "paging_init", "kalloc_init", "magic",
    "mb2_parse", "console_init", "pic_disable", "acpi_init", "lapic_init",
    "scheduler_init", "smp_init", "hpet_init", "sti", "task_create",
    "cpu_enter_worker">>
kernel_main ==
  <<"serial_init", "idt_init", "paging_init", "kalloc_init", "magic",
    "mb2_parse", "console_init", "pic_disable", "acpi_init", "lapic_init",
    "hpet_init", "scheduler_init", "smp_init", "sti", "task_create",
    "cpu_enter_worker">>

BootInit ==
  /\ Init /\ HpetInit
  /\ mmap = image.mmap /\ ppc = "boot" /\ g_pml4 = P!NULL /\ cr3 = P!NULL
  /\ used = 0 /\ mem = << >> /\ todo = << >> /\ job = P!NoJob /\ stray = FALSE
  /\ mode = "start" /\ line = 1
  /\ uart = [dlab |-> FALSE, dll |-> 12, dlm |-> 0, ier |-> 1, format |-> 0]
  /\ gates = {} /\ masked = FALSE /\ IF_ = FALSE
  /\ console = FALSE /\ heap = 0 /\ idle = FALSE
  /\ cpu = 0 /\ stage = "loop" /\ waits = 0
  /\ ap = [id \in image.aps |-> "off"]
  /\ faults = {}

-----------------------------------------------------------------------------
(* The boot assembly maps what one table of large pages reaches.           *)
Mapped(a) ==
  IF cr3 = P!NULL THEN a < P!HugePage * Fan ELSE P!Translate(a) = a

FrameBuffer == IF fb THEN image.fb[1]..(image.fb[1] + image.fb[2] - 1) ELSE {}

(* Port offsets and values; the divisor latch hides two registers.         *)
x86_outb(u, w) ==
  CASE w[1] = 3 -> [u EXCEPT !.dlab = w[2] >= 128, !.format = w[2] % 128]
    [] w[1] = 0 /\ u.dlab -> [u EXCEPT !.dll = w[2]]
    [] w[1] = 1 /\ u.dlab -> [u EXCEPT !.dlm = w[2]]
    [] w[1] = 1 /\ ~u.dlab -> [u EXCEPT !.ier = w[2]]
    [] OTHER -> u

(* 38400 baud, 8 bits, no interrupts.                                      *)
SerialReady ==
  uart = [dlab |-> FALSE, dll |-> 3, dlm |-> 0, ier |-> 0, format |-> 3]

(* When a part is ready to be used.                                        *)
ReadyFor(part) ==
  CASE part = "cpu" -> image.multiboot /\ image.cpuid /\ image.long_mode
    [] part = "kernel" -> Mapped(KernelStart) /\ Mapped(KernelEnd - 1)
    [] part = "info" -> Mapped(image.info)
    [] part = "klog" -> SerialReady /\ (console => \A a \in FrameBuffer : Mapped(a))
    [] part = "lapic" -> lapic_base # 0 /\ Mapped(lapic_base)
    [] part = "hpet" -> hpet_freq # 0 /\ Mapped(image.hpet)
    [] part = "idle" -> idle
    [] part = "interrupts" -> {32, 255} \subseteq gates /\ masked

(* A step of kernel code that uses these parts, so much heap and memory at *)
(* these addresses.                                                        *)
Uses(parts, bytes, addresses) ==
  faults' = faults
    \cup {p \in parts \cup {"cpu", "kernel"} : ~ReadyFor(p)}
    \cup (IF bytes <= heap THEN {} ELSE {"heap"})
    \cup (IF \A a \in addresses : Mapped(a) THEN {} ELSE {"memory"})

At(call) == mode = "kernel_main" /\ kernel_main[line] = call /\ ~Sleeping
Done == line' = line + 1 /\ UNCHANGED mode
Stay == UNCHANGED <<line, mode>>

-----------------------------------------------------------------------------
(* start: three checks, each with a letter to show; then long mode.        *)
start ==
  /\ mode = "start"
  /\ mode' = IF ~image.multiboot THEN "M" ELSE IF ~image.cpuid THEN "C"
             ELSE IF ~image.long_mode THEN "L" ELSE "kernel_main"
  /\ UNCHANGED <<vars, hpetVars, pagingVars, partVars, smpVars, line, faults>>

serial_init_writes ==
  <<<<1, 0>>, <<3, 128>>, <<0, 3>>, <<1, 0>>, <<3, 3>>, <<2, 199>>, <<4, 11>>>>

serial_init ==
  /\ At("serial_init") /\ Done
  /\ LET after[n \in 0..Len(serial_init_writes)] ==
           IF n = 0 THEN uart ELSE x86_outb(after[n - 1], serial_init_writes[n])
     IN  uart' = after[Len(serial_init_writes)]
  /\ Uses({}, 0, {})
  /\ UNCHANGED <<vars, hpetVars, pagingVars, gates, masked, IF_, console, heap, idle, smpVars>>

idt_init ==
  /\ At("idt_init") /\ Done
  /\ gates' = (0..31) \cup {32, 255}
  /\ Uses({"klog"}, 0, {})
  /\ UNCHANGED <<vars, hpetVars, pagingVars, uart, masked, IF_, console, heap, idle, smpVars>>

(* A step of Paging; a panic of its stops the kernel.                      *)
PagingStops(last) ==
  IF ppc' = "panic" THEN mode' = "panic" /\ UNCHANGED line
  ELSE IF last THEN Done ELSE Stay

paging_init ==
  /\ At("paging_init")
  /\ P!paging_init \/ P!NextRegion \/ P!MapPage \/ P!paging_switch
  /\ PagingStops(ppc' = "running")
  /\ Uses({"info", "klog"}, 0, {})
  /\ UNCHANGED <<vars, hpetVars, partVars, smpVars>>

(* The driver that has called paging_map_mmio_region waits for it.         *)
MapRegion ==
  /\ mode = "kernel_main" /\ ppc = "running" /\ job # P!NoJob
  /\ P!MapPage \/ P!RegionDone
  /\ PagingStops(FALSE)
  /\ Uses({}, 0, {})
  /\ UNCHANGED <<vars, hpetVars, partVars, smpVars>>

kalloc_init ==
  /\ At("kalloc_init") /\ Done
  /\ heap' = HeapSize
  /\ Uses({}, 0, {})
  /\ UNCHANGED <<vars, hpetVars, pagingVars, uart, gates, masked, IF_, console, idle, smpVars>>

CheckMagic ==
  /\ At("magic")
  /\ IF image.multiboot THEN Done ELSE mode' = "panic" /\ UNCHANGED line
  /\ Uses({}, 0, {})
  /\ UNCHANGED <<vars, hpetVars, pagingVars, partVars, smpVars>>

-----------------------------------------------------------------------------
(* One tag of mb2_parse; for a frame buffer fb_init maps it.               *)
ParseTag ==
  /\ At("mb2_parse") /\ job = P!NoJob
  /\ mb2_parse
  /\ IF Tag.type = "FRAMEBUFFER"
     THEN P!paging_map_mmio_region(image.fb[1], image.fb[2])
     ELSE UNCHANGED pagingVars
  /\ IF pc' = "mb2_parse" THEN Stay ELSE Done
  /\ Uses({"info", "klog"}, 0, {})
  /\ UNCHANGED <<hpetVars, partVars, smpVars>>

(* console_init clears the screen; without one it asks for no memory.      *)
console_init ==
  /\ At("console_init") /\ Done
  /\ LET bytes == IF fb THEN ConsoleSize ELSE 0
     IN  heap' = heap - bytes /\ Uses({"klog"}, bytes, FrameBuffer)
  /\ console' = TRUE
  /\ UNCHANGED <<vars, hpetVars, pagingVars, uart, gates, masked, IF_, idle, smpVars>>

pic_disable ==
  /\ At("pic_disable") /\ Done
  /\ masked' = TRUE
  /\ Uses({"klog"}, 0, {})
  /\ UNCHANGED <<vars, hpetVars, pagingVars, uart, gates, IF_, console, heap, idle, smpVars>>

(* A step of acpi_init reads the boot information, the root table, or one  *)
(* of the tables.                                                          *)
ParseAcpi ==
  /\ At("acpi_init")
  /\ get_acpi_rsdp \/ acpi_init \/ acpi_parse_tables \/ madt_parse \/ TablesDone
  /\ CASE pc' = "panic" -> mode' = "panic" /\ UNCHANGED line
       [] pc' = "lapic_init" -> Done
       [] OTHER -> Stay
  /\ Uses({"info", "klog"}, 0,
          IF root'.length = 0 THEN {}
          ELSE {root'.addr} \cup (IF i' = 0 THEN {} ELSE {root'.tables[i'].addr}))
  /\ UNCHANGED <<hpetVars, pagingVars, partVars, smpVars>>

(* lapic_init maps the registers and then sets them.                       *)
LapicMap ==
  /\ At("lapic_init") /\ lapic_init
  /\ P!paging_map_mmio_region(lapic_base', Page)
  /\ Uses({}, 0, {root.tables[madt_table].addr})
  /\ Stay
  /\ UNCHANGED <<hpetVars, partVars, smpVars>>

LapicSet ==
  /\ At("lapic_init") /\ pc # "lapic_init" /\ job = P!NoJob /\ Done
  /\ Uses({"lapic", "klog"}, 0, {})
  /\ UNCHANGED <<vars, hpetVars, pagingVars, partVars, smpVars>>

(* hpet_init panics without a table, or maps the registers, then sets them.*)
HpetMap ==
  /\ At("hpet_init") /\ hpet_init
  /\ IF pc' = "panic"
     THEN mode' = "panic" /\ UNCHANGED <<line, pagingVars>> /\ Uses({"klog"}, 0, {})
     ELSE /\ P!paging_map_mmio_region(image.hpet, Page) /\ Stay
          /\ Uses({}, 0, {root.tables[hpet_table].addr})
  /\ UNCHANGED <<hpetVars, partVars, smpVars>>

HpetSet ==
  /\ At("hpet_init") /\ pc = "booted" /\ job = P!NoJob /\ Done
  /\ HpetStart(image.period)
  /\ Uses({"klog"}, 0, {image.hpet})
  /\ UNCHANGED <<vars, pagingVars, partVars, smpVars>>

-----------------------------------------------------------------------------
(* task_create takes the memory of a task and logs; its result is not      *)
(* tested.                                                                 *)
CreateTasks(n) ==
  /\ heap' = heap - n * TaskSize
  /\ Uses({"klog"}, n * TaskSize, {})

scheduler_init ==
  /\ At("scheduler_init") /\ Done
  /\ CreateTasks(MaxCpus)
  /\ idle' = TRUE
  /\ UNCHANGED <<vars, hpetVars, pagingVars, uart, gates, masked, IF_, console, smpVars>>

kernel_main_tasks ==
  /\ At("task_create") /\ Done
  /\ CreateTasks(NTasks)
  /\ UNCHANGED <<vars, hpetVars, pagingVars, uart, gates, masked, IF_, console, idle, smpVars>>

x86_enable_interrupts ==
  /\ At("sti") /\ Done
  /\ IF_' = TRUE
  /\ Uses({"interrupts", "lapic", "idle"}, 0, {})
  /\ UNCHANGED <<vars, hpetVars, pagingVars, uart, gates, masked, console, heap, idle, smpVars>>

cpu_enter_worker ==
  /\ At("cpu_enter_worker")
  /\ mode' = "worker" /\ UNCHANGED line
  /\ Uses({"lapic", "idle", "klog"}, 0, {})
  /\ UNCHANGED <<vars, hpetVars, pagingVars, partVars, smpVars>>

-----------------------------------------------------------------------------
Target == madt_get_lapic_id(cpu)
AtSmp(s) == At("smp_init") /\ stage = s

(* The head of the loop: the trampoline is written, INIT is sent.          *)
SmpInitIpi(phase) ==
  /\ AtSmp("loop") /\ cpu < cpu_count
  /\ IF Target = image.bsp
     THEN cpu' = cpu + 1 /\ UNCHANGED <<stage, hpetVars>> /\ Uses({"lapic", "klog"}, 0, {})
     ELSE /\ hpet_sleep_ms(10, phase) /\ stage' = "sipi1" /\ UNCHANGED cpu
          /\ Uses({"lapic", "hpet", "klog"}, 0, {Trampoline})
  /\ UNCHANGED <<waits, ap, vars, pagingVars, partVars, mode, line>>

(* The first SIPI starts the AP; it does not react to the second.          *)
SmpSipi(phase) ==
  /\ AtSmp("sipi1") \/ AtSmp("sipi2")
  /\ stage' = IF stage = "sipi1" THEN "sipi2" ELSE "wait"
  /\ ap' = [ap EXCEPT ![Target] = IF @ = "off" THEN "trampoline" ELSE @]
  /\ hpet_sleep_ms(1, phase)
  /\ Uses({"lapic", "hpet"}, 0, {})
  /\ UNCHANGED <<cpu, waits, vars, pagingVars, partVars, mode, line>>

SmpWait(phase) ==
  /\ AtSmp("wait")
  /\ IF ap[Target] = "trampoline"
     THEN /\ waits < MaxWait /\ waits' = waits + 1
          /\ hpet_sleep_ms(1, phase) /\ UNCHANGED <<cpu, stage>>
     ELSE cpu' = cpu + 1 /\ stage' = "loop" /\ waits' = 0 /\ UNCHANGED hpetVars
  /\ Uses({"hpet"}, 0, {})
  /\ UNCHANGED <<ap, vars, pagingVars, partVars, mode, line>>

SmpDone ==
  /\ AtSmp("loop") /\ cpu = cpu_count
  /\ \A id \in DOMAIN ap : ap[id] \in {"barrier", "worker"}
  /\ Done
  /\ Uses({"klog"}, 0, {})
  /\ UNCHANGED <<vars, hpetVars, pagingVars, partVars, smpVars>>

(* An AP comes through the trampoline and ap_main; lapic_init maps the     *)
(* registers again, which changes nothing (Paging.tla, MappingsStay).      *)
ap_main(id) ==
  /\ ap[id] = "trampoline"
  /\ ap' = [ap EXCEPT ![id] = "barrier"]
  /\ Uses({"lapic", "klog"}, 0, {Trampoline, root.tables[madt_table].addr})
  /\ UNCHANGED <<vars, hpetVars, pagingVars, partVars, cpu, stage, waits, mode, line>>

ApWorker(id) ==
  /\ ap[id] = "barrier" /\ \A k \in DOMAIN ap : ap[k] \in {"barrier", "worker"}
  /\ ap' = [ap EXCEPT ![id] = "worker"]
  /\ Uses({"lapic", "klog", "idle"}, 0, {})
  /\ UNCHANGED <<vars, hpetVars, pagingVars, partVars, cpu, stage, waits, mode, line>>

HpetTick == Tick /\ UNCHANGED <<vars, pagingVars, partVars, smpVars, mode, line, faults>>
HpetWake == Wake /\ UNCHANGED <<vars, pagingVars, partVars, smpVars, mode, line, faults>>

-----------------------------------------------------------------------------
Setup == \/ start \/ serial_init \/ idt_init \/ paging_init \/ MapRegion
         \/ kalloc_init \/ CheckMagic \/ ParseTag \/ console_init \/ pic_disable
         \/ ParseAcpi \/ LapicMap \/ LapicSet \/ HpetMap \/ HpetSet
         \/ scheduler_init \/ x86_enable_interrupts \/ kernel_main_tasks
         \/ cpu_enter_worker
smp_init == \/ \E phase \in {0, hpet_period - 1} :
                 SmpInitIpi(phase) \/ SmpSipi(phase) \/ SmpWait(phase)
            \/ SmpDone
Bsp == Setup \/ smp_init \/ HpetWake
Ap == \E id \in DOMAIN ap : ap_main(id) \/ ApWorker(id)

Stopped == mode \in {"M", "C", "L", "panic", "worker"}

BootNext == Bsp \/ HpetTick \/ Ap

BootSpec == BootInit /\ [][BootNext]_bootVars

(* CPUs execute, the counter counts, and an AP that is started checks in.  *)
FairBootSpec ==
  BootSpec /\ WF_bootVars(Bsp) /\ WF_bootVars(HpetTick) /\ WF_bootVars(Ap)

-----------------------------------------------------------------------------
(* What the theorems of BootProofs ask of a machine m besides WellFormed   *)
(* and Numbered.  What the kernel reads without mapping it lies in memory  *)
(* that paging_init maps, the boot information also in what the boot       *)
(* assembly maps; LAPIC and HPET are where and what they say.              *)
Placed(m) ==
  LET read == {m.info} \cup {m.roots[r].addr : r \in DOMAIN m.roots}
                \cup UNION {{m.roots[r].tables[t].addr : t \in DOMAIN m.roots[r].tables}
                            : r \in DOMAIN m.roots}
  IN  /\ m.info < P!HugePage * Fan
      /\ \A a \in read : a \in Nat /\ P!InRegion(m.mmap, a \div P!HugePage)
      /\ 0 \notin LapicBases(m)
      /\ m.period \in 1..FsPerSec

(* The heap holds the console's buffer and all tasks.                      *)
HeapFits == ConsoleSize + (MaxCpus + NTasks) * TaskSize <= HeapSize

(* At most MaxCpus CPUs are enabled, and the counter of the timer does not *)
(* wrap before smp_init has done all its sleeps.                           *)
FewCpus(m) ==
  \A r \in DOMAIN m.roots : \A t \in DOMAIN m.roots[r].tables :
    Cardinality(EnabledIn(m.roots[r].tables[t].entries)) <= MaxCpus
TicksFor(ms, m) == (ms * UsPerMs * (FsPerSec \div m.period)) \div UsPerSec + Slack
ClockFits(m) ==
  /\ m.period \in 1..FsPerSec
  /\ 10 * UsPerMs * (FsPerSec \div m.period) < WordMod /\ 10 * UsPerMs < WordMod
  /\ MaxCpus * (TicksFor(10, m) + (MaxWait + 2) * TicksFor(1, m)) < CounterMod

-----------------------------------------------------------------------------
(* Nothing is used before it is ready: no log line before the serial port  *)
(* is set up, no memory that the tables in force do not map, no allocation *)
(* from a heap that has no room, no LAPIC and no timer before they are     *)
(* found, mapped and started, no interrupt without a gate for it, and no   *)
(* other CPU before what it needs is there.                                *)
UsedWhenReady == faults = {}

(* A machine that has what the kernel asks for comes to the worker loop on *)
(* all its CPUs, and any other is stopped with a letter or a panic.        *)
BootEnds ==
  <>(IF image.complete
     THEN mode = "worker" /\ \A id \in DOMAIN ap : ap[id] = "worker"
     ELSE mode \in {"M", "C", "L", "panic"})
=============================================================================
