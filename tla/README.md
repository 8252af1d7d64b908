# neko-os: TLA+ models, model checking and proofs

This directory models the neko-os kernel: its allocator, scheduler, start-up of
further CPUs, page tables, console, log, the reading of firmware tables and the
boot that brings all of them up. The modules follow the C and assembly sources action by action; `PROJECT.json` maps
every definition to the lines it stands for. `tlc -config X.cfg M` checks a
model, `tlapm M.tla` checks proofs.

## The system

neko-os is a freestanding x86-64 kernel booted through multiboot2. `kernel_main`
brings its parts up in a fixed order: serial port, interrupt table, page tables,
heap, multiboot tags with the frame buffer, console, PIC, ACPI tables, LAPIC, HPET,
idle tasks, further CPUs, interrupts, tasks. After that every CPU runs `cpu_enter_worker`, which takes tasks off one shared queue.

| part | state | operations | used by |
|---|---|---|---|
| Heap (`lib/alloc.c`) | list of block headers in one arena | `kalloc_init`, `kmalloc`, `kcalloc`, `kfree` | console, `task_create` |
| Run queue (`drivers/scheduler.c:52-80`, `include/spinlock.h`) | head, tail, count, next fields, lock | `scheduler_enqueue`, `scheduler_dequeue` | `kernel_main`, scheduler |
| Scheduler (`drivers/scheduler.c`) | task states, saved stack pointers, current task per CPU | `task_create`, `scheduler_yield`, `task_exit`, `cpu_enter_worker`, timer tick | all CPUs, interrupt |
| Context switch (`drivers/scheduler.nasm`, `drivers/idt.nasm`) | registers, stacks | push, switch, pop | scheduler |
| SMP start-up (`drivers/smp.c`, `drivers/ap_trampoline.nasm`) | one patched data area, a counter of started APs | `smp_init`, `ap_main` | `kernel_main`, APs |
| Paging (`drivers/paging.c`) | four levels of tables from a pool of 32 | `paging_init`, `paging_map_mmio_region` | frame buffer, LAPIC, HPET |
| Console (`lib/console.c`, `drivers/framebuffer.c`, `drivers/font.c`) | cell buffer, cursor, colours, screen | `console_putchar`, `console_clear`, `console_set_color` | log |
| Interrupts and exceptions (`drivers/idt.c`, `drivers/idt.nasm`) | gates, words pushed by CPU and stub | `idt_init`, exception stubs, `isr_timer`, `isr_spurious` | CPU |
| HPET (`drivers/hpet.c`) | period, frequency, a running counter | `hpet_init`, `hpet_sleep_ms`, `hpet_sleep_us` | `smp_init` |
| Serial port, PIC (`drivers/serial.c`, `drivers/pic.c`) | UART registers, masks | `serial_init`, `serial_print`, `pic_disable` | log, `kernel_main` |
| Log and panic (`lib/klogf.c`, `kernel/panic.c`) | lock, two sinks, console colour | `klog`, `kpanic`, `spurious_handler` | everybody |
| Formatting (`lib/console.c`, `lib/sprintf.c`) | position in format and arguments | `cvprintf`, `svprintf` | log |
| Start-up (`boot/main.nasm`, `kernel/main.c`) | which parts are ready | `start`, `kernel_main` | boot loader |
| Boot information (`kernel/multiboot2.c`, `drivers/acpi.c`, `drivers/madt.c`) | pointers into tables, number of CPUs | `mb2_parse`, `get_acpi_rsdp`, `acpi_parse_tables`, `madt_parse`, look-ups | `kernel_main`, `smp_init` |

What makes it hard:

* CPUs share the run queue, the log and the AP counter, and nothing but two
  test-and-set locks keeps them apart.
* The timer and spurious interrupts hit the BSP (the CPU that boots) at any
  instruction once `x86_enable_interrupts` has run. Locks are taken with
  interrupts enabled. APs run with interrupts disabled and their timer masked.
* A context switch separates saving one stack pointer from loading another, and
  the task is visible to other CPUs in between.
* APs are started with IPIs that may be missed, and waited for with a timeout.
* The set-up calls depend on each other in ways no code checks: a part used a line
  too early reads an unmapped register or sleeps by a clock that stands.
* Tables are walked by lengths they contain; sizes and cursors meet their limits.

## Modules

| module | models | notes |
|---|---|---|
| `Heap` | `lib/alloc.c` | one step per turn of the loops of `kmalloc` and `kfree`; `size_t` is modulo `SizeMod`; payloads are left out, stale magic words are kept because `kfree` reads them |
| `HeapContract` | `include/alloc.h` | abstract: who holds which bytes; disjoint, aligned, inside the arena |
| `HeapProofs` | | theorems about `Heap` |
| `RunQueue` | `scheduler_enqueue`, `scheduler_dequeue`, spinlock | one step per access another CPU could see half done; `fifo` and `owner` are history variables |
| `QueueContract` | | abstract: FIFO queue with atomic put and get |
| `ContextSwitchProofs`, `SchedulerProofs`, `PagingProofs`, `ConsoleProofs`, `BootProofs` | | inductive invariants of these modules and theorems about them |
| `KlogProofs` | | the same for `Klog` and for `Format`: when a log line is put out, and what |
| `SmpProofs` | | the same for `Smp` and for `RunQueue`: what the CPUs do in each other's memory |
| `Scheduler` | tasks, CPUs, `scheduler_yield`, worker loop, `task_exit`, tick, `klog_lock` | uses the FIFO queue that `RunQueue` is proved to be, but keeps its lock and the log's visible, since an interrupt can hit the holder |
| `ContextSwitch` | pushes and pops, first frame, `task_trampoline`, interrupt and exception stubs, `exception_handler` | registers and stack words; which task is next is left to `Scheduler` |
| `Smp` | `smp_init`, `ap_main`, trampoline data | time is abstract: an AP makes any number of steps in a millisecond of the wait |
| `Paging` | `drivers/paging.c` | page size and fan-out are constants |
| `Terminal`, `Console` | `lib/console.c:1-108`, `drivers/font.c`, `drivers/framebuffer.c`, `memmove` | `Terminal` is the abstract endless page, `Console` the buffer, the font's bits and the bytes of the frame buffer |
| `Klog` | `klog`, `kvlog`, `kpanic`, `spurious_handler` | a call is a list of operations, one step each |
| `Format` | `cvprintf`, `svprintf` | a format is a list of parsed items; both run on their own copy of the arguments |
| `Firmware` | multiboot2, ACPI, MADT walks | one step per entry; its actions are steps of `Boot` |
| `Hpet` | `drivers/hpet.c` | a counter that ticks and a caller that spins; its actions are steps of `Boot` |
| `Boot` | `boot/main.nasm`, `kernel_main` | composes `Firmware`, `Hpet` and `Paging` with the set-up of the other parts, from the entry point to the worker loops |

State variables and actions carry the names of the globals, locals and functions
they stand for. Where a function is several steps, `pc` (or a label on a stack
frame in `Scheduler`, `ContextSwitch` and `Klog`) says where it is. Each `MC`
module gives a specification its constants.

Next to some definitions stands a variant, such as `FitsAny` before `Fits`: the
same code with a plausible mistake. No specification uses them. Put in place of
the original they violate the property `PROJECT.json` pairs them with, which
shows that the property is about the code.

### Correspondence in detail

**Heap.** `heap` maps the address of each header on the list to its size, next
and free fields; `current` is the local of both loops. `Take`, `Skip` and `Fail`
are the turns and the end of `kmalloc`'s loop, `Merge`, `Advance` and `Done`
those of `kfree`'s. `live` and `freed` record what callers hold.

**Run queue.** `Link` makes a task reachable, `SetTail` writes tail and count;
`ReadHead`, `AdvanceHead`, `FixTail` are the three parts of dequeue. A failed
test-and-set changes nothing and is no step.

**Scheduler.** `on[c]` is the stack a CPU executes on, `stack[x]` the calls under
way on it. `scheduler_context_switch` stores `rsp` in one `task_t` and loads it
from another. `top` says which `task_t` has the good stack pointer of a stack;
`wild` records a load of one that is not good, and behaviour after that is not
modelled. A `setup` fixes which CPUs run, which tasks call `scheduler_yield` and
which code ticks can hit. Every log line of the code is a call of `klog` that takes
and releases `klog_lock` (labels `klog`, `klog_held`). The local `cpu` of
`scheduler_yield`, `task_exit` and `cpu_enter_worker` is part of the call (`cpu`), taken
where the code takes it, before the log line or the switch after which it is used.

**ContextSwitch.** An exception pushes the CPU's error code where the vector has
one (`CpuPushesCode`, from the processor's manual), the stub pushes the rest
(`isr_err` lists the vectors whose stub counts on the CPU), `isr_common` the
registers; `exception_handler` takes its arguments from fixed words.

**Smp.** `patched` is the stack in the shared data area; `late` is a history
variable, set when a wait times out.

**Paging.** `mem` holds the tables by address. Mapping one page is one step, so a
pool that runs out in the middle of a walk is a panic with the tables linked so
far in place. `stray` records a write to a large page taken for a table.

**Console.** `fbmem` are the bytes that `fb_init` maps; a character is drawn bit by
bit through `GlyphBit` and `Pixel`, and `memmove` copies in the order of its loop, so
that an overlap matters. `gone` keeps the cells that have scrolled away, so that
`Terminal` can be an endless page.

**Klog.** `calls[c]` are the log and panic calls nested on a CPU by interrupts, the
innermost last, each with its operations and how many of them it has done;
`klog_ops` and `kpanic_ops` are the bodies. `lines` is a history variable: what
the serial port was sent by `klog`, without the messages of panics in between.

**Hpet.** `sleep` is the call under way, `phase` how far into a tick it began.
`HpetStart` is the part of `hpet_init` after the registers are mapped.

**Boot.** `line` is the place in `kernel_main`, whose calls are the sequence
`kernel_main`. Each action says with `Uses` what it needs: the parts it calls, the
bytes it allocates, the addresses it touches. `ReadyFor` and `Mapped` say what that
means at the moment, and `faults` records what was missing. `Mapped` asks the
tables `Paging` has built (or the first gigabyte, before `paging_switch`), so that
memory is reachable exactly if the code has mapped it. `image` is the machine: its
tags, tables, memory map, devices and CPUs.

## Runs

All runs finish in less than two minutes on two cores. State counts are distinct states.

| run | instance | what it shows |
|---|---|---|
| `heap` (258k) | arenas too small, minimal, and for four blocks; four sizes and one `kcalloc` | the list tiles the arena (`Tiling`), flags match owners, blocks are large enough, neighbours are merged, nothing leaks, `kmalloc` fails only when nothing fits, calls return, `HeapContract` is implemented |
| `run_queue` (9k) | 3 CPUs, 3 tasks | the pointers spell out the queue whenever the lock is free, `QueueContract` is implemented |
| `context_switch` (94k) | 2 tasks and the worker loop; yields, timer and spurious interrupts, exceptions with and without error code | every context finds its registers and its stack as it left them; the panic message names the exception raised and its error code |
| `scheduler` (67k) | 3 CPUs with 2 tasks and 2 CPUs with 3, without ticks; 1 CPU with 3 tasks and ticks in safe places; 1 CPU with ticks in tasks and yields | every switch loads a good stack nobody else uses, no task is lost or in two places, idle tasks stay on their CPU, a task exits only by itself and stays dead, on one CPU all tasks finish, log lines included |
| `smp` (27k) | 5 CPUs, BSP in the middle, waits of 2, first SIPI may be missed, APs may be late | the counter is exact and nobody passes the barrier early (`Barrier`), the boot completes; until a wait times out each AP has its own stack and each wait ends for the AP it is for |
| `paging` (407) | page 2, fan-out 4, pool of 8; 4 memory maps, 4 devices in any order and repeatedly | kernel always mapped to itself, tables form a tree, no mapping is lost or changed by mapping again, devices are mapped when asked for |
| `console` (29k) | 3 frame buffers with bytes and pixels left over, one without room for a cell, and none; PSF1, PSF2 and an invalid font; text that scrolls 2 cells away | no access outside buffer and mapping, the bytes shown are the glyphs of the buffer, `Terminal` is implemented |
| `klog` (462k) | 3 CPUs, 3 calls, panics and spurious interrupts | lines stay whole and in their colours, sinks agree, every panic gets out |
| `boot` (13k) | about 100 machines: every MADT of up to 3 entries with a CPU, three lists of tags, four timers, and 7 machines that lack something | walks stay on entries, the best RSDP is taken, `smp_init` addresses exactly the other enabled CPUs, nothing is used before it is ready (`UsedWhenReady`), sleeps last, and a machine with all the kernel needs reaches its worker loops on all CPUs while any other is stopped (`BootEnds`) |
| `format` (76k) | all flags, widths, precisions and lengths with boundary values, formats of several items | numbers read back as the argument C assigns to them, fields are padded exactly, on both sinks |
| `context_switch_entry` | as above | violated: a new task is called with entry and argument exchanged |
| `sched_smp_tick` | 2 CPUs, ticks in tasks | violated: a preempted task is resumed from a stale stack pointer |

### Bounds

* Heap: 196 bytes hold four minimal blocks, so a block can have free neighbours on
  both sides, and a merge of three; sizes include one that is split, one that
  leaves too little to split, and one that does not fit. `SizeMod` is 1024.
* Run queue: with three CPUs one holds the lock while two wait to do different
  things; with three tasks the queue is empty, single and longer.
* Scheduler: with three CPUs and two tasks one CPU is idle while two switch; with
  two CPUs and three tasks a CPU takes another one after an exit. `MaxDepth` bounds the interrupts nested on one stack; the count of states does not
  grow between 3 and 4.
* Smp: four APs; two can be late while a third is started. The length of a wait
  does not matter, since an AP may make any number of steps in a turn.
* Paging: the scaled tables keep the relations of the real ones (a region that
  straddles tables, a kernel that does not start on a large page, a pool that
  runs out). Devices lie outside the usable memory rounded to large pages.
* Console: cells of 2 by 3 and 3 by 2 pixels with bytes of 2 bits (`ByteBits`), so
  that a row of a glyph is one byte or two; `MaxGone` 2 lets text scroll on grids of
  one and two columns; `WordMod` is 64.
* ContextSwitch: every vector a CPU raises but 29, and two error codes; register
  values are versions, two of them.
* Boot: memory scaled as for `Paging`, with a pool of 12. Time is scaled to 100
  units, 25 microseconds to the second and 2 to the millisecond, so that periods of
  4, 7, 9 and 11 divide a second with and without remainder. `Slack` is how many
  ticks late a caller may look at the counter, `MaxWait` how many milliseconds an AP
  lets the BSP wait (longer waits and timeouts are in `Smp`). `HeapSize` is just what
  the boot allocates.
* Klog: a call has ten steps, and three calls put one inside, one waiting and one
  interrupting. `MaxCalls` bounds the calls of a run.
* Format: widths of 3, 4, 5 and 7 bits stand for 8, 16, 32 and 64.

### Fairness

`FairSpec` of each module says that a CPU that executes goes on executing (weak
fairness of its steps). Nothing forces callers to call or interrupts to come.
The spinlock promises no waiting CPU its turn, so liveness that needs one is not
claimed with several CPUs: `TasksFinish` is about one. There, code that is
interrupted again and again still gets on (strong fairness of `kernel_main`, the
worker loop and a task's end), because the LAPIC timer leaves time between
ticks and the code of a task, as `test_task`, ends.

`FairBootSpec` says that the BSP executes, that the HPET counts, and that an AP that
has been started gets through `ap_main`; what happens when one does not is in
`Smp`.

`CHECK_DEADLOCK` is off where CPUs really stop: after a panic, at the end of the boot, or when a
configuration is about code that hangs.

## Proofs

TLC looks at one instance; the theorems hold for every value of the constants that
satisfies the named assumptions. Every proof of safety has the same shape: an
inductive invariant `IInv`, a lemma per action that the action preserves it, and
short theorems that draw the properties from it. The invariants of `SmpProofs`,
`KlogProofs`, `ContextSwitchProofs`, `SchedulerProofs`, `ConsoleProofs` and `BootProofs` are
defined in those modules, where only the proofs use them; each was checked with TLC on the
instance of its run. The one of `PagingProofs`, which `BootProofs` uses as `PageInv`, was
not, because it says that a function from tables to their places exists, which TLC would
have to search for.

Some theorems are conditional on named hypotheses about what the hardware, the firmware
or the callers give the code. They are definitions, not assumptions: each theorem names
in its ASSUME those it needs, and where one matters a configuration below shows what
happens without it.

`HeapProofs`, for every heap size, request set and width of `size_t`, and
for callers that free a pointer twice:

* `TypeCorrect`, `TilingHolds`, `OwnersHold`, `CoalescedHolds`, `NoLeakHolds`,
  `FailOnlyWhenFullHolds`.
* The inductive invariant `IInv` is `TypeOK`, `Tiling`, `FlagsMatchOwners`,
  `FullyCoalesced` and `WalkInv`. `WalkInv` is needed because a call is many steps:
  while `kmalloc` walks, no block it has passed fits (so that running off the list
  means that nothing does), and while `kfree` walks, no block it has passed can be
  merged with its successor (so that one pass merges everything). There is a lemma
  for each action and in it a step for each conjunct the action can disturb; the
  splitting and merging steps carry most of the argument about `Tiling`.
* `AllocFitsHolds` and `Refinement` (`HeapContract` is implemented), under `NoWrap`:
  rounding a request up, or the product in `kcalloc`, does not leave `size_t`.
  Without it both are false (`MCHeapWrap`). `FitInv` adds that headers and sizes are
  multiples of 8 and that the size `kmalloc` looks for covers what was asked. `Take` is the contract's hand-out, the start of `kfree` its
  taking back, and every other step a stutter.
* Assumption (`HeapAssumption`): the arena starts at a positive multiple of 8.

`SmpProofs` on `RunQueue`, for any sets of CPUs and tasks:

* `Exclusion`, `NoneLost`, `ListAgreesHolds`, and `Refinement`: the list implements
  `QueueContract`, with `Link` as the put and `AdvanceHead` as the get.
* The inductive invariant `QueueInv` says that head and the chain of next fields are right at
  every moment, while tail, count and the field of a task just taken off lag
  behind as long as the CPU inside is at `set_tail` or `fix_tail`; that a task
  between a caller's first write and its linking belongs to that caller and
  points nowhere; and that the lock excludes.
* Assumption (`RunQueueAssumption`): `nullptr` is neither a task nor a CPU.

`SmpProofs` on `Smp`, for any number of CPUs up to `MAX_APS`, any BSP and any timeout:

* `BarrierHolds`, `OwnStackHolds`, `WaitHolds` and `TypeCorrect`.
* `LoopInv` says which APs the loop of `smp_init` has dealt with; `CountExact` that
  the counter is the number of APs that have checked in; `AllCheckedIn` that it is complete once anybody has passed the barrier;
  `OneAtATime` that, until a wait times out, at most the AP the loop is at
  is between its SIPI and its check-in. `OwnStackInTime` rests on the last one: the
  shared data area is patched again only when nobody can still read it.
* Assumption (`SmpAssumption`): at most 16 CPUs, the size of `ap_stacks`.

`KlogProofs` on `Klog`, for any number of CPUs, levels and calls, with panics and spurious
interrupts at any step:

* `LinesWholeHolds`, `SinksAgreeHolds`, `TypeCorrect`.
* `LockInv`: `klog_lock` is held exactly if one call, on one CPU, is between its
  acquire and its release. `LineInv` says, for every place inside the body, what the
  two sinks and the colour are: whole lines and the pieces this call has
  written so far. The serial port needs `lines`, a history variable: what it got without
  the messages of panics, which take no lock. A CPU that panics inside `klog` keeps the
  lock for ever, which the invariant allows.

`KlogProofs` on `Format`, for formats of any length and all flags, widths, precisions, lengths
and values, and any number of bits for each length modifier up to that of a slot:

* `PaddedExactlyHolds`, `NumbersReadBackHolds`.
* The inductive invariant `FormatInv` says that `cvprintf` and `svprintf` are always where
  reading the format from left to right leads (`After`): next argument and fields follow from the
  position alone. TLC checked it on the instance of the run `format`. The rest is about one field.
* `ShowsAfter` describes a field that shows a number: first blanks, zeros and signs, then its digits,
  then blanks. `UintIs` and `IntIs` say that the fields of `cprint_uint` and `cprint_int` do that
  and are as long as the larger of their width and what those functions count before they print;
  `ReadShown` that who reads such a field reads the number.
* `Says` is the only value in the range of the type that agrees with the argument in its bits
  (`ModUnique`), and `Signed` and `Unsigned` find it. `MagnitudeIs` includes the most negative
  value of a type as wide as a slot.
* The digits, the reader and the position of arguments are recursive functions. That they exist,
  and what they compute, is proved by the least counterexample. Powers of two are
  known to the provers only as numbers of subsets (`PowerOf`, `PowerDoubles`).
* Assumptions: each length has at least one bit and at most those of a slot (`FormatAssumption`);
  the arguments are what the format asks for, and an argument that is a width is not the one int
  that has no negation (`CallsAssumption`). No format in the code takes a width from an argument.

`ContextSwitchProofs`, for any number of contexts, register values, vectors and error codes:

* `RegistersKeptHolds`, `StackBalancedHolds`; `ExceptionReportedHolds` under
  `KnownVectors`: vectors 29 and 31 are not raised. For 29 it is false (`MCContextSwitchSev`).
* `FrameInv` gives the words on the stack of the running context for every value of `pc`
  inside a stub or a switch, and the frame (`SavedFrame`) that every
  other context has left: that of a yield or that of an interrupt, with the values
  the context expects, or the one `task_create` made. `Kept` relates registers to
  expectations while code runs. `ExceptionInv` says which word is the vector
  and which the error code when `exception_handler` reads them.

`SchedulerProofs`, for any number of CPUs and tasks, under `Cooperative`: no ticks, and
tasks yield only when they end, as `test_task` does:

* `SwitchReturnsHolds`, `NoTaskLostHolds`, `IdleStaysHomeHolds`, `DeadIsFinalHolds`.
* With ticks on several CPUs the first is false (`sched_smp_tick`); one CPU with ticks
  is checked with TLC.
* `CpuInv` gives the calls on every stack: a boot stack is in `kernel_main`, entering
  or in the worker loop; a CPU is on its boot stack, or on a task's while its boot stack waits
  behind the switch of the loop with the good `rsp` in its idle task; scheduler_yield
  is only ever called by a task that is dead, so that it never requeues. `PlaceInv` gives
  every task one place: not created, queued, in the `Hand` of one CPU, running or dead,
  and in the first three nobody has executed on its stack (`Fresh`), so that its `rsp` is good.
* Steps are proved by kind: `Quiet` (nothing changes hands), `Creates`, `Puts`, `Takes`
  and `Switch`; `LocalStep` shows that a step of a CPU leaves what other CPUs rely on.
* Assumption (`SchedulerAssumption`): CPUs, tasks and `NULL` are distinct, and setups
  are made of them.

`PagingProofs`, for pages, tables and pools of any size and for all memory maps and devices
that satisfy two hypotheses. `InReach`: what is mapped lies below the end of what four
levels of tables translate. `Apart`: registers of devices lie outside the large
pages that `paging_init` maps; without it the theorems are false (`MCPagingRounded`).
Both are defined in `Paging`; the constants of `MCPaging` satisfy them.

* `KernelStaysMappedHolds`, `TablesFormTreeHolds`, `MappingsStayHolds`, `DeviceMappedHolds`.
* `Tree` says that there is a function giving every table in use its level, the number of
  the piece of the address space it divides and the entry it hangs under, and that
  every entry is absent, a link to the table one level down for the
  piece it selects, or the page with that number. So a lookup that ends ends at the
  address it started from. Large pages lie only in the regions of `paging_init` and last-level
  tables never do, so that `map_page_2mb` overwrites no link and `map_page_4kb` follows no page.
* Every step `Keeps` the entries that are present, from which `MappingsStay` follows.
  `Building` and `DeviceJob` say how far the regions of `paging_init` and the request of a
  device have been mapped.
* Assumption (`PagingAssumption`): sizes are positive, the pool is aligned to pages,
  memory maps are lists of pairs of base and length.

`ConsoleProofs`, for frame buffers, fonts and texts of any size, under `Supported`: pixels
have at least the three bytes that `fb_put_pixel` writes, a screen wide enough for a character
is high enough for one, its cells can be counted in the type of the cursor, the space is blank
in the font, and `kmalloc` has memory for the buffer. `MCScreens16` and `MCConsoleNull` show
what happens without the first and the last. The constants of `MCConsole` satisfy all of them.

* `NoWildAccessHolds`, `ScreenShowsBufferHolds`, `Refinement` (`Terminal` is implemented) and
  `MemmoveCopies`.
* The inductive invariant says that the cursor is on the grid, that buffer and
  frame buffer have the sizes of the grid and of the mapping, and that the screen shows
  every cell of the buffer (`Shows`). On a screen without cells it says that the
  column is 0 and nothing of the line, which then has no meaning.
* `PixelsApart`: the bytes of two pixels never coincide, whatever pitch and depth, so drawing a
  cell leaves every other cell as it was. `GlyphIs`: the bit that `font_draw_char` tests is the
  one the PSF format has for that pixel, in fonts of both versions and glyphs of any width.
* `MemmoveCopies` is by induction over the length: the least length at which the loop does
  not exist or is wrong leads to a contradiction, for the loop upwards and for the one downwards.
* For `Refinement` the page is the rows that have gone and those of the buffer:
  `PageScrolled` says that scrolling appends a blank row to it, `PageWritten` that writing a cell of
  the buffer writes one cell of it. `console_init` is `Start`, the kinds of
  `console_putchar` are `Put`, `NewLine` and `Back`; `fb_init`, an invalid font and whatever a
  console without cells does are stutters.
* Assumption (`ConsoleAssumption`): a row of the screen fits its pitch, fonts have a positive
  size and PSF1 glyphs the width of a byte.

`BootProofs`, for any set of machines, hence for each machine by itself, and any layout of
the kernel. The hypotheses are defined in `Firmware` and `Boot`: `WellFormed` and
`Numbered` say what lists of tags and tables look like and that enabled CPUs are numbered
without a gap; `Placed` that the tables lie where rounding the usable memory reaches, with `InReach`
and `Apart` of `Paging` for the memory map and the devices; `HeapFits` that the heap has room
for console, idle tasks and test tasks; `ClockFits` and `FewCpus` that the counter does not
pass its end during the boot, that the products in `hpet_sleep_us` fit their words, that a tick is not
longer than a second and that at most `MAX_CPUS` CPUs are enabled. `MCBoot` has TLC check
that its machines satisfy those that are about machines; its heap and counter
satisfy the other two.

* `WalkOnEntriesHolds`, `BestRsdpHolds` and `SmpReachesAllHolds`, from the invariant
  `WalkInv`: at each place of each walk, the cursor is the sum of the lengths of the entries before
  some entry (`OnTag`, `OnEntry`), what has been found or counted is right for the entries
  passed (`RsdpBefore`, `InRoot`, `EnabledBefore`), and when the walk is over, for all of them.
  The sum is a recursive function; that sums of positive lengths differ, so that the
  cursor tells which entry it is at, is proved by the least counterexample.
* `SleepLongEnoughHolds`, from `SleepIInv`: `ClockInv` bounds the counter by what all sleeps so
  far can have taken, turn by turn of the loop of `smp_init`, so that no target wraps; the lemma
  `SleepTime` is the arithmetic of `hpet_sleep_us`, for every period: the divisions
  of the frequency and of the product round down by less than a tick each.
* `UsedWhenReadyHolds`, from `ReadyIInv`: for each line of the start-up, what is set up when it is
  reached: tables in force, parts initialised (`PartsInv`), how much of the heap is spent
  (`HeapInv`), LAPIC and HPET mapped (`RegistersInv`), gates installed before interrupts are enabled.
  That the memory used is mapped is taken from `PagingProofs`: every step of the boot is a step of `Paging`
  or leaves its variables alone (`BootPages`), so the invariant of `Paging` holds throughout
  (`PageInv`), and `RegionMapped`, `DeviceReach` and `InForce` say what it means for a region
  and for a device. A pool of page tables that runs out ends the boot in a panic and is not excluded.
* Assumptions (`BootAssumption`, `MachinesAssumption`): the pool of page tables is whole pages inside the kernel, the
  kernel ends below what `boot.nasm` maps, the trampoline is in the first table, sizes
  are natural numbers, and the memory maps and register blocks that `Paging` is told of include
  those of the machines.

Only model-checked is all liveness (`CallsReturn`, `TasksFinish`, `BootCompletes`,
`PanicGetsOut`, `BootEnds`), which needs fairness that the prover does not handle.

## Where code and documentation disagree

Two are runs of `PROJECT.json`; the others can be reproduced with the named
configuration, or with the one of a run changed as the row says and checking only
the row's property: each violates it.

| configuration | property | what happens |
|---|---|---|
| `MCContextSwitchEntry` (run) | `EntryCalled` | `task_create` writes its frame in the order of the pushes, but `scheduler_context_switch` pops `r15` first: `r12` is the argument, `r13` the entry, and `task_trampoline` calls the argument. `drivers/scheduler.c:16` says "r12 = entry, r13 = arg" |
| `MCSchedSmpTick` (run) | `SwitchReturnsIntoTask` | `scheduler_yield` queues the old task (`scheduler.c:96`) before its stack pointer is saved (line 102); another CPU runs it from an old one |
| `MCSchedIdle` | `IdleStaysHome` | a tick with nothing queued and no current task makes the idle task current and RUNNING (`scheduler.c:98`); the next tick queues it and another CPU runs on the boot stack of the BSP |
| `MCSchedLockTick` | `TasksFinish` | a tick on the CPU that holds the lock of the run queue (`scheduler.c:56`) waits for it for ever |
| `MCSchedSmpTick` with `Setups <- Migrates`, `CHECK_DEADLOCK FALSE` | `DeadIsFinal` | a task preempted in the log line of `task_exit` (`scheduler.c:148`) goes on on another CPU; `cpu` (line 147) is still the first one, and the task that runs there is marked DEAD |
| `MCScheduler` with `Setups <- SwitchTick` | `NoTaskLost` | a tick between a dequeue (`scheduler.c:86`, 171) and its switch forgets the task taken off the queue |
| `MCHeapDoubleFree` | `DoubleFreeCaught` | the magic check whose message names double frees (`alloc.c:71`) lets them pass, since `kfree` leaves the magic word in place |
| `MCHeapWrap` | `AllocFits` | a request within 7 bytes of the largest `size_t` is rounded to 0 (`alloc.c:39`) |
| `MCSmpStack` | `WaitIsForThisAp` | after a timeout the late AP ends the wait for the next one, against `smp.c:109` |
| `MCSmpStack` | `OwnStack` | a late AP loads the stack patched for the next one, against "per-AP data" (`smp.c:92`) |
| `MCSmpHang` | `BootCompletes` | an AP given up after its timeout is then waited for without one (`smp.c:121`) |
| `MCConsoleNull` | `NoWildAccess` | `scroll` (`console.c:73`) uses the buffer without the null test its neighbours make |
| `MCKlogSpurious` | `SpuriousLogged` | a spurious interrupt inside `klog` waits for the lock its own CPU holds (`idt.c:57`) |
| `MCSchedLogTick` | `TasksFinish` | a tick in a task that holds `klog_lock` (`klogf.c:66`) starts another task, with interrupts disabled, which waits for the lock for ever |
| `MCContextSwitchSev` | `ExceptionReported` | vector 29, named "VMM Communication" (`idt.c:32`), comes with an error code, but its stub (`idt.nasm:45`) pushes another: the code reported is 0 |
| `MCContextSwitchRip` | `ReportedRip` | `exception_handler` reads "rip" through `rbp` (`idt.c:37`), which is the interrupted code's, not its own frame's |
| `MCConsole` with `Screens <- MCScreens16` | `ScreenShowsBuffer` | `boot.nasm:22` asks for any depth, and `fb_put_pixel` writes three bytes per pixel at 16 bits too |
| `MCPagingRounded` | `TablesFormTree` | a device inside memory rounded up to a large page: `map_page_4kb` follows the large page as if it were a table (`paging.c:39`) |
| `MCBoot` with `Images <- MCGappyImages` | `NotFoundIsNoTarget` | with a gap in the uids `smp_init` sends INIT to 0xFF, the answer "not found" (`madt.c:84`) |
| `MCBoot` with `HeapSize = 8` | `UsedWhenReady` | with a heap too small `task_create` uses the NULL it gets (`scheduler.c:110`) |
| `MCBoot` with `Images <- MCFarImages` | `UsedWhenReady` | ACPI tables outside the usable memory `paging_init` maps are read unmapped (`acpi.c:62`) |
| `MCBoot` with `Images <- MCPlainImages`, `CounterMod = 16` | `BootEnds` | a counter narrower than the target wraps and the sleep never ends (`hpet.c:50`) |
| `MCFormatWide` | `AddressesWhole` | 64-bit addresses logged with `0x%x` (`main.c:66`) lose their upper half |

What `Scheduler` shows to be sound is therefore conditional: several CPUs without
ticks, or one CPU with ticks that miss the code inside the locks of run queue and
log (where they hang the CPU) and the code between a dequeue and its switch (where they lose the
task). `MCScheduler.tla` lists those labels. So no task changes CPUs in the run
`scheduler`: the uses of a `cpu` that has become the wrong one show only with `Migrates`. `Scheduler` also takes tasks to start
at their entry, which `ContextSwitch` shows they do not.

## Assumptions and what is not modelled

* Firmware tables are well formed and include a MADT, and lie where rounding the
  usable memory to large pages reaches them; LAPIC ids and the number of CPUs are
  below 16, the size of the kernel's arrays. Frame buffers have 24 or 32 bits per
  pixel. The HPET counts far enough for the boot.
* The UART drains. A piece of a log line is written in one step.
* Register values of the LAPIC, the mode switches of boot code and trampoline and
  the layout of descriptors are left out: they are straight-line writes of
  constants. `memset`, `memcpy`, `memcmp` and the functions of `lib/string.c` keep
  no state and appear as their effect.
* APs never load an interrupt table, so an exception on one is a reset; that is not
  modelled.
* What an AP does once it shares a stack with another, what a CPU does after it has
  loaded a stale stack pointer, and what code does after it has used something that
  was not ready, is not known and not modelled.
* No code calls `gdt_init`, `madt_get_ioapic_addr`, `paging_map_mmio`,
  `lapic_sleep_ms`, `idle_task`, `log_task`, `fb_fill_rect`, `fb_get_pixel`, the logo
  routines, or most of `x86.h`, and they are not modelled; `drivers/ioapic.c` is
  empty.

## Plan

Done: models of every part that runs, the composition of the boot, the abstract
specifications `HeapContract`, `QueueContract` and `Terminal`, each shown to be implemented,
and proofs of the safety properties of all modules, of `Scheduler` without ticks.

What is left are properties of one CPU with ticks, whose invariant would have to list the
places where ticks are safe, and the parts named above as not modelled.
