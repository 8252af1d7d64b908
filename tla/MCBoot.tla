------------------------------- MODULE MCBoot -------------------------------
(* Machines for Boot: MADTs of up to three entries of every kind with at   *)
(* least one CPU, RSDT and XSDT, the tag lists a loader may pass, and      *)
(* machines that lack something.  Addresses are scaled like MCPaging's;    *)
(* the ACPI tables lie behind the usable memory, in the large page that    *)
(* paging_init rounds it up to.                                            *)
EXTENDS Boot

Kinds == {"LAPIC", "off", "IOAPIC", "ISO", "LAPIC_OVERRIDE"}
Lengths == [k \in Kinds |-> CASE k \in {"LAPIC", "off"} -> 8 [] k = "ISO" -> 10
                              [] OTHER -> 12]

(* CPUs are numbered in order, the ones that are not enabled last; LAPIC   *)
(* ids are something else.                                                 *)
Before(s, k, kind) == Cardinality({j \in 1..(k - 1) : s[j] = kind})
Uid(s, k) ==
  IF s[k] = "LAPIC" THEN Before(s, k, "LAPIC")
  ELSE Before(s, Len(s) + 1, "LAPIC") + Before(s, k, "off")
MkEntry(s, k, uid) ==
  [type |-> IF s[k] = "off" THEN "LAPIC" ELSE s[k], length |-> Lengths[s[k]],
   uid |-> uid, apic_id |-> 2 * k, enabled |-> s[k] = "LAPIC", addr |-> 114 + 2 * k]

Dense(s) == [k \in DOMAIN s |-> MkEntry(s, k, Uid(s, k))]
(* Numbered in the order of the entries, whether enabled or not.           *)
Gappy(s) == [k \in DOMAIN s |->
               MkEntry(s, k, Before(s, k, "LAPIC") + Before(s, k, "off"))]

Table(sig, addr, entries) ==
  [signature |-> sig, addr |-> addr, entries |-> entries, lapic_addr |-> 112]
Tables(entries, hpet) ==
  <<Table("FACP", 59, << >>), Table("APIC", 60, entries)>>
    \o (IF hpet THEN <<Table("HPET", 62, << >>)>> ELSE << >>)
Root(tables, size, addr) ==
  [length |-> SdtHeader + size * Len(tables), addr |-> addr, tables |-> tables]

NoRsdp == [revision |-> 0, rsdt |-> 0, xsdt |-> 0]
MkTag(type, size, r) == [type |-> type, size |-> size, rsdp |-> r]
V1 == MkTag("ACPI_V1", 28, [revision |-> 0, rsdt |-> 1, xsdt |-> 0])
V1Bad == MkTag("ACPI_V1", 28, NoRsdp)
V2 == MkTag("ACPI_V2", 44, [revision |-> 2, rsdt |-> 1, xsdt |-> 2])
Cmd == MkTag("CMDLINE", 9, NoRsdp)
Fb == MkTag("FRAMEBUFFER", 38, NoRsdp)
End == MkTag("END", 8, NoRsdp)

Cpus(s) == {k \in DOMAIN s : s[k] = "LAPIC"}
Bsp1(s) == CHOOSE k \in Cpus(s) : \A j \in Cpus(s) : k <= j

(* A machine with everything the kernel asks for, and less of it.          *)
Machine(tags, s, entries, period) ==
  [tags |-> tags,
   roots |-> <<Root(Tables(entries, TRUE), 4, 57), Root(Tables(entries, TRUE), 8, 58)>>,
   mmap |-> <<<<0, 3>>, <<5, 52>>>>, info |-> 31, fb |-> <<101, 6>>,
   hpet |-> 252, period |-> period,
   bsp |-> 2 * Bsp1(s), aps |-> {2 * k : k \in Cpus(s) \ {Bsp1(s)}},
   multiboot |-> TRUE, cpuid |-> TRUE, long_mode |-> TRUE, complete |-> TRUE]

Less(m) == [m EXCEPT !.complete = FALSE]

One == <<"LAPIC">>
Two == <<"LAPIC", "LAPIC">>
Whole(tags, s, period) == Machine(tags, s, Dense(s), period)
Plain == Whole(<<Fb, V2, End>>, Two, 7)

MADTs == {s \in UNION {[1..n -> Kinds] : n \in 1..3} : Cpus(s) # {}}

CompleteImages ==
  {Whole(<<V2, V1, Fb, End>>, s, 7) : s \in MADTs}
  \cup {Whole(tags, s, 7) : s \in {s \in MADTs : Len(s) <= 2},
                             tags \in {<<Cmd, V1, Fb, End>>, <<V1, Cmd, V2, End>>}}
  \cup {Whole(<<Fb, V2, End>>, Two, period) : period \in {4, 9, 11}}

NoHpet ==
  LET tables == Tables(Dense(One), FALSE)
  IN  [Less(Plain) EXCEPT !.roots = <<Root(tables, 4, 57), Root(tables, 8, 58)>>]

MCImages ==
  CompleteImages \cup
    { NoHpet,
      Less(Whole(<<Fb, End>>, One, 7)), Less(Whole(<<V1Bad, End>>, One, 7)),
      [Less(Plain) EXCEPT !.multiboot = FALSE],
      [Less(Plain) EXCEPT !.cpuid = FALSE],
      [Less(Plain) EXCEPT !.long_mode = FALSE],
      [Less(Plain) EXCEPT !.mmap =
         <<<<5, 52>>, <<140, 1>>, <<270, 1>>, <<300, 1>>, <<400, 1>>, <<460, 1>>>>] }

(* The memory maps above and below, and the register blocks: frame buffer, *)
(* HPET and LAPIC, where the MADT or an override in it says.               *)
MCMaps ==
  {<<<<0, 3>>, <<5, 52>>>>, <<<<0, 3>>, <<5, 20>>>>,
   <<<<5, 52>>, <<140, 1>>, <<270, 1>>, <<300, 1>>, <<400, 1>>, <<460, 1>>>>}
MCDevices ==
  {<<101, 6>>, <<252, 2>>, <<112, 2>>, <<116, 2>>, <<118, 2>>, <<120, 2>>}

(* The machines are of the kind that the theorems of BootProofs are about. *)
ASSUME ImagesAssumption ==
  /\ \A m \in MCImages : WellFormed(m) /\ Numbered(m) /\ Placed(m) /\ FewCpus(m)
  /\ P!InReach /\ P!Apart

(* CPUs numbered with gaps.                                                *)
MCGappyImages == {Machine(<<V2, End>>, s, Gappy(s), 7) : s \in MADTs}

(* ACPI tables far from the usable memory.                                 *)
MCFarImages == {[Plain EXCEPT !.mmap = <<<<0, 3>>, <<5, 20>>>>]}

MCPlainImages == {Plain}
=============================================================================
