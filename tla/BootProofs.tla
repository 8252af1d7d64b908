----------------------------- MODULE BootProofs -----------------------------
(***************************************************************************)
(* Theorems about the boot, for every set of machines that is as Firmware  *)
(* and Boot ask (WellFormed, Numbered, Placed ...) and every layout of the *)
(* kernel.                                                                 *)
(***************************************************************************)
EXTENDS Boot, FiniteSetTheorems, SequenceTheorems, NaturalsInduction, TLAPS

(* A step of the walks over the loader's and the firmware's lists.         *)
FirmwareStep ==
  \/ mb2_parse \/ get_acpi_rsdp \/ acpi_init \/ acpi_parse_tables \/ madt_parse
  \/ TablesDone \/ lapic_init \/ hpet_init

-----------------------------------------------------------------------------
(* The inductive invariant of the walks.  The tags before tag k: no RSDP   *)
(* of version 2 is among them, and rsdp is one of version 1 if there is    *)
(* any.                                                                    *)
Of(type) == {k \in DOMAIN Tags : Tags[k].type = type}
RsdpBefore(k) ==
  /\ \A j \in Of("ACPI_V2") : j >= k
  /\ rsdp = NULL \/ rsdp \in Of("ACPI_V1")
  /\ rsdp = NULL => \A j \in Of("ACPI_V1") : j >= k

RsdpFound ==
  IF Of("ACPI_V2") # {} THEN rsdp \in Of("ACPI_V2")
  ELSE IF Of("ACPI_V1") # {} THEN rsdp \in Of("ACPI_V1")
  ELSE rsdp = NULL

OnTag ==
  \E k \in DOMAIN Tags :
    /\ ptr = Offset(TagSizes, k)
    /\ pc = "get_acpi_rsdp" => RsdpBefore(k)

(* Nothing has been read of the root table.                                *)
NoRoot ==
  /\ root = [length |-> 0, tables |-> << >>] /\ i = 0
  /\ madt_table = NULL /\ hpet_table = NULL /\ cpu_count = 0

(* The tables up to the i-th have been looked at.                          *)
InRoot ==
  /\ root \in {image.roots[r] : r \in DOMAIN image.roots}
  /\ entry_size \in {4, 8}
  /\ root.length = SdtHeader + entry_size * Len(root.tables)
  /\ i \in 0..Len(root.tables)
  /\ hpet_table \in 0..i
  /\ \/ madt_table \in 1..i /\ Signature(madt_table) = "APIC"
     \/ /\ madt_table = NULL /\ cpu_count = 0
        /\ \A t \in 1..i : Signature(t) # "APIC"

(* The enabled CPUs among the entries before the k-th.                     *)
EnabledBefore(t, k) == {j \in EnabledIn(Entries(t)) : j < k}
OnEntry ==
  /\ madt_table # NULL /\ madt_table = i
  /\ \E k \in 1..(Len(Entries(madt_table)) + 1) :
       /\ ptr = Offset(EntrySizes(madt_table), k)
       /\ cpu_count = Cardinality(EnabledBefore(madt_table, k))

AllCounted == madt_table # NULL => cpu_count = Cardinality(EnabledIn(Entries(madt_table)))
AllLooked == i = Len(root.tables) /\ madt_table # NULL

WalkInv ==
  /\ image \in Images
  /\ pc \in {"mb2_parse", "get_acpi_rsdp", "acpi_init", "acpi_parse_tables", "madt_parse",
             "lapic_init", "hpet_init", "booted", "panic"}
  /\ pc \in {"mb2_parse", "get_acpi_rsdp"} => OnTag
  /\ pc = "mb2_parse" => rsdp = NULL
  /\ pc \notin {"mb2_parse", "get_acpi_rsdp"} => RsdpFound
  /\ pc \in {"mb2_parse", "get_acpi_rsdp", "acpi_init"} => NoRoot
  /\ pc \in {"acpi_parse_tables", "lapic_init", "hpet_init", "booted"} => InRoot /\ AllCounted
  /\ pc \in {"lapic_init", "hpet_init", "booted"} => AllLooked
  /\ pc = "madt_parse" => InRoot /\ OnEntry
  /\ pc = "panic" => NoRoot \/ InRoot

-----------------------------------------------------------------------------
(* Offsets in a list.  The provers cannot use the induction rules of the   *)
(* library, which have an operator as parameter; a least counterexample    *)
(* serves.                                                                 *)
LEMMA Least == ASSUME NEW T, T \subseteq Nat, T # {} PROVE \E x \in T : \A y \in T : x <= y
<1>1. IsWellFoundedOn(OpToRel(<, Nat), Nat)
  BY NatLessThanWellFounded
<1>2. PICK x \in T : \A y \in T : <<y, x>> \notin OpToRel(<, Nat)
  BY <1>1, WFMin
<1>3. \A y \in T : ~(y < x)
  BY <1>2 DEF OpToRel
<1> QED BY <1>3

(* off gives the offsets of the first n elements and the end of the last.  *)
Offsets(off, s, n) ==
  off = [j \in 1..(n + 1) |-> IF j = 1 THEN 0 ELSE off[j - 1] + s[j - 1]]

LEMMA OffsetsExist ==
  ASSUME NEW s, NEW n \in Nat PROVE \E off : Offsets(off, s, n)
<1> DEFINE T == {m \in Nat : ~\E off : Offsets(off, s, m)}
<1>1. SUFFICES ASSUME T # {} PROVE FALSE
  OBVIOUS
<1>2. PICK m \in T : \A y \in T : m <= y
  BY <1>1, Least
<1>3. CASE m = 0
  <2> DEFINE f == [j \in 1..1 |-> 0]
  <2>1. Offsets(f, s, 0)
    BY DEF Offsets
  <2> QED BY <2>1, <1>3, <1>2
<1>4. CASE m > 0
  <2>1. m \in Nat /\ m - 1 \in Nat /\ m - 1 \notin T
    BY <1>2, <1>4
  <2>2. PICK g : Offsets(g, s, m - 1)
    BY <2>1
  <2> DEFINE f == [j \in 1..(m + 1) |-> IF j = 1 THEN 0 ELSE g[j - 1] + s[j - 1]]
  <2>3. \A j \in 1..(m + 1) : f[j] = IF j = 1 THEN 0 ELSE g[j - 1] + s[j - 1]
    OBVIOUS
  <2>4. \A j \in 1..m : g[j] = IF j = 1 THEN 0 ELSE g[j - 1] + s[j - 1]
    BY <2>1, <2>2 DEF Offsets
  <2>5. f = [j \in 1..(m + 1) |-> f[j]]
    OBVIOUS
  <2> HIDE DEF f, T
  <2>6. \A j \in 1..m : f[j] = g[j]
    BY <2>1, <2>3, <2>4
  <2>7. \A j \in 1..(m + 1) : f[j] = IF j = 1 THEN 0 ELSE f[j - 1] + s[j - 1]
    <3> SUFFICES ASSUME NEW j \in 1..(m + 1), j # 1 PROVE f[j] = f[j - 1] + s[j - 1]
      BY <2>3
    <3>1. j - 1 \in 1..m
      BY <2>1
    <3> QED BY <3>1, <2>3, <2>6
  <2>8. Offsets(f, s, m)
    BY <2>5, <2>7 DEF Offsets
  <2> QED BY <2>8, <1>2 DEF T
<1> QED BY <1>2, <1>3, <1>4

(* The equations of the recursive definition.                              *)
Sizes(s) == s \in Seq(Nat \ {0})
LEMMA OffsetIs ==
  ASSUME NEW s, Sizes(s)
  PROVE  /\ Offset(s, 1) = 0
         /\ \A k \in 1..Len(s) : Offset(s, k + 1) = Offset(s, k) + s[k]
<1> DEFINE Off(f) == f = [j \in 1..(Len(s) + 1) |-> IF j = 1 THEN 0 ELSE f[j - 1] + s[j - 1]]
<1>1. Len(s) \in Nat
  BY LenProperties DEF Sizes
<1>2. \E f : Off(f)
  BY <1>1, OffsetsExist DEF Offsets
<1>3. Off(CHOOSE f : Off(f))
  BY <1>2
<1> DEFINE g == CHOOSE f : Off(f)
<1>4. \A k : Offset(s, k) = g[k]
  BY DEF Offset
<1> HIDE DEF g
<1>5. g = [j \in 1..(Len(s) + 1) |-> IF j = 1 THEN 0 ELSE g[j - 1] + s[j - 1]]
  BY <1>3 DEF g
<1>6. g[1] = 0
  BY <1>1, <1>5
<1>7. ASSUME NEW k \in 1..Len(s) PROVE g[k + 1] = g[k] + s[k]
  <2>1. k + 1 \in 1..(Len(s) + 1) /\ k + 1 # 1 /\ (k + 1) - 1 = k
    BY <1>1
  <2> QED BY <1>5, <2>1
<1> QED BY <1>4, <1>6, <1>7

LEMMA OffsetNat ==
  ASSUME NEW s, Sizes(s) PROVE \A k \in 1..(Len(s) + 1) : Offset(s, k) \in Nat
<1> DEFINE T == {k \in 1..(Len(s) + 1) : Offset(s, k) \notin Nat}
<1>0. Len(s) \in Nat /\ \A k \in 1..Len(s) : s[k] \in Nat \ {0}
  BY LenProperties, ElementOfSeq DEF Sizes
<1>1. SUFFICES ASSUME T # {} PROVE FALSE
  OBVIOUS
<1>2. PICK k \in T : \A y \in T : k <= y
  BY <1>0, <1>1, Least, T \subseteq Nat
<1>3. k # 1
  BY <1>2, OffsetIs
<1>4. k - 1 \in 1..Len(s) /\ k - 1 \notin T /\ k - 1 \in 1..(Len(s) + 1) /\ (k - 1) + 1 = k
  BY <1>0, <1>2, <1>3
<1>5. Offset(s, k - 1) \in Nat
  BY <1>4
<1>6. Offset(s, k) = Offset(s, k - 1) + s[k - 1]
  BY <1>4, OffsetIs
<1>7. Offset(s, k) \in Nat
  BY <1>0, <1>4, <1>5, <1>6
<1> QED BY <1>2, <1>7

(* Offsets grow, so a pointer is on one element at most.                   *)
LEMMA OffsetGrows ==
  ASSUME NEW s, Sizes(s), NEW j \in 1..(Len(s) + 1), NEW k \in 1..(Len(s) + 1), j < k
  PROVE  Offset(s, j) < Offset(s, k)
<1> DEFINE T == {n \in 1..(Len(s) + 1) : j < n /\ ~(Offset(s, j) < Offset(s, n))}
<1>0. Len(s) \in Nat /\ \A n \in 1..Len(s) : s[n] \in Nat \ {0}
  BY LenProperties, ElementOfSeq DEF Sizes
<1>1. SUFFICES ASSUME T # {} PROVE FALSE
  BY <1>0
<1>2. PICK n \in T : \A y \in T : n <= y
  BY <1>0, <1>1, Least, T \subseteq Nat
<1>3. n - 1 \in 1..Len(s) /\ n - 1 \notin T /\ n - 1 \in 1..(Len(s) + 1) /\ (n - 1) + 1 = n
  BY <1>0, <1>2
<1>4. Offset(s, n) = Offset(s, n - 1) + s[n - 1]
  BY <1>3, OffsetIs
<1>5. /\ Offset(s, n) \in Nat /\ Offset(s, n - 1) \in Nat /\ Offset(s, j) \in Nat
      /\ s[n - 1] \in Nat \ {0}
  BY <1>0, <1>2, <1>3, OffsetNat
<1>6. Offset(s, j) <= Offset(s, n - 1)
  BY <1>2, <1>3, <1>5
<1>7. Offset(s, j) < Offset(s, n)
  BY <1>4, <1>5, <1>6
<1> QED BY <1>2, <1>7

LEMMA OffsetOne ==
  ASSUME NEW s, Sizes(s), NEW j \in 1..(Len(s) + 1), NEW k \in 1..(Len(s) + 1),
         Offset(s, j) = Offset(s, k)
  PROVE  j = k
<1>1. ~(j < k) /\ ~(k < j)
  BY OffsetGrows, OffsetNat
<1>2. Len(s) \in Nat
  BY LenProperties DEF Sizes
<1> QED BY <1>1, <1>2

-----------------------------------------------------------------------------
(* The multiboot tags.                                                     *)
LEMMA TagFacts ==
  ASSUME WellFormed(image)
  PROVE  /\ Len(Tags) \in Nat \ {0} /\ DOMAIN Tags = 1..Len(Tags)
         /\ \A k \in DOMAIN Tags : Tags[k] \in TagRecord
         /\ \A k \in DOMAIN Tags : Tags[k].type = "END" <=> k = Len(Tags)
         /\ Sizes(TagSizes) /\ Len(TagSizes) = Len(Tags)
         /\ \A k \in DOMAIN Tags : TagSizes[k] = Align8(Tags[k].size)
<1>1. /\ Tags \in Seq(TagRecord) /\ Tags # << >>
      /\ \A k \in DOMAIN Tags : Tags[k].type = "END" <=> k = Len(Tags)
  BY DEF WellFormed, Tags
<1> HIDE DEF Tags
<1>2. /\ Len(Tags) \in Nat /\ DOMAIN Tags = 1..Len(Tags)
      /\ \A k \in DOMAIN Tags : Tags[k] \in TagRecord
  BY <1>1, LenProperties, ElementOfSeq
<1>3. Len(Tags) # 0
  BY <1>1, EmptySeq
<1>4. ASSUME NEW k \in DOMAIN Tags PROVE Align8(Tags[k].size) \in Nat \ {0}
  <2>1. Tags[k].size \in Nat \ {0}
    BY <1>2 DEF TagRecord
  <2> QED BY <2>1 DEF Align8
<1>5. TagSizes = [k \in 1..Len(Tags) |-> Align8(Tags[k].size)]
  BY <1>2 DEF TagSizes
<1>6. TagSizes \in Seq(Nat \ {0}) /\ Len(TagSizes) = Len(Tags)
  <2>1. TagSizes \in [1..Len(Tags) -> Nat \ {0}]
    BY <1>2, <1>4, <1>5
  <2> QED BY <1>2, <2>1, SeqDef, LenProperties
<1>7. \A k \in DOMAIN Tags : TagSizes[k] = Align8(Tags[k].size)
  BY DEF TagSizes
<1> QED BY <1>1, <1>2, <1>3, <1>6, <1>7 DEF Sizes

LEMMA TagHere ==
  ASSUME WellFormed(image), NEW k \in DOMAIN Tags, ptr = Offset(TagSizes, k)
  PROVE  /\ TagsAt(ptr) # {} /\ The(TagsAt(ptr)) = k /\ Tag = Tags[k]
         /\ k # Len(Tags) => k + 1 \in DOMAIN Tags /\ NextTag = Offset(TagSizes, k + 1)
<1>1. /\ Len(Tags) \in Nat \ {0} /\ DOMAIN Tags = 1..Len(Tags)
      /\ Sizes(TagSizes) /\ Len(TagSizes) = Len(Tags)
      /\ TagSizes[k] = Align8(Tags[k].size)
  BY TagFacts
<1>2. \A j \in DOMAIN Tags : Offset(TagSizes, j) = ptr => j = k
  <2> TAKE j \in DOMAIN Tags
  <2>1. j \in 1..(Len(TagSizes) + 1) /\ k \in 1..(Len(TagSizes) + 1)
    BY <1>1
  <2> QED BY <1>1, <2>1, OffsetOne
<1>3. TagsAt(ptr) = {k}
  BY <1>2 DEF TagsAt
<1>4. The(TagsAt(ptr)) = k
  BY <1>3 DEF The
<1>5. Tag = Tags[k]
  BY <1>4 DEF Tag
<1>6. Offset(TagSizes, k + 1) = Offset(TagSizes, k) + TagSizes[k]
  BY <1>1, OffsetIs
<1>7. NextTag = Offset(TagSizes, k + 1)
  BY <1>1, <1>5, <1>6 DEF NextTag
<1> QED BY <1>1, <1>3, <1>4, <1>5, <1>7

(* Every image that may be in memory is well formed.                       *)
AllWellFormed == \A m \in Images : WellFormed(m)

LEMMA WalkInit == ASSUME AllWellFormed, Init PROVE WalkInv
<1>1. /\ image \in Images /\ WellFormed(image) /\ pc = "mb2_parse" /\ ptr = 0
      /\ rsdp = NULL
  BY DEF Init, AllWellFormed
<1>2. 1 \in DOMAIN Tags /\ Sizes(TagSizes)
  BY <1>1, TagFacts
<1>3. ptr = Offset(TagSizes, 1)
  BY <1>1, <1>2, OffsetIs
<1>4. OnTag
  BY <1>1, <1>2, <1>3 DEF OnTag
<1>5. NoRoot
  BY DEF Init, NoRoot
<1> QED BY <1>1, <1>4, <1>5 DEF WalkInv

LEMMA WalkTag == ASSUME AllWellFormed, WalkInv, mb2_parse PROVE WalkInv'
<1>1. image \in Images /\ WellFormed(image) /\ OnTag /\ NoRoot /\ rsdp = NULL
  BY DEF WalkInv, AllWellFormed, mb2_parse
<1>2. PICK k \in DOMAIN Tags : ptr = Offset(TagSizes, k)
  BY <1>1 DEF OnTag
<1>3. /\ Tag = Tags[k]
      /\ k # Len(Tags) => k + 1 \in DOMAIN Tags /\ NextTag = Offset(TagSizes, k + 1)
  BY <1>1, <1>2, TagHere
<1>4. image' = image /\ rsdp' = rsdp /\ Tags' = Tags /\ TagSizes' = TagSizes
  BY DEF mb2_parse, Tags, TagSizes
<1>5. NoRoot'
  BY <1>1 DEF mb2_parse, NoRoot
<1>6. CASE Tag.type = "END"
  <2>1. pc' = "get_acpi_rsdp" /\ ptr' = 0
    BY <1>6 DEF mb2_parse
  <2>2. 1 \in DOMAIN Tags /\ Sizes(TagSizes) /\ DOMAIN Tags = 1..Len(Tags) /\ Len(Tags) \in Nat
    BY <1>1, TagFacts
  <2>3. ptr' = Offset(TagSizes', 1)
    BY <1>4, <2>1, <2>2, OffsetIs
  <2>4. \A j \in DOMAIN Tags : j >= 1
    BY <2>2
  <2>5. RsdpBefore(1)'
    BY <1>1, <1>4, <2>4 DEF RsdpBefore, Of
  <2>6. OnTag'
    BY <1>4, <2>1, <2>2, <2>3, <2>5 DEF OnTag
  <2> QED BY <1>1, <1>4, <1>5, <2>1, <2>6 DEF WalkInv
<1>7. CASE Tag.type # "END"
  <2>1. pc' = "mb2_parse" /\ ptr' = NextTag
    BY <1>7 DEF mb2_parse
  <2>2. k # Len(Tags)
    BY <1>1, <1>3, <1>7, TagFacts
  <2>3. OnTag'
    BY <1>3, <1>4, <2>1, <2>2 DEF OnTag
  <2> QED BY <1>1, <1>4, <1>5, <2>1, <2>3 DEF WalkInv
<1> QED BY <1>6, <1>7

LEMMA WalkRsdp == ASSUME AllWellFormed, WalkInv, get_acpi_rsdp PROVE WalkInv'
<1>1. image \in Images /\ WellFormed(image) /\ OnTag /\ NoRoot /\ pc = "get_acpi_rsdp"
  BY DEF WalkInv, AllWellFormed, get_acpi_rsdp
<1>2. PICK k \in DOMAIN Tags : ptr = Offset(TagSizes, k) /\ RsdpBefore(k)
  BY <1>1 DEF OnTag
<1>3. /\ Tag = Tags[k] /\ The(TagsAt(ptr)) = k
      /\ k # Len(Tags) => k + 1 \in DOMAIN Tags /\ NextTag = Offset(TagSizes, k + 1)
  BY <1>1, <1>2, TagHere
<1>4. image' = image /\ Tags' = Tags /\ TagSizes' = TagSizes /\ \A t : Of(t)' = Of(t)
  BY DEF get_acpi_rsdp, Tags, TagSizes, Of
<1>5. NoRoot'
  BY <1>1 DEF get_acpi_rsdp, NoRoot
<1>6. /\ DOMAIN Tags = 1..Len(Tags) /\ Len(Tags) \in Nat
      /\ (Tags[k].type = "END" <=> k = Len(Tags))
      /\ Of("ACPI_V1") \subseteq 1..Len(Tags) /\ Of("ACPI_V2") \subseteq 1..Len(Tags)
  BY <1>1, TagFacts DEF Of
<1>7. rsdp' = IF Tags[k].type \in {"ACPI_V1", "ACPI_V2"} THEN k ELSE rsdp
  BY <1>3 DEF get_acpi_rsdp
<1>8. CASE Tag.type \in LastTags
  <2>1. pc' = "acpi_init"
    BY <1>8 DEF get_acpi_rsdp
  <2>2. CASE Tags[k].type = "ACPI_V2"
    <3>1. rsdp' = k /\ k \in Of("ACPI_V2")
      BY <1>7, <2>2 DEF Of
    <3>2. RsdpFound'
      BY <1>4, <3>1 DEF RsdpFound
    <3> QED BY <1>1, <1>4, <1>5, <2>1, <3>2 DEF WalkInv
  <2>3. CASE Tags[k].type = "END"
    <3>1. rsdp' = rsdp /\ k = Len(Tags) /\ k \notin Of("ACPI_V1") /\ k \notin Of("ACPI_V2")
      BY <1>6, <1>7, <2>3 DEF Of
    <3>2. Of("ACPI_V2") = {}
      BY <1>2, <1>6, <3>1 DEF RsdpBefore
    <3>3. rsdp = NULL => Of("ACPI_V1") = {}
      BY <1>2, <1>6, <3>1 DEF RsdpBefore
    <3>4. RsdpFound'
      BY <1>2, <1>4, <3>1, <3>2, <3>3 DEF RsdpFound, RsdpBefore
    <3> QED BY <1>1, <1>4, <1>5, <2>1, <3>4 DEF WalkInv
  <2> QED BY <1>3, <1>8, <2>2, <2>3 DEF LastTags
<1>9. CASE Tag.type \notin LastTags
  <2>1. pc' = "get_acpi_rsdp" /\ ptr' = NextTag
    BY <1>1, <1>9 DEF get_acpi_rsdp
  <2>2. k # Len(Tags) /\ k \notin Of("ACPI_V2")
    BY <1>3, <1>6, <1>9 DEF LastTags, Of
  <2>3. Tags[k].type \in {"ACPI_V1", "ACPI_V2"} <=> k \in Of("ACPI_V1")
    BY <1>3, <1>9 DEF LastTags, Of
  <2>4. RsdpBefore(k + 1)'
    <3>1. \A j \in Of("ACPI_V2") : j >= k + 1
      BY <1>2, <1>6, <2>2 DEF RsdpBefore
    <3>2. rsdp' = NULL \/ rsdp' \in Of("ACPI_V1")
      BY <1>2, <1>7, <2>3 DEF RsdpBefore
    <3>3. rsdp' = NULL => rsdp = NULL /\ k \notin Of("ACPI_V1")
      BY <1>6, <1>7, <2>3 DEF NULL
    <3>4. rsdp' = NULL => \A j \in Of("ACPI_V1") : j >= k + 1
      BY <1>2, <1>6, <3>3 DEF RsdpBefore
    <3> QED BY <1>4, <3>1, <3>2, <3>4 DEF RsdpBefore
  <2>5. OnTag'
    BY <1>3, <1>4, <2>1, <2>2, <2>4 DEF OnTag
  <2> QED BY <1>1, <1>4, <1>5, <2>1, <2>5 DEF WalkInv
<1> QED BY <1>8, <1>9

(* What a step leaves alone, as far as the tags go.                        *)
LEMMA TagsKept ==
  ASSUME image' = image PROVE Tags' = Tags /\ TagSizes' = TagSizes /\ \A t : Of(t)' = Of(t)
BY DEF Tags, TagSizes, Of

LEMMA WalkRoot == ASSUME AllWellFormed, WalkInv, acpi_init PROVE WalkInv'
<1>1. image \in Images /\ WellFormed(image) /\ RsdpFound /\ NoRoot /\ pc = "acpi_init"
  BY DEF WalkInv, AllWellFormed, acpi_init
<1>2. /\ UNCHANGED <<image, ptr, rsdp, i, madt_table, hpet_table, cpu_count>>
      /\ Tags' = Tags /\ \A t : Of(t)' = Of(t)
  BY TagsKept DEF acpi_init
<1>3. RsdpFound'
  BY <1>1, <1>2 DEF RsdpFound
<1> DEFINE new == rsdp # NULL /\ Tags[rsdp].rsdp.revision >= 2
           table == IF new THEN Tags[rsdp].rsdp.xsdt ELSE Tags[rsdp].rsdp.rsdt
<1>4. CASE rsdp = NULL \/ table = NULL
  <2>1. pc' = "panic" /\ root' = root
    BY <1>4 DEF acpi_init
  <2>2. NoRoot'
    BY <1>1, <1>2, <2>1 DEF NoRoot
  <2> QED BY <1>1, <1>2, <1>3, <2>1, <2>2 DEF WalkInv
<1>5. CASE ~(rsdp = NULL \/ table = NULL)
  <2>1. /\ root' = image.roots[table] /\ pc' = "acpi_parse_tables"
        /\ entry_size' = IF new THEN 8 ELSE 4
    BY <1>5 DEF acpi_init
  <2>2. rsdp \in DOMAIN Tags /\ Tags[rsdp].type \in {"ACPI_V1", "ACPI_V2"}
    BY <1>1, <1>5 DEF RsdpFound, Of
  <2>3. IsRoot(image, Tags[rsdp].rsdp.rsdt, 4) /\ IsRoot(image, Tags[rsdp].rsdp.xsdt, 8)
    BY <1>1, <2>2 DEF WellFormed, Tags
  <2>4. /\ table \in DOMAIN image.roots
        /\ root'.length = SdtHeader + entry_size' * Len(root'.tables)
        /\ entry_size' \in {4, 8}
    BY <1>5, <2>1, <2>3 DEF IsRoot
  <2> HIDE DEF table, new
  <2>5. root' \in {image.roots[r] : r \in DOMAIN image.roots}
    BY <2>1, <2>4
  <2>6. Len(root'.tables) \in Nat
    <3>1. image.roots[table] \in RootRecord
      BY <1>1, <2>4, ElementOfSeq, LenProperties DEF WellFormed
    <3> QED BY <2>1, <3>1, LenProperties DEF RootRecord
  <2>7. i' = 0 /\ hpet_table' = 0 /\ madt_table' = NULL /\ cpu_count' = 0
    BY <1>1, <1>2 DEF NoRoot, NULL
  <2>8. InRoot' /\ AllCounted'
    BY <1>2, <2>4, <2>5, <2>6, <2>7 DEF InRoot, AllCounted, NULL
  <2> QED BY <1>1, <1>2, <1>3, <2>1, <2>8 DEF WalkInv
<1> QED BY <1>4, <1>5

(* The root table that is walked, and the MADT in it.                      *)
LEMMA RootFacts ==
  ASSUME WellFormed(image), InRoot
  PROVE  /\ Len(root.tables) \in Nat /\ DOMAIN root.tables = 1..Len(root.tables)
         /\ \A t \in DOMAIN root.tables : root.tables[t] \in TableRecord
         /\ Count = Len(root.tables)
         /\ \A t, u \in DOMAIN root.tables :
              Signature(t) = "APIC" /\ Signature(u) = "APIC" => t = u
<1>1. PICK r \in DOMAIN image.roots : root = image.roots[r]
  BY DEF InRoot
<1>2. image.roots[r] \in RootRecord
  BY ElementOfSeq, LenProperties DEF WellFormed
<1>3. root.tables \in Seq(TableRecord)
  BY <1>1, <1>2 DEF RootRecord
<1>4. /\ Len(root.tables) \in Nat /\ DOMAIN root.tables = 1..Len(root.tables)
      /\ \A t \in DOMAIN root.tables : root.tables[t] \in TableRecord
  BY <1>3, LenProperties, ElementOfSeq
<1>5. Count = Len(root.tables)
  <2> DEFINE n == Len(root.tables)
  <2>1. n \in Nat /\ entry_size \in {4, 8} /\ Count = ((36 + entry_size * n) - 36) \div entry_size
    BY <1>4 DEF InRoot, Count, SdtHeader
  <2> HIDE DEF n
  <2>2. ((36 + 4 * n) - 36) \div 4 = n /\ ((36 + 8 * n) - 36) \div 8 = n
    BY <2>1
  <2>3. Count = n
    BY <2>1, <2>2
  <2> QED BY <2>3 DEF n
<1>6. ASSUME NEW t \in DOMAIN root.tables, NEW u \in DOMAIN root.tables,
             Signature(t) = "APIC", Signature(u) = "APIC"
      PROVE  t = u
  BY <1>1, <1>6 DEF Signature, WellFormed
<1> QED BY <1>4, <1>5, <1>6

LEMMA MadtHere ==
  ASSUME WellFormed(image), InRoot, madt_table # NULL PROVE madt_table \in DOMAIN root.tables
BY RootFacts DEF InRoot

LEMMA MadtFacts ==
  ASSUME WellFormed(image), InRoot, NEW t \in DOMAIN root.tables
  PROVE  /\ Entries(t) \in Seq(EntryRecord)
         /\ Len(Entries(t)) \in Nat
         /\ DOMAIN Entries(t) = 1..Len(Entries(t))
         /\ Sizes(EntrySizes(t))
         /\ Len(EntrySizes(t)) = Len(Entries(t))
         /\ \A k \in DOMAIN Entries(t) :
              EntrySizes(t)[k] = Entries(t)[k].length
<1> DEFINE E == Entries(t)
<1>1. root.tables[t] \in TableRecord
  BY RootFacts
<1>2. E \in Seq(EntryRecord)
  BY <1>1 DEF Entries, TableRecord
<1>3. EntrySizes(t) = [k \in DOMAIN E |-> E[k].length]
  BY DEF EntrySizes
<1> HIDE DEF E
<1>4. /\ Len(E) \in Nat /\ DOMAIN E = 1..Len(E)
      /\ \A k \in DOMAIN E : E[k] \in EntryRecord
  BY <1>2, LenProperties, ElementOfSeq
<1>5. EntrySizes(t) \in [1..Len(E) -> Nat \ {0}]
  BY <1>3, <1>4 DEF EntryRecord
<1>6. EntrySizes(t) \in Seq(Nat \ {0}) /\ Len(EntrySizes(t)) = Len(E)
  BY <1>4, <1>5, SeqDef, LenProperties
<1> QED BY <1>2, <1>3, <1>4, <1>6 DEF E, Sizes

(* The enabled CPUs before an entry.                                       *)
LEMMA EnabledFinite ==
  ASSUME WellFormed(image), InRoot, NEW t \in DOMAIN root.tables
  PROVE  /\ IsFiniteSet(EnabledIn(Entries(t)))
         /\ EnabledBefore(t, 1) = {}
         /\ EnabledBefore(t, Len(Entries(t)) + 1) = EnabledIn(Entries(t))
         /\ \A k \in 1..Len(Entries(t)) :
              /\ IsFiniteSet(EnabledBefore(t, k)) /\ k \notin EnabledBefore(t, k)
              /\ EnabledBefore(t, k + 1) =
                   IF Enabled(Entries(t)[k]) THEN EnabledBefore(t, k) \cup {k}
                   ELSE EnabledBefore(t, k)
<1> DEFINE E == Entries(t)
<1>1. Len(E) \in Nat /\ DOMAIN E = 1..Len(E)
  BY MadtFacts
<1> HIDE DEF E
<1>2. EnabledIn(E) \subseteq 1..Len(E) /\ IsFiniteSet(1..Len(E))
  BY <1>1, FS_Interval DEF EnabledIn
<1>3. IsFiniteSet(EnabledIn(E))
  BY <1>2, FS_Subset
<1>4. \A k : EnabledBefore(t, k) = {j \in EnabledIn(E) : j < k}
  BY DEF EnabledBefore, E
<1>5. EnabledBefore(t, 1) = {} /\ EnabledBefore(t, Len(E) + 1) = EnabledIn(E)
  <2>1. \A j \in EnabledIn(E) : ~(j < 1) /\ j < Len(E) + 1
    BY <1>1, <1>2
  <2> QED BY <1>4, <2>1
<1>6. ASSUME NEW k \in 1..Len(E)
      PROVE  /\ IsFiniteSet(EnabledBefore(t, k)) /\ k \notin EnabledBefore(t, k)
             /\ EnabledBefore(t, k + 1) =
                  IF Enabled(E[k]) THEN EnabledBefore(t, k) \cup {k} ELSE EnabledBefore(t, k)
  <2>1. EnabledBefore(t, k) \subseteq EnabledIn(E)
    BY <1>4
  <2>2. IsFiniteSet(EnabledBefore(t, k))
    BY <1>3, <2>1, FS_Subset
  <2>3. k \in EnabledIn(E) <=> Enabled(E[k])
    BY <1>1 DEF EnabledIn
  <2>4. EnabledBefore(t, k + 1) = EnabledBefore(t, k) \cup (IF k \in EnabledIn(E) THEN {k} ELSE {})
    BY <1>1, <1>2, <1>4
  <2>5. k \notin EnabledBefore(t, k)
    BY <1>4
  <2> QED BY <2>2, <2>3, <2>4, <2>5
<1> QED BY <1>3, <1>5, <1>6 DEF E

LEMMA WalkTable == ASSUME AllWellFormed, WalkInv, acpi_parse_tables PROVE WalkInv'
<1>1. /\ image \in Images /\ WellFormed(image) /\ RsdpFound /\ InRoot /\ AllCounted
      /\ pc = "acpi_parse_tables" /\ i < Count /\ i' = i + 1
      /\ UNCHANGED <<image, rsdp, root, entry_size, cpu_count>>
  BY DEF WalkInv, AllWellFormed, acpi_parse_tables
<1>2. RsdpFound' /\ Tags' = Tags
  BY <1>1, TagsKept DEF RsdpFound
<1>3. /\ Len(root.tables) \in Nat /\ Count = Len(root.tables)
      /\ DOMAIN root.tables = 1..Len(root.tables)
      /\ \A t, u \in DOMAIN root.tables :
           Signature(t) = "APIC" /\ Signature(u) = "APIC" => t = u
  BY <1>1, RootFacts
<1>4. i \in Nat /\ i + 1 \in 1..Len(root.tables) /\ (i + 1) # NULL
  BY <1>1, <1>3 DEF InRoot, NULL
<1>5. \A t : Signature(t)' = Signature(t) /\ Entries(t)' = Entries(t)
  BY <1>1 DEF Signature, Entries
<1>6. /\ root' \in {image'.roots[r] : r \in DOMAIN image'.roots} /\ entry_size' \in {4, 8}
      /\ root'.length = SdtHeader + entry_size' * Len(root'.tables)
      /\ i' \in 0..Len(root'.tables)
  BY <1>1, <1>4 DEF InRoot
<1>7. CASE Signature(i + 1) = "APIC"
  <2>1. madt_table' = i + 1 /\ ptr' = 0 /\ pc' = "madt_parse" /\ hpet_table' = hpet_table
    BY <1>7 DEF acpi_parse_tables
  <2>2. madt_table = NULL /\ cpu_count = 0
    <3>1. ~(madt_table \in 1..i /\ Signature(madt_table) = "APIC")
      BY <1>3, <1>4, <1>7
    <3> QED BY <1>1, <3>1 DEF InRoot
  <2>3. InRoot'
    BY <1>1, <1>4, <1>5, <1>6, <1>7, <2>1 DEF InRoot
  <2>4. madt_table' # NULL /\ i + 1 \in DOMAIN root.tables
    BY <1>3, <1>4, <2>1
  <2>a. Len(Entries(i + 1)) \in Nat /\ Sizes(EntrySizes(i + 1)) /\ EnabledBefore(i + 1, 1) = {}
    BY <1>1, <2>4, MadtFacts, EnabledFinite
  <2>b. /\ Entries(madt_table)' = Entries(i + 1) /\ EntrySizes(madt_table)' = EntrySizes(i + 1)
        /\ EnabledBefore(madt_table, 1)' = EnabledBefore(i + 1, 1)
    BY <1>1, <2>1 DEF Entries, EntrySizes, EnabledBefore
  <2>5. /\ Len(Entries(madt_table)') \in Nat /\ Sizes(EntrySizes(madt_table)')
        /\ EnabledBefore(madt_table, 1)' = {}
    BY <2>a, <2>b
  <2>6. ptr' = Offset(EntrySizes(madt_table)', 1)
    BY <2>1, <2>5, OffsetIs
  <2>7. cpu_count' = Cardinality(EnabledBefore(madt_table, 1)')
    BY <1>1, <2>2, <2>5, FS_EmptySet
  <2>8. OnEntry'
    BY <1>1, <2>1, <2>4, <2>5, <2>6, <2>7 DEF OnEntry
  <2> QED BY <1>1, <1>2, <2>1, <2>3, <2>8 DEF WalkInv
<1>8. CASE Signature(i + 1) # "APIC"
  <2>1. /\ madt_table' = madt_table /\ pc' = pc
        /\ hpet_table' = i + 1 \/ hpet_table' = hpet_table
    BY <1>8 DEF acpi_parse_tables
  <2>2. hpet_table' \in 0..i'
    BY <1>1, <1>4, <2>1 DEF InRoot
  <2>3. \/ madt_table \in 1..(i + 1) /\ Signature(madt_table) = "APIC"
        \/ madt_table = NULL /\ cpu_count = 0 /\ \A t \in 1..(i + 1) : Signature(t) # "APIC"
    BY <1>1, <1>4, <1>8 DEF InRoot
  <2>4. InRoot'
    BY <1>1, <1>5, <1>6, <2>1, <2>2, <2>3 DEF InRoot
  <2>5. AllCounted'
    BY <1>1, <1>5, <2>1 DEF AllCounted
  <2> QED BY <1>1, <1>2, <2>1, <2>4, <2>5 DEF WalkInv
<1> QED BY <1>7, <1>8

LEMMA WalkTablesDone == ASSUME AllWellFormed, WalkInv, TablesDone PROVE WalkInv'
<1>1. /\ image \in Images /\ WellFormed(image) /\ RsdpFound /\ InRoot /\ AllCounted
      /\ i >= Count /\ pc' = "lapic_init"
      /\ UNCHANGED <<image, ptr, rsdp, root, entry_size, i, madt_table, hpet_table, cpu_count>>
  BY DEF WalkInv, AllWellFormed, TablesDone
<1>2. RsdpFound' /\ Tags' = Tags
  BY <1>1, TagsKept DEF RsdpFound
<1>3. InRoot' /\ AllCounted'
  BY <1>1 DEF InRoot, AllCounted, Signature, Entries
<1>4. /\ Len(root.tables) \in Nat /\ Count = Len(root.tables)
      /\ DOMAIN root.tables = 1..Len(root.tables)
  BY <1>1, RootFacts
<1>5. i = Len(root.tables)
  BY <1>1, <1>4 DEF InRoot
<1>6. PICK r \in DOMAIN image.roots : root = image.roots[r]
  BY <1>1 DEF InRoot
<1>7. PICK t \in DOMAIN root.tables : root.tables[t].signature = "APIC"
  BY <1>1, <1>6, FirmwareAssumption
<1>8. madt_table # NULL
  BY <1>1, <1>4, <1>5, <1>7 DEF InRoot, Signature, NULL
<1>9. AllLooked'
  BY <1>1, <1>5, <1>8 DEF AllLooked
<1> QED BY <1>1, <1>2, <1>3, <1>9 DEF WalkInv

LEMMA WalkEntry == ASSUME AllWellFormed, WalkInv, madt_parse PROVE WalkInv'
<1> DEFINE E == Entries(madt_table)  s == EntrySizes(madt_table)
<1>1. /\ image \in Images /\ WellFormed(image) /\ RsdpFound /\ InRoot /\ OnEntry
      /\ pc = "madt_parse"
      /\ UNCHANGED <<image, rsdp, root, entry_size, i, madt_table, hpet_table>>
  BY DEF WalkInv, AllWellFormed, madt_parse
<1>2. RsdpFound' /\ Tags' = Tags
  BY <1>1, TagsKept DEF RsdpFound
<1>3. madt_table # NULL /\ madt_table = i /\ madt_table \in DOMAIN root.tables
  BY <1>1, MadtHere DEF OnEntry
<1>4. /\ Len(E) \in Nat /\ DOMAIN E = 1..Len(E) /\ Sizes(s) /\ Len(s) = Len(E)
      /\ \A k \in DOMAIN E : s[k] = E[k].length
  BY <1>1, <1>3, MadtFacts
<1>5. PICK k \in 1..(Len(E) + 1) : ptr = Offset(s, k) /\ cpu_count = Cardinality(EnabledBefore(madt_table, k))
  BY <1>1 DEF OnEntry
<1>6. /\ E' = E /\ s' = s /\ \A j : EnabledBefore(madt_table, j)' = EnabledBefore(madt_table, j)
      /\ \A t : Signature(t)' = Signature(t)
  BY <1>1 DEF Entries, EntrySizes, EnabledBefore, Signature
<1>7. MadtEnd = Offset(s, Len(E) + 1)
  BY DEF MadtEnd
<1>8. InRoot'
  <2>1. madt_table' \in 1..i' /\ Signature(madt_table)' = "APIC"
    BY <1>1, <1>3, <1>6 DEF InRoot
  <2> QED BY <1>1, <2>1 DEF InRoot
<1>9. CASE k = Len(E) + 1
  <2>1. ~(ptr < MadtEnd)
    BY <1>4, <1>5, <1>7, <1>9, OffsetNat
  <2>2. pc' = "acpi_parse_tables" /\ cpu_count' = cpu_count
    BY <2>1 DEF madt_parse
  <2>3. EnabledBefore(madt_table, Len(E) + 1) = EnabledIn(E)
    BY <1>1, <1>3, EnabledFinite
  <2>4. AllCounted'
    BY <1>5, <1>6, <1>9, <2>2, <2>3 DEF AllCounted
  <2> QED BY <1>1, <1>2, <1>8, <2>2, <2>4 DEF WalkInv
<1>10. CASE k # Len(E) + 1
  <2>1. k \in 1..Len(E) /\ k + 1 \in 1..(Len(E) + 1) /\ k < Len(E) + 1 /\ k \in 1..(Len(s) + 1)
        /\ Len(E) + 1 \in 1..(Len(s) + 1)
    BY <1>4, <1>10
  <2>2. ptr < MadtEnd
    BY <1>4, <1>5, <1>7, <2>1, OffsetGrows
  <2>3. EntriesAt(madt_table, ptr) = {k}
    <3>1. \A j \in DOMAIN E : Offset(s, j) = ptr => j = k
      <4> TAKE j \in DOMAIN E
      <4>1. j \in 1..(Len(s) + 1)
        BY <1>4
      <4> QED BY <1>4, <1>5, <2>1, <4>1, OffsetOne
    <3> QED BY <1>4, <1>5, <2>1, <3>1 DEF EntriesAt
  <2>4. Entry = E[k]
    BY <2>3 DEF Entry, The
  <2>5. /\ cpu_count' = cpu_count + (IF Enabled(E[k]) THEN 1 ELSE 0)
        /\ ptr' = ptr + E[k].length /\ pc' = "madt_parse"
    BY <1>1, <2>2, <2>4 DEF madt_parse
  <2>6. ptr' = Offset(s, k + 1)
    BY <1>4, <1>5, <2>1, <2>5, OffsetIs
  <2>7. /\ IsFiniteSet(EnabledBefore(madt_table, k)) /\ k \notin EnabledBefore(madt_table, k)
        /\ EnabledBefore(madt_table, k + 1) =
             IF Enabled(E[k]) THEN EnabledBefore(madt_table, k) \cup {k} ELSE EnabledBefore(madt_table, k)
    BY <1>1, <1>3, <2>1, EnabledFinite
  <2>8. cpu_count' = Cardinality(EnabledBefore(madt_table, k + 1))
    <3>1. Cardinality(EnabledBefore(madt_table, k)) \in Nat
      BY <2>7, FS_CardinalityType
    <3>2. Cardinality(EnabledBefore(madt_table, k) \cup {k}) = Cardinality(EnabledBefore(madt_table, k)) + 1
      BY <2>7, FS_AddElement
    <3> QED BY <1>5, <2>5, <2>7, <3>1, <3>2
  <2> HIDE DEF E, s
  <2>9. \E j \in 1..(Len(E') + 1) :
          ptr' = Offset(s', j) /\ cpu_count' = Cardinality(EnabledBefore(madt_table, j)')
    BY <1>6, <2>1, <2>6, <2>8
  <2>10. OnEntry'
    BY <1>1, <1>3, <2>9 DEF OnEntry, E, s
  <2> QED BY <1>1, <1>2, <1>8, <2>5, <2>10 DEF WalkInv
<1> QED BY <1>9, <1>10

(* lapic_init and hpet_init read what has been found, as do the steps that *)
(* are none of the walks.                                                  *)
LEMMA WalkAfter ==
  ASSUME WalkInv, lapic_init \/ hpet_init \/ UNCHANGED vars PROVE WalkInv'
<1>1. /\ UNCHANGED <<image, ptr, rsdp, root, entry_size, i, madt_table, hpet_table, cpu_count>>
      /\ \/ pc' = pc
         \/ pc = "lapic_init" /\ pc' = "hpet_init"
         \/ pc = "hpet_init" /\ pc' \in {"panic", "booted"}
  BY DEF lapic_init, hpet_init, vars
<1>2. /\ Tags' = Tags /\ TagSizes' = TagSizes /\ \A t : Of(t)' = Of(t)
  BY <1>1, TagsKept
<1>3. /\ RsdpFound' <=> RsdpFound
      /\ \A k : RsdpBefore(k)' <=> RsdpBefore(k)
  BY <1>1, <1>2 DEF RsdpFound, RsdpBefore
<1>4. (InRoot' <=> InRoot) /\ (NoRoot' <=> NoRoot) /\ (OnEntry' <=> OnEntry)
      /\ (AllCounted' <=> AllCounted) /\ (AllLooked' <=> AllLooked)
  BY <1>1 DEF InRoot, NoRoot, OnEntry, AllCounted, AllLooked, Signature, Entries, EntrySizes,
              EnabledBefore
<1>5. pc' = pc => (OnTag' <=> OnTag)
  BY <1>1, <1>2, <1>3 DEF OnTag
<1> QED BY <1>1, <1>3, <1>4, <1>5 DEF WalkInv

LEMMA WalkStep == ASSUME AllWellFormed, WalkInv, FirmwareStep \/ UNCHANGED vars PROVE WalkInv'
BY WalkTag, WalkRsdp, WalkRoot, WalkTable, WalkEntry, WalkTablesDone, WalkAfter DEF FirmwareStep

(* Every step of the boot is a step of one walk or leaves them alone.      *)
LEMMA BootWalks == ASSUME [BootNext]_bootVars PROVE FirmwareStep \/ UNCHANGED vars
<1>1. CASE Setup
  BY <1>1 DEF Setup, start, serial_init, idt_init, paging_init, MapRegion, kalloc_init,
    CheckMagic, ParseTag, console_init, pic_disable, ParseAcpi, LapicMap, LapicSet, HpetMap,
    HpetSet, scheduler_init, x86_enable_interrupts, kernel_main_tasks, cpu_enter_worker,
    FirmwareStep
<1>2. CASE smp_init \/ HpetWake \/ HpetTick \/ Ap
  BY <1>2 DEF smp_init, SmpInitIpi, SmpSipi, SmpWait, SmpDone, HpetWake, HpetTick, Ap, ap_main,
    ApWorker
<1>3. CASE UNCHANGED bootVars
  BY <1>3 DEF bootVars
<1> QED BY <1>1, <1>2, <1>3 DEF BootNext, Bsp

(* The walks stay on entries, for every well-formed machine.               *)
THEOREM WalkInvariance == ASSUME AllWellFormed PROVE BootSpec => []WalkInv
<1>1. BootInit => WalkInv
  BY WalkInit DEF BootInit
<1>2. WalkInv /\ [BootNext]_bootVars => WalkInv'
  BY BootWalks, WalkStep
<1> QED BY <1>1, <1>2, PTL DEF BootSpec

(* mb2_parse, get_acpi_rsdp, acpi_parse_tables and madt_parse never step   *)
(* into the middle of an entry or past the last one, whatever lengths the  *)
(* entries have.                                                           *)
THEOREM WalkOnEntriesHolds == ASSUME AllWellFormed PROVE BootSpec => []WalkOnEntries
<1>1. ASSUME WalkInv PROVE WalkOnEntries
  <2>1. WellFormed(image)
    BY <1>1 DEF WalkInv, AllWellFormed
  <2>2. i \in 0..Len(root.tables)
    <3>1. CASE NoRoot
      BY <3>1 DEF NoRoot
    <3>2. CASE InRoot
      BY <3>2 DEF InRoot
    <3> QED BY <1>1, <3>1, <3>2 DEF WalkInv
  <2>3. pc \in {"mb2_parse", "get_acpi_rsdp"} => TagsAt(ptr) # {}
    BY <1>1, <2>1, TagHere DEF WalkInv, OnTag
  <2>4. ASSUME pc = "madt_parse" PROVE ptr = MadtEnd \/ EntriesAt(madt_table, ptr) # {}
    <3>1. InRoot /\ madt_table \in DOMAIN root.tables
      BY <1>1, <2>1, <2>4, MadtHere DEF WalkInv, OnEntry
    <3>2. Len(Entries(madt_table)) \in Nat
          /\ DOMAIN Entries(madt_table) = 1..Len(Entries(madt_table))
      BY <2>1, <3>1, MadtFacts
    <3>3. PICK k \in 1..(Len(Entries(madt_table)) + 1) : ptr = Offset(EntrySizes(madt_table), k)
      BY <1>1, <2>4 DEF WalkInv, OnEntry
    <3>4. k = Len(Entries(madt_table)) + 1 \/ k \in DOMAIN Entries(madt_table)
      BY <3>2
    <3> QED BY <3>3, <3>4 DEF MadtEnd, EntriesAt
  <2> QED BY <2>2, <2>3, <2>4 DEF WalkOnEntries
<1> QED BY <1>1, WalkInvariance, PTL

(* get_acpi_rsdp returns an RSDP of version 2 if there is one, wherever it *)
(* stands, else one of version 1 if there is one.                          *)
THEOREM BestRsdpHolds == ASSUME AllWellFormed PROVE BootSpec => []BestRsdp
<1>1. WalkInv => BestRsdp
  BY DEF WalkInv, BestRsdp, RsdpFound, Of
<1> QED BY <1>1, WalkInvariance, PTL

-----------------------------------------------------------------------------
(* The CPUs that smp_init addresses.                                       *)
AllNumbered == \A m \in Images : Numbered(m)

(* Uids that are distinct and below their number are all numbers below it. *)
LEMMA UidsOnto ==
  ASSUME WellFormed(image), Numbered(image), InRoot, NEW t \in DOMAIN root.tables
  PROVE  LET S == EnabledIn(Entries(t))
         IN  /\ \A c \in 0..(Cardinality(S) - 1) : \E k \in S : Entries(t)[k].uid = c
             /\ \A k \in S : Entries(t)[k].uid \in 0..(Cardinality(S) - 1)
             /\ \A j, k \in S : Entries(t)[j].uid = Entries(t)[k].uid => j = k
<1> DEFINE E == Entries(t)  S == EnabledIn(E)  n == Cardinality(S)  N == 0..(n - 1)
           f == [k \in S |-> E[k].uid]
<1>1. PICK r \in DOMAIN image.roots : root = image.roots[r]
  BY DEF InRoot
<1>2. /\ \A k \in S : E[k].uid < n
      /\ \A j, k \in S : E[j].uid = E[k].uid => j = k
  BY <1>1 DEF Numbered, Entries
<1>3. /\ E \in Seq(EntryRecord) /\ IsFiniteSet(S) /\ S \subseteq DOMAIN E
  BY MadtFacts, EnabledFinite DEF EnabledIn
<1>4. n \in Nat
  BY <1>3, FS_CardinalityType
<1>5. \A k \in S : E[k].uid \in Nat
  <2>1. \A k \in DOMAIN E : E[k] \in EntryRecord
    BY <1>3, LenProperties, ElementOfSeq
  <2> QED BY <1>3, <2>1 DEF EntryRecord
<1> HIDE DEF E, S, n
<1>6. \A k \in S : E[k].uid \in N
  BY <1>2, <1>4, <1>5
<1>7. f \in Injection(S, N)
  BY <1>2, <1>6 DEF Injection, IsInjective
<1>8. IsFiniteSet(N) /\ Cardinality(N) = n
  <2>1. IsFiniteSet(0..(n - 1)) /\ Cardinality(0..(n - 1)) = IF 0 > n - 1 THEN 0 ELSE (n - 1) - 0 + 1
    BY <1>4, FS_Interval
  <2> QED BY <1>4, <2>1
<1>9. f \in Surjection(S, N)
  BY <1>7, <1>8, FS_Injection DEF n
<1>10. \A c \in N : \E k \in S : E[k].uid = c
  BY <1>9 DEF Surjection
<1> QED BY <1>2, <1>6, <1>10 DEF E, S, n

LEMMA LapicIds ==
  ASSUME WellFormed(image), Numbered(image), InRoot, madt_table \in DOMAIN root.tables,
         NEW k \in EnabledIn(Entries(madt_table))
  PROVE  madt_get_lapic_id(Entries(madt_table)[k].uid) = Entries(madt_table)[k].apic_id
<1> DEFINE E == Entries(madt_table)
           S == {j \in DOMAIN E : Enabled(E[j]) /\ E[j].uid = E[k].uid}
<1>1. \A j \in EnabledIn(E) : E[j].uid = E[k].uid => j = k
  BY UidsOnto
<1>2. S = {k}
  BY <1>1 DEF EnabledIn
<1>3. madt_get_lapic_id(E[k].uid) = IF S = {} THEN NotFound ELSE FirstMatch(S).apic_id
  BY DEF madt_get_lapic_id, Matches
<1>4. k \in Nat
  <2>1. DOMAIN E = 1..Len(E) /\ Len(E) \in Nat
    BY MadtFacts
  <2> QED BY <2>1 DEF EnabledIn
<1> HIDE DEF E, S
<1>5. (CHOOSE x \in {k} : \A y \in {k} : x <= y) = k
  BY <1>4
<1>6. FirstMatch({k}) = E[k]
  BY <1>5 DEF FirstMatch, E
<1> QED BY <1>2, <1>3, <1>6 DEF E

(* Once the tables are read, the loop of smp_init over 0 .. cpu_count - 1  *)
(* addresses every enabled CPU but the one it runs on, and nobody else, if *)
(* the uids of the enabled CPUs have no gap, in whatever order and         *)
(* between whatever other entries they stand.                              *)
THEOREM SmpReachesAllHolds ==
  ASSUME AllWellFormed, AllNumbered PROVE BootSpec => []SmpReachesAll
<1>1. ASSUME WalkInv, pc = "booted", NEW bsp \in EnabledIds
      PROVE  SmpTargets(bsp) = EnabledIds \ {bsp}
  <2> DEFINE E == Entries(madt_table)  S == EnabledIn(E)
  <2>1. /\ WellFormed(image) /\ Numbered(image) /\ InRoot /\ madt_table # NULL
        /\ cpu_count = Cardinality(S)
    BY <1>1 DEF WalkInv, AllWellFormed, AllNumbered, AllLooked, AllCounted
  <2>2. madt_table \in DOMAIN root.tables
    BY <2>1, MadtHere
  <2>3. /\ \A c \in 0..(cpu_count - 1) : \E k \in S : E[k].uid = c
        /\ \A k \in S : E[k].uid \in 0..(cpu_count - 1)
    BY <2>1, <2>2, UidsOnto
  <2>4. \A k \in S : madt_get_lapic_id(E[k].uid) = E[k].apic_id
    BY <2>1, <2>2, LapicIds
  <2>5. EnabledIds = {E[k].apic_id : k \in S}
    BY DEF EnabledIds, Matches, EnabledIn, Enabled
  <2>6. {madt_get_lapic_id(c) : c \in 0..(cpu_count - 1)} = {E[k].apic_id : k \in S}
    <3> HIDE DEF E, S
    <3> QED BY <2>3, <2>4
  <2> QED BY <2>5, <2>6 DEF SmpTargets
<1>2. WalkInv => SmpReachesAll
  BY <1>1 DEF SmpReachesAll
<1> QED BY <1>2, WalkInvariance, PTL

-----------------------------------------------------------------------------
(* The inductive invariant of kernel_main: what the calls before the one   *)
(* that is next have left.  How far the walks and the page tables are.     *)
ModeInv ==
  /\ line \in 1..16
  /\ mode \in {"start", "M", "C", "L"} => line = 1
  /\ mode \in {"start", "M", "C", "L"} \/ (image.multiboot /\ image.cpuid /\ image.long_mode)
  /\ mode = "worker" => line = 16

PcInv ==
  /\ line <= 6 => pc = "mb2_parse"
  /\ line \in 7..8 => pc = "get_acpi_rsdp"
  /\ line = 9 => pc \in {"get_acpi_rsdp", "acpi_init", "acpi_parse_tables", "madt_parse", "panic"}
  /\ line = 10 => pc \in {"lapic_init", "hpet_init"}
  /\ line = 11 => pc \in {"hpet_init", "booted", "panic"}
  /\ line >= 12 => pc = "booted"

TablesInv ==
  /\ line <= 3 => ppc # "running"
  /\ line > 3 => cr3 # P!NULL

(* The parts without memory of their own.                                  *)
Uart(dlab, dll, dlm, ier, format) ==
  [dlab |-> dlab, dll |-> dll, dlm |-> dlm, ier |-> ier, format |-> format]
PartsInv ==
  /\ line = 1 => uart = Uart(FALSE, 12, 0, 1, 0)
  /\ line > 1 => SerialReady
  /\ line > 2 => {32, 255} \subseteq gates
  /\ console => line > 7
  /\ line > 8 => masked
  /\ line > 12 => idle

Needs(n) ==
  CASE n <= 4 -> 0
    [] n \in 5..7 -> ConsoleSize + (MaxCpus + NTasks) * TaskSize
    [] n \in 8..12 -> (MaxCpus + NTasks) * TaskSize
    [] n \in 13..15 -> NTasks * TaskSize
    [] n >= 16 -> 0
HeapInv == heap \in Nat /\ heap >= Needs(line)

(* The registers, which are mapped when the request for it is done.        *)
Block(d) == d[1]..(d[1] + d[2] - 1)
MappedAll(d) == \A a \in Block(d) : P!Translate(a) = a
Requested(d) == job # P!NoJob /\ job.request = d
RegistersInv ==
  /\ fb => MappedAll(image.fb) \/ (line = 6 /\ Requested(image.fb))
  /\ pc \in {"hpet_init", "booted"} =>
       /\ lapic_base \in LapicBases(image)
       /\ \/ MappedAll(<<lapic_base, Page>>)
          \/ line = 10 /\ Requested(<<lapic_base, Page>>)
  /\ pc = "booted" =>
       \/ MappedAll(<<image.hpet, Page>>)
       \/ line = 11 /\ Requested(<<image.hpet, Page>>)

(* The timer and the other CPUs.                                           *)
TimerInv ==
  line > 11 => hpet_period = image.period /\ hpet_freq = FsPerSec \div image.period

SmpInv ==
  line < 13 => /\ cpu = 0 /\ stage = "loop" /\ waits = 0
               /\ counter = 0 /\ sleep = Awake
               /\ \A id \in DOMAIN ap : ap[id] = "off"

ReadyInv ==
  /\ ModeInv /\ PcInv /\ TablesInv /\ PartsInv /\ HeapInv /\ RegistersInv
  /\ TimerInv /\ SmpInv
  /\ UsedWhenReady

(* How far smp_init has slept, if every sleep takes as long as it may: the *)
(* turns of its loop that are over, and the stages of this one.            *)
Turn == TicksFor(10, image) + (MaxWait + 2) * TicksFor(1, image)
SleptInTurn(s, w) ==
  CASE s = "loop" -> 0
    [] s = "sipi1" -> TicksFor(10, image)
    [] s = "sipi2" -> TicksFor(10, image) + TicksFor(1, image)
    [] s = "wait" -> TicksFor(10, image) + (2 + w) * TicksFor(1, image)
Slept == cpu * Turn + SleptInTurn(stage, waits)

SleepInv ==
  /\ sleep \in [us : {10 * UsPerMs, 1 * UsPerMs}, start : Nat, target : Nat,
                phase : {0, hpet_period - 1}]
  /\ stage # "loop" /\ sleep.target + Slack <= Slept
  /\ sleep.start <= counter
  /\ sleep.target = sleep.start + (sleep.us * hpet_freq) \div UsPerSec
ClockAt ==
  /\ cpu \in 0..cpu_count /\ (stage # "loop" => cpu < cpu_count)
  /\ stage \in {"loop", "sipi1", "sipi2", "wait"} /\ waits \in 0..MaxWait
  /\ counter \in Nat /\ counter <= Slept
  /\ Sleeping => SleepInv
ClockInv == line > 12 => ClockAt

-----------------------------------------------------------------------------
(* The order of the calls.                                                 *)
LEMMA LineOf ==
  ASSUME NEW n \in 1..16
  PROVE  /\ kernel_main[n] = "serial_init" => n = 1
         /\ kernel_main[n] = "idt_init" => n = 2
         /\ kernel_main[n] = "paging_init" => n = 3
         /\ kernel_main[n] = "kalloc_init" => n = 4
         /\ kernel_main[n] = "magic" => n = 5
         /\ kernel_main[n] = "mb2_parse" => n = 6
         /\ kernel_main[n] = "console_init" => n = 7
         /\ kernel_main[n] = "pic_disable" => n = 8
         /\ kernel_main[n] = "acpi_init" => n = 9
         /\ kernel_main[n] = "lapic_init" => n = 10
         /\ kernel_main[n] = "hpet_init" => n = 11
         /\ kernel_main[n] = "scheduler_init" => n = 12
         /\ kernel_main[n] = "smp_init" => n = 13
         /\ kernel_main[n] = "sti" => n = 14
         /\ kernel_main[n] = "task_create" => n = 15
         /\ kernel_main[n] = "cpu_enter_worker" => n = 16
BY DEF kernel_main

LEMMA AtLine ==
  ASSUME ModeInv, NEW call, At(call)
  PROVE  mode = "kernel_main" /\ line \in 1..16 /\ kernel_main[line] = call
BY DEF ModeInv, At

(* Where each step is.                                                     *)
LEMMA Where ==
  ASSUME ModeInv
  PROVE  /\ serial_init => mode = "kernel_main" /\ line = 1
         /\ idt_init => mode = "kernel_main" /\ line = 2
         /\ paging_init => mode = "kernel_main" /\ line = 3
         /\ kalloc_init => mode = "kernel_main" /\ line = 4
         /\ CheckMagic => mode = "kernel_main" /\ line = 5
         /\ ParseTag => mode = "kernel_main" /\ line = 6
         /\ console_init => mode = "kernel_main" /\ line = 7
         /\ pic_disable => mode = "kernel_main" /\ line = 8
         /\ ParseAcpi => mode = "kernel_main" /\ line = 9
         /\ LapicMap => mode = "kernel_main" /\ line = 10
         /\ LapicSet => mode = "kernel_main" /\ line = 10
         /\ HpetMap => mode = "kernel_main" /\ line = 11
         /\ HpetSet => mode = "kernel_main" /\ line = 11
         /\ scheduler_init => mode = "kernel_main" /\ line = 12
         /\ x86_enable_interrupts => mode = "kernel_main" /\ line = 14
         /\ kernel_main_tasks => mode = "kernel_main" /\ line = 15
         /\ cpu_enter_worker => mode = "kernel_main" /\ line = 16
         /\ smp_init => mode = "kernel_main" /\ line = 13
<1>1. ASSUME serial_init PROVE mode = "kernel_main" /\ line = 1
  BY <1>1, AtLine, LineOf DEF serial_init
<1>2. ASSUME idt_init PROVE mode = "kernel_main" /\ line = 2
  BY <1>2, AtLine, LineOf DEF idt_init
<1>3. ASSUME paging_init PROVE mode = "kernel_main" /\ line = 3
  BY <1>3, AtLine, LineOf DEF paging_init
<1>4. ASSUME kalloc_init PROVE mode = "kernel_main" /\ line = 4
  BY <1>4, AtLine, LineOf DEF kalloc_init
<1>5. ASSUME CheckMagic PROVE mode = "kernel_main" /\ line = 5
  BY <1>5, AtLine, LineOf DEF CheckMagic
<1>6. ASSUME ParseTag PROVE mode = "kernel_main" /\ line = 6
  BY <1>6, AtLine, LineOf DEF ParseTag
<1>7. ASSUME console_init PROVE mode = "kernel_main" /\ line = 7
  BY <1>7, AtLine, LineOf DEF console_init
<1>8. ASSUME pic_disable PROVE mode = "kernel_main" /\ line = 8
  BY <1>8, AtLine, LineOf DEF pic_disable
<1>9. ASSUME ParseAcpi PROVE mode = "kernel_main" /\ line = 9
  BY <1>9, AtLine, LineOf DEF ParseAcpi
<1>10. ASSUME LapicMap PROVE mode = "kernel_main" /\ line = 10
  BY <1>10, AtLine, LineOf DEF LapicMap
<1>11. ASSUME LapicSet PROVE mode = "kernel_main" /\ line = 10
  BY <1>11, AtLine, LineOf DEF LapicSet
<1>12. ASSUME HpetMap PROVE mode = "kernel_main" /\ line = 11
  BY <1>12, AtLine, LineOf DEF HpetMap
<1>13. ASSUME HpetSet PROVE mode = "kernel_main" /\ line = 11
  BY <1>13, AtLine, LineOf DEF HpetSet
<1>14. ASSUME scheduler_init PROVE mode = "kernel_main" /\ line = 12
  BY <1>14, AtLine, LineOf DEF scheduler_init
<1>15. ASSUME x86_enable_interrupts PROVE mode = "kernel_main" /\ line = 14
  BY <1>15, AtLine, LineOf DEF x86_enable_interrupts
<1>16. ASSUME kernel_main_tasks PROVE mode = "kernel_main" /\ line = 15
  BY <1>16, AtLine, LineOf DEF kernel_main_tasks
<1>17. ASSUME cpu_enter_worker PROVE mode = "kernel_main" /\ line = 16
  BY <1>17, AtLine, LineOf DEF cpu_enter_worker
<1>18. ASSUME smp_init PROVE mode = "kernel_main" /\ line = 13
  BY <1>18, AtLine, LineOf DEF smp_init, SmpInitIpi, SmpSipi, SmpWait, SmpDone, AtSmp
<1> QED BY <1>1, <1>2, <1>3, <1>4, <1>5, <1>6, <1>7, <1>8, <1>9, <1>10, <1>11, <1>12, <1>13, <1>14, <1>15, <1>16, <1>17, <1>18

(* Which step goes on to the next line.                                    *)
LEMMA Advance ==
  ASSUME ModeInv, BootNext, line' # line
  PROVE  /\ line' = line + 1 /\ line \in 1..15 /\ mode = "kernel_main" /\ mode' = mode
         /\ line = 1 => serial_init
         /\ line = 2 => idt_init
         /\ line = 3 => paging_init /\ ppc' = "running"
         /\ line = 4 => kalloc_init
         /\ line = 5 => CheckMagic
         /\ line = 6 => ParseTag /\ pc' # "mb2_parse"
         /\ line = 7 => console_init
         /\ line = 8 => pic_disable
         /\ line = 9 => ParseAcpi /\ pc' = "lapic_init"
         /\ line = 10 => LapicSet
         /\ line = 11 => HpetSet
         /\ line = 12 => scheduler_init
         /\ line = 13 => SmpDone
         /\ line = 14 => x86_enable_interrupts
         /\ line = 15 => kernel_main_tasks
<1>1. CASE serial_init \/ idt_init \/ kalloc_init \/ console_init \/ pic_disable \/ LapicSet
           \/ HpetSet \/ scheduler_init \/ x86_enable_interrupts \/ kernel_main_tasks
  <2>1. line' = line + 1 /\ mode' = mode
    BY <1>1 DEF serial_init, idt_init, kalloc_init, console_init, pic_disable, LapicSet, HpetSet,
      scheduler_init, x86_enable_interrupts, kernel_main_tasks, Done
  <2> QED BY <1>1, <2>1, Where
<1>2. CASE paging_init
  <2>1. line' = line + 1 /\ mode' = mode /\ ppc' = "running"
    BY <1>2 DEF paging_init, PagingStops, Done, Stay
  <2> QED BY <1>2, <2>1, Where
<1>3. CASE CheckMagic
  <2>1. line' = line + 1 /\ mode' = mode
    BY <1>3 DEF CheckMagic, Done
  <2> QED BY <1>3, <2>1, Where
<1>4. CASE ParseTag
  <2>1. line' = line + 1 /\ mode' = mode /\ pc' # "mb2_parse"
    BY <1>4 DEF ParseTag, Done, Stay
  <2> QED BY <1>4, <2>1, Where
<1>5. CASE ParseAcpi
  <2>1. line' = line + 1 /\ mode' = mode /\ pc' = "lapic_init"
    BY <1>5 DEF ParseAcpi, Done, Stay
  <2> QED BY <1>5, <2>1, Where
<1>6. CASE start \/ MapRegion \/ LapicMap \/ HpetMap \/ cpu_enter_worker
  BY <1>6 DEF start, MapRegion, PagingStops, LapicMap, HpetMap, cpu_enter_worker, Stay
<1>7. CASE smp_init
  <2>1. SmpDone
    BY <1>7 DEF smp_init, SmpInitIpi, SmpSipi, SmpWait
  <2>2. line' = line + 1 /\ mode' = mode
    BY <2>1 DEF SmpDone, Done
  <2> QED BY <1>7, <2>1, <2>2, Where
<1>8. CASE HpetWake \/ HpetTick \/ Ap
  BY <1>8 DEF HpetWake, HpetTick, Ap, ap_main, ApWorker
<1> QED BY <1>1, <1>2, <1>3, <1>4, <1>5, <1>6, <1>7, <1>8 DEF BootNext, Bsp, Setup

(* Which step writes which variables.                                      *)
LEMMA Writes ==
  ASSUME BootNext
  PROVE  /\ uart' = uart \/ serial_init
         /\ gates' = gates \/ idt_init
         /\ masked' = masked \/ pic_disable
         /\ console' = console \/ console_init
         /\ idle' = idle \/ scheduler_init
         /\ heap' = heap \/ kalloc_init \/ console_init \/ scheduler_init \/ kernel_main_tasks
         /\ UNCHANGED <<hpet_period, hpet_freq>> \/ HpetSet
         /\ UNCHANGED <<counter, sleep>> \/ HpetSet \/ smp_init \/ HpetTick \/ HpetWake
         /\ UNCHANGED <<cpu, stage, waits>> \/ smp_init
         /\ ap' = ap \/ smp_init \/ Ap
         /\ \/ UNCHANGED pagingVars
            \/ paging_init \/ MapRegion \/ ParseTag \/ LapicMap \/ HpetMap
         /\ UNCHANGED vars \/ ParseTag \/ ParseAcpi \/ LapicMap \/ HpetMap
         /\ mode' = mode \/ start \/ (mode = "kernel_main" /\ mode' = "panic")
              \/ (cpu_enter_worker /\ mode' = "worker")
<1>1. CASE start \/ serial_init \/ idt_init \/ kalloc_init \/ CheckMagic \/ console_init
           \/ pic_disable \/ LapicSet \/ scheduler_init \/ x86_enable_interrupts
           \/ kernel_main_tasks \/ cpu_enter_worker
  BY <1>1 DEF start, serial_init, idt_init, kalloc_init, CheckMagic, console_init, pic_disable,
    LapicSet, scheduler_init, x86_enable_interrupts, kernel_main_tasks, cpu_enter_worker, At,
    Done, hpetVars, partVars, smpVars
<1>2. CASE HpetSet
  BY <1>2 DEF HpetSet, At, Done, hpetVars, partVars, smpVars
<1>3. CASE paging_init \/ MapRegion
  BY <1>3 DEF paging_init, MapRegion, PagingStops, At, Done, Stay, hpetVars, partVars, smpVars
<1>4. CASE ParseTag \/ ParseAcpi \/ LapicMap \/ HpetMap
  BY <1>4 DEF ParseTag, ParseAcpi, LapicMap, HpetMap, At, Done, Stay, hpetVars, partVars, smpVars
<1>5. CASE smp_init
  BY <1>5 DEF smp_init, SmpInitIpi, SmpSipi, SmpWait, SmpDone, Done, hpet_sleep_ms,
    hpet_sleep_us, partVars, hpetVars, smpVars
<1>6. CASE HpetWake \/ HpetTick \/ Ap
  BY <1>6 DEF HpetWake, HpetTick, Wake, Tick, Ap, ap_main, ApWorker, partVars, hpetVars, smpVars
<1> QED BY <1>1, <1>2, <1>3, <1>4, <1>5, <1>6 DEF BootNext, Bsp, Setup

LEMMA ImageKept == ASSUME BootNext PROVE image' = image
BY BootWalks DEF FirmwareStep, mb2_parse, get_acpi_rsdp, acpi_init, acpi_parse_tables,
  madt_parse, TablesDone, lapic_init, hpet_init, vars

LEMMA ModeStep == ASSUME ModeInv, BootNext PROVE ModeInv'
<1>1. line' = line \/ (line' = line + 1 /\ line \in 1..15 /\ mode = "kernel_main" /\ mode' = mode)
  BY Advance
<1>2. image' = image
  BY ImageKept
<1>3. CASE start
  BY <1>1, <1>2, <1>3 DEF start, ModeInv
<1>4. CASE mode' = mode
  BY <1>1, <1>2, <1>4 DEF ModeInv
<1>5. CASE mode = "kernel_main" /\ mode' = "panic"
  BY <1>1, <1>2, <1>5 DEF ModeInv
<1>6. CASE cpu_enter_worker /\ mode' = "worker"
  <2>1. line = 16 /\ mode = "kernel_main"
    BY <1>6, Where
  <2> QED BY <1>1, <1>2, <1>6, <2>1 DEF ModeInv
<1> QED BY <1>3, <1>4, <1>5, <1>6, Writes

LEMMA PcStep == ASSUME ModeInv, PcInv, BootNext PROVE PcInv'
<1>0. line \in 1..16
  BY DEF ModeInv
<1>1. CASE UNCHANGED vars
  <2>1. CASE line' = line
    BY <1>1, <2>1 DEF vars, PcInv
  <2>2. CASE line' # line
    <3>1. /\ line' = line + 1 /\ (line = 6 => ParseTag /\ pc' # "mb2_parse")
          /\ (line = 9 => pc' = "lapic_init") /\ (line = 10 => LapicSet) /\ (line = 11 => HpetSet)
      BY <2>2, Advance
    <3>2. line # 6 /\ line # 9
      BY <1>1, <3>1 DEF vars, PcInv
    <3>3. line = 10 => pc = "hpet_init"
      BY <3>1 DEF LapicSet, PcInv
    <3>4. line = 11 => pc = "booted"
      BY <3>1 DEF HpetSet
    <3> QED BY <1>0, <1>1, <3>1, <3>2, <3>3, <3>4 DEF vars, PcInv
  <2> QED BY <2>1, <2>2
<1>2. CASE ParseTag
  <2>1. line = 6 /\ pc' \in {"mb2_parse", "get_acpi_rsdp"}
    BY <1>2, Where DEF ParseTag, mb2_parse
  <2>2. line' = IF pc' = "mb2_parse" THEN 6 ELSE 7
    BY <1>2, <2>1 DEF ParseTag, Stay, Done
  <2> QED BY <2>1, <2>2 DEF PcInv
<1>3. CASE ParseAcpi
  <2>1. line = 9
    BY <1>3, Where
  <2>2. pc' \in {"get_acpi_rsdp", "acpi_init", "acpi_parse_tables", "madt_parse", "panic",
                 "lapic_init"}
    BY <1>3 DEF ParseAcpi, get_acpi_rsdp, acpi_init, acpi_parse_tables, madt_parse, TablesDone
  <2>3. line' = IF pc' = "lapic_init" THEN 10 ELSE 9
    BY <1>3, <2>1, <2>2 DEF ParseAcpi, Stay, Done
  <2> QED BY <2>2, <2>3 DEF PcInv
<1>4. CASE LapicMap
  <2>1. line = 10 /\ line' = line /\ pc' = "hpet_init"
    BY <1>4, Where DEF LapicMap, Stay, lapic_init
  <2> QED BY <2>1 DEF PcInv
<1>5. CASE HpetMap
  <2>1. line = 11 /\ line' = line /\ pc' \in {"panic", "booted"}
    BY <1>5, Where DEF HpetMap, Stay, hpet_init
  <2> QED BY <2>1 DEF PcInv
<1> QED BY <1>1, <1>2, <1>3, <1>4, <1>5, Writes

(* The writes of serial_init, one by one.                                  *)
Written(n) ==
  CASE n = 0 -> Uart(FALSE, 12, 0, 1, 0)
    [] n = 1 -> Uart(FALSE, 12, 0, 0, 0)
    [] n = 2 -> Uart(TRUE, 12, 0, 0, 0)
    [] n \in 3..4 -> Uart(TRUE, 3, 0, 0, 0)
    [] n \in 5..7 -> Uart(FALSE, 3, 0, 0, 3)

LEMMA SerialWrites ==
  /\ Len(serial_init_writes) = 7
  /\ \A n \in 1..7 : x86_outb(Written(n - 1), serial_init_writes[n]) = Written(n)
<1>1. Len(serial_init_writes) = 7
  BY DEF serial_init_writes
<1>2. x86_outb(Written(0), serial_init_writes[1]) = Written(1)
  <2>1. serial_init_writes[1] = <<1, 0>> /\ Written(0) = Uart(FALSE, 12, 0, 1, 0) /\ Written(1) = Uart(FALSE, 12, 0, 0, 0)
    BY DEF serial_init_writes, Written
  <2>2. x86_outb(Uart(FALSE, 12, 0, 1, 0), <<1, 0>>) = [Uart(FALSE, 12, 0, 1, 0) EXCEPT !.ier = 0]
    <3>1. ~Uart(FALSE, 12, 0, 1, 0).dlab /\ <<1, 0>>[1] = 1 /\ <<1, 0>>[2] = 0
      BY DEF Uart
    <3> QED BY <3>1 DEF x86_outb
  <2>3. x86_outb(Uart(FALSE, 12, 0, 1, 0), <<1, 0>>) = Uart(FALSE, 12, 0, 0, 0)
    BY <2>2 DEF Uart
  <2> QED BY <2>1, <2>3
<1>3. x86_outb(Written(1), serial_init_writes[2]) = Written(2)
  <2>1. serial_init_writes[2] = <<3, 128>> /\ Written(1) = Uart(FALSE, 12, 0, 0, 0) /\ Written(2) = Uart(TRUE, 12, 0, 0, 0)
    BY DEF serial_init_writes, Written
  <2>2. (128 >= 128) = TRUE /\ 128 % 128 = 0
    OBVIOUS
  <2>3. x86_outb(Uart(FALSE, 12, 0, 0, 0), <<3, 128>>) = [Uart(FALSE, 12, 0, 0, 0) EXCEPT !.dlab = 128 >= 128, !.format = 128 % 128]
    BY DEF x86_outb
  <2>4. x86_outb(Uart(FALSE, 12, 0, 0, 0), <<3, 128>>) = Uart(TRUE, 12, 0, 0, 0)
    BY <2>2, <2>3 DEF Uart
  <2> QED BY <2>1, <2>4
<1>4. x86_outb(Written(2), serial_init_writes[3]) = Written(3)
  <2>1. serial_init_writes[3] = <<0, 3>> /\ Written(2) = Uart(TRUE, 12, 0, 0, 0) /\ Written(3) = Uart(TRUE, 3, 0, 0, 0)
    BY DEF serial_init_writes, Written
  <2>2. x86_outb(Uart(TRUE, 12, 0, 0, 0), <<0, 3>>) = [Uart(TRUE, 12, 0, 0, 0) EXCEPT !.dll = 3]
    <3>1. Uart(TRUE, 12, 0, 0, 0).dlab /\ <<0, 3>>[1] = 0 /\ <<0, 3>>[2] = 3
      BY DEF Uart
    <3> QED BY <3>1 DEF x86_outb
  <2>3. x86_outb(Uart(TRUE, 12, 0, 0, 0), <<0, 3>>) = Uart(TRUE, 3, 0, 0, 0)
    BY <2>2 DEF Uart
  <2> QED BY <2>1, <2>3
<1>5. x86_outb(Written(3), serial_init_writes[4]) = Written(4)
  <2>1. serial_init_writes[4] = <<1, 0>> /\ Written(3) = Uart(TRUE, 3, 0, 0, 0) /\ Written(4) = Uart(TRUE, 3, 0, 0, 0)
    BY DEF serial_init_writes, Written
  <2>2. x86_outb(Uart(TRUE, 3, 0, 0, 0), <<1, 0>>) = Uart(TRUE, 3, 0, 0, 0)
    BY DEF x86_outb, Uart
  <2> QED BY <2>1, <2>2
<1>6. x86_outb(Written(4), serial_init_writes[5]) = Written(5)
  <2>1. serial_init_writes[5] = <<3, 3>> /\ Written(4) = Uart(TRUE, 3, 0, 0, 0) /\ Written(5) = Uart(FALSE, 3, 0, 0, 3)
    BY DEF serial_init_writes, Written
  <2>2. (3 >= 128) = FALSE /\ 3 % 128 = 3
    OBVIOUS
  <2>3. x86_outb(Uart(TRUE, 3, 0, 0, 0), <<3, 3>>) = [Uart(TRUE, 3, 0, 0, 0) EXCEPT !.dlab = 3 >= 128, !.format = 3 % 128]
    BY DEF x86_outb
  <2>4. x86_outb(Uart(TRUE, 3, 0, 0, 0), <<3, 3>>) = Uart(FALSE, 3, 0, 0, 3)
    BY <2>2, <2>3 DEF Uart
  <2> QED BY <2>1, <2>4
<1>7. x86_outb(Written(5), serial_init_writes[6]) = Written(6)
  <2>1. serial_init_writes[6] = <<2, 199>> /\ Written(5) = Uart(FALSE, 3, 0, 0, 3) /\ Written(6) = Uart(FALSE, 3, 0, 0, 3)
    BY DEF serial_init_writes, Written
  <2>2. x86_outb(Uart(FALSE, 3, 0, 0, 3), <<2, 199>>) = Uart(FALSE, 3, 0, 0, 3)
    BY DEF x86_outb, Uart
  <2> QED BY <2>1, <2>2
<1>8. x86_outb(Written(6), serial_init_writes[7]) = Written(7)
  <2>1. serial_init_writes[7] = <<4, 11>> /\ Written(6) = Uart(FALSE, 3, 0, 0, 3) /\ Written(7) = Uart(FALSE, 3, 0, 0, 3)
    BY DEF serial_init_writes, Written
  <2>2. x86_outb(Uart(FALSE, 3, 0, 0, 3), <<4, 11>>) = Uart(FALSE, 3, 0, 0, 3)
    BY DEF x86_outb, Uart
  <2> QED BY <2>1, <2>2
<1>9. \A n \in 1..7 : n = 1 \/ n = 2 \/ n = 3 \/ n = 4 \/ n = 5 \/ n = 6 \/ n = 7
  OBVIOUS
<1> QED BY <1>1, <1>2, <1>3, <1>4, <1>5, <1>6, <1>7, <1>8, <1>9

LEMMA SerialSet ==
  ASSUME serial_init, uart = Uart(FALSE, 12, 0, 1, 0) PROVE SerialReady'
<1> DEFINE After(f) == f = [n \in 0..Len(serial_init_writes) |->
                             IF n = 0 THEN uart ELSE x86_outb(f[n - 1], serial_init_writes[n])]
           g == [n \in 0..7 |-> Written(n)]
           a == CHOOSE f : After(f)
<1>1. uart = Written(0)
  BY DEF Written
<1>2. \A n \in 0..7 : g[n] = IF n = 0 THEN uart ELSE x86_outb(g[n - 1], serial_init_writes[n])
  <2> TAKE n \in 0..7
  <2>1. CASE n = 0
    BY <1>1, <2>1
  <2>2. CASE n # 0
    <3>1. n \in 1..7 /\ n - 1 \in 0..7
      BY <2>2
    <3> QED BY <2>2, <3>1, SerialWrites
  <2> QED BY <2>1, <2>2
<1>3. After(g)
  <2> DEFINE h == [n \in 0..7 |->
                     IF n = 0 THEN uart ELSE x86_outb(g[n - 1], serial_init_writes[n])]
  <2>1. g = [n \in 0..7 |-> g[n]]
    OBVIOUS
  <2> HIDE DEF g
  <2>2. g = h
    BY <1>2, <2>1
  <2> QED BY <2>2, SerialWrites
<1>4. After(a)
  BY <1>3
<1>5. uart' = a[7]
  BY SerialWrites DEF serial_init
<1> HIDE DEF a
<1>6. \A n \in 0..7 : a[n] = IF n = 0 THEN uart ELSE x86_outb(a[n - 1], serial_init_writes[n])
  BY <1>4, SerialWrites
<1>7. a[0] = Written(0)
  BY <1>1, <1>6, 0 \in 0..7
<1>8. a[1] = Written(1)
  BY <1>6, <1>7, SerialWrites, 1 \in 1..7, 1 \in 0..7, 1 - 1 = 0
<1>9. a[2] = Written(2)
  BY <1>6, <1>8, SerialWrites, 2 \in 1..7, 2 \in 0..7, 2 - 1 = 1
<1>10. a[3] = Written(3)
  BY <1>6, <1>9, SerialWrites, 3 \in 1..7, 3 \in 0..7, 3 - 1 = 2
<1>11. a[4] = Written(4)
  BY <1>6, <1>10, SerialWrites, 4 \in 1..7, 4 \in 0..7, 4 - 1 = 3
<1>12. a[5] = Written(5)
  BY <1>6, <1>11, SerialWrites, 5 \in 1..7, 5 \in 0..7, 5 - 1 = 4
<1>13. a[6] = Written(6)
  BY <1>6, <1>12, SerialWrites, 6 \in 1..7, 6 \in 0..7, 6 - 1 = 5
<1>14. a[7] = Written(7)
  BY <1>6, <1>13, SerialWrites, 7 \in 1..7, 7 \in 0..7, 7 - 1 = 6
<1>15. Written(7) = Uart(FALSE, 3, 0, 0, 3)
  BY DEF Written
<1> QED BY <1>5, <1>14, <1>15 DEF SerialReady, Uart

LEMMA PartsStep == ASSUME ModeInv, PartsInv, BootNext PROVE PartsInv'
<1>0. line \in 1..16
  BY DEF ModeInv
<1>1. /\ (line = 1 => uart = Uart(FALSE, 12, 0, 1, 0)) /\ (line > 1 => SerialReady)
      /\ (line > 2 => {32, 255} \subseteq gates) /\ (console => line > 7)
      /\ (line > 8 => masked) /\ (line > 12 => idle)
  BY DEF PartsInv
<1>2. \/ line' = line
      \/ /\ line' = line + 1 /\ (line = 1 => serial_init) /\ (line = 2 => idt_init)
         /\ (line = 8 => pic_disable) /\ (line = 12 => scheduler_init)
  BY Advance
<1>3. serial_init => line = 1 /\ line' = 2 /\ SerialReady'
  BY <1>1, Where, SerialSet DEF serial_init, Done
<1>4. /\ line' = 1 => uart' = Uart(FALSE, 12, 0, 1, 0)
      /\ line' > 1 => SerialReady'
  <2>1. CASE serial_init
    BY <2>1, <1>3
  <2>2. CASE ~serial_init
    <3>1. uart' = uart /\ (SerialReady' <=> SerialReady)
      BY <2>2, Writes DEF SerialReady
    <3>2. CASE line' = line
      BY <3>1, <3>2, <1>1
    <3>3. CASE line' # line
      <4>1. line' = line + 1 /\ line # 1
        BY <2>2, <3>3, <1>2
      <4>2. line > 1 /\ line' # 1
        BY <4>1, <1>0
      <4>3. SerialReady'
        BY <4>2, <3>1, <1>1
      <4> QED BY <4>2, <4>3
    <3> QED BY <3>2, <3>3
  <2> QED BY <2>1, <2>2
<1>5. line' > 2 => {32, 255} \subseteq gates'
  <2>1. CASE idt_init
    BY <2>1 DEF idt_init
  <2>2. CASE ~idt_init
    <3>1. gates' = gates /\ (line' # line => line' = line + 1 /\ line # 2)
      BY <2>2, <1>2, Writes
    <3>2. line' > 2 => line > 2
      BY <3>1, <1>0
    <3> QED BY <3>1, <3>2, <1>1
  <2> QED BY <2>1, <2>2
<1>6. console' => line' > 7
  <2>1. console_init => line = 7 /\ line' = 8
    BY Where DEF console_init, Done
  <2>2. CASE console_init
    BY <2>1, <2>2
  <2>3. CASE console' = console
    <3>1. line > 7 => line' > 7
      BY <1>0, <1>2
    <3> QED BY <2>3, <3>1, <1>1
  <2> QED BY <2>2, <2>3, Writes
<1>7. line' > 8 => masked'
  <2>1. pic_disable => masked'
    BY DEF pic_disable
  <2> QED BY <2>1, <1>0, <1>1, <1>2, Writes
<1>8. line' > 12 => idle'
  <2>1. scheduler_init => idle'
    BY DEF scheduler_init
  <2> QED BY <2>1, <1>0, <1>1, <1>2, Writes
<1> QED BY <1>4, <1>5, <1>6, <1>7, <1>8 DEF PartsInv

LEMMA HeapStep == ASSUME HeapFits, ModeInv, HeapInv, BootNext PROVE HeapInv'
<1> DEFINE c == ConsoleSize  a == MaxCpus * TaskSize  b == NTasks * TaskSize
           ab == (MaxCpus + NTasks) * TaskSize
<1>1. c \in Nat /\ a \in Nat /\ b \in Nat /\ ab = a + b /\ HeapSize \in Nat /\ c + ab <= HeapSize
  BY BootAssumption DEF BootAssumption, HeapFits
<1>2. /\ \A n \in 1..4 : Needs(n) = 0
      /\ \A n \in 5..7 : Needs(n) = c + ab
      /\ \A n \in 8..12 : Needs(n) = ab
      /\ \A n \in 13..15 : Needs(n) = b
      /\ Needs(16) = 0
  BY DEF Needs
<1>3. line \in 1..16 /\ heap \in Nat /\ heap >= Needs(line)
  BY DEF ModeInv, HeapInv
<1>4. CASE kalloc_init
  <2>1. line = 4 /\ line' = 5 /\ heap' = HeapSize
    BY <1>4, Where DEF kalloc_init, Done
  <2> HIDE DEF c, a, b, ab
  <2> QED BY <1>1, <1>2, <2>1 DEF HeapInv
<1>5. CASE console_init
  <2>1. line = 7 /\ line' = 8 /\ (heap' = heap - c \/ heap' = heap - 0)
    BY <1>5, Where DEF console_init, Done
  <2> HIDE DEF c, a, b, ab
  <2> QED BY <1>1, <1>2, <1>3, <2>1 DEF HeapInv
<1>6. CASE scheduler_init
  <2>1. line = 12 /\ line' = 13 /\ heap' = heap - a
    BY <1>6, Where DEF scheduler_init, Done, CreateTasks
  <2> HIDE DEF c, a, b, ab
  <2> QED BY <1>1, <1>2, <1>3, <2>1 DEF HeapInv
<1>7. CASE kernel_main_tasks
  <2>1. line = 15 /\ line' = 16 /\ heap' = heap - b
    BY <1>7, Where DEF kernel_main_tasks, Done, CreateTasks
  <2> HIDE DEF c, a, b, ab
  <2> QED BY <1>1, <1>2, <1>3, <2>1 DEF HeapInv
<1>8. CASE heap' = heap /\ ~(kalloc_init \/ console_init \/ scheduler_init \/ kernel_main_tasks)
  <2>1. line' = line \/ (line' = line + 1 /\ line \notin {4, 7, 12, 15} /\ line \in 1..15)
    BY <1>8, Advance
  <2> HIDE DEF c, a, b, ab
  <2>2. Needs(line') = Needs(line)
    BY <1>2, <1>3, <2>1
  <2> QED BY <1>3, <1>8, <2>2 DEF HeapInv
<1> QED BY <1>4, <1>5, <1>6, <1>7, <1>8, Writes

LEMMA TimerStep == ASSUME ModeInv, TimerInv, BootNext PROVE TimerInv'
<1>1. line \in 1..16 /\ image' = image
  BY ImageKept DEF ModeInv
<1>2. CASE HpetSet
  BY <1>1, <1>2 DEF HpetSet, HpetStart, TimerInv
<1>3. CASE UNCHANGED <<hpet_period, hpet_freq>> /\ ~HpetSet
  <2>1. line' > 11 => line > 11
    BY <1>1, <1>3, Advance
  <2> QED BY <1>1, <1>3, <2>1 DEF TimerInv
<1> QED BY <1>2, <1>3, Writes

LEMMA SmpStep == ASSUME ModeInv, SmpInv, BootNext PROVE SmpInv'
<1>1. line \in 1..16 /\ (line' = line \/ line' = line + 1)
  BY Advance DEF ModeInv
<1>2. CASE line' < 13
  <2>1. /\ line < 13 /\ cpu = 0 /\ stage = "loop" /\ waits = 0 /\ counter = 0 /\ sleep = Awake
        /\ \A id \in DOMAIN ap : ap[id] = "off"
    BY <1>1, <1>2 DEF SmpInv
  <2>2. ~smp_init
    BY <2>1, Where
  <2>3. ~HpetTick /\ ~HpetWake
    BY <2>1 DEF HpetTick, Tick, HpetWake, Wake, Sleeping
  <2>4. ~Ap
    BY <2>1 DEF Ap, ap_main, ApWorker
  <2>5. HpetSet => counter' = 0 /\ sleep' = sleep
    BY DEF HpetSet, HpetStart
  <2> QED BY <2>1, <2>2, <2>3, <2>4, <2>5, Writes DEF SmpInv
<1> QED BY <1>1, <1>2 DEF SmpInv

-----------------------------------------------------------------------------
(* The clock while smp_init runs.                                          *)
LEMMA MulMono == ASSUME NEW a \in Nat, NEW b \in Nat, NEW c \in Nat, a <= b PROVE a * c <= b * c
OBVIOUS

LEMMA DivMod ==
  ASSUME NEW a \in Nat, NEW d \in Nat \ {0}
  PROVE  a \div d \in Nat /\ a % d \in 0..(d - 1) /\ a = (a \div d) * d + (a % d)
OBVIOUS

LEMMA CpuCount ==
  ASSUME AllWellFormed, WalkInv, pc = "booted", FewCpus(image) PROVE cpu_count \in 0..MaxCpus
<1>1. /\ WellFormed(image) /\ InRoot /\ madt_table # NULL
      /\ cpu_count = Cardinality(EnabledIn(Entries(madt_table)))
  BY DEF WalkInv, AllWellFormed, AllLooked, AllCounted
<1>2. madt_table \in DOMAIN root.tables
  BY <1>1, MadtHere
<1>3. PICK r \in DOMAIN image.roots : root = image.roots[r]
  BY <1>1 DEF InRoot
<1>4. cpu_count <= MaxCpus
  BY <1>1, <1>2, <1>3 DEF FewCpus, Entries
<1>5. cpu_count \in Nat
  BY <1>1, <1>2, EnabledFinite, FS_CardinalityType
<1> QED BY <1>4, <1>5, BootAssumption DEF BootAssumption

(* The lengths of the sleeps, and the time all of them take.               *)
LEMMA TickFacts ==
  ASSUME ClockFits(image)
  PROVE  /\ FsPerSec \div image.period \in Nat
         /\ TicksFor(1, image) \in Nat /\ TicksFor(10, image) \in Nat /\ Turn \in Nat
         /\ MaxCpus * Turn < CounterMod
<1> DEFINE f == FsPerSec \div image.period
<1>1. f \in Nat /\ UsPerMs \in Nat /\ UsPerSec \in Nat \ {0} /\ Slack \in Nat
      /\ MaxWait \in Nat /\ MaxCpus \in Nat
  BY HpetAssumption, BootAssumption DEF ClockFits, HpetAssumption, BootAssumption
<1> HIDE DEF f
<1>2. 1 * UsPerMs * f \in Nat /\ 10 * UsPerMs * f \in Nat
  BY <1>1
<1>3. TicksFor(1, image) \in Nat /\ TicksFor(10, image) \in Nat
  BY <1>1, <1>2, DivMod DEF TicksFor, f
<1>4. Turn \in Nat
  <2>1. (MaxWait + 2) * TicksFor(1, image) \in Nat
    BY <1>1, <1>3
  <2> QED BY <1>3, <2>1 DEF Turn
<1> QED BY <1>1, <1>3, <1>4 DEF f, ClockFits, Turn

LEMMA SleptBelow ==
  ASSUME ClockFits(image), NEW c \in Nat, c <= MaxCpus, NEW n \in Nat, n <= Turn,
         c < MaxCpus \/ n = 0
  PROVE  c * Turn + n < CounterMod
<1>1. Turn \in Nat /\ MaxCpus * Turn < CounterMod /\ MaxCpus \in Nat /\ CounterMod \in Nat
  BY TickFacts, BootAssumption, HpetAssumption DEF BootAssumption, HpetAssumption
<1>2. c * Turn \in Nat /\ MaxCpus * Turn \in Nat /\ (c + 1) * Turn = c * Turn + Turn
  BY <1>1
<1>3. CASE n = 0
  BY <1>1, <1>2, <1>3, MulMono
<1>4. CASE c < MaxCpus
  <2>1. (c + 1) * Turn <= MaxCpus * Turn
    BY <1>1, <1>4, MulMono, c + 1 \in Nat, c + 1 <= MaxCpus
  <2> QED BY <1>1, <1>2, <2>1
<1> QED BY <1>3, <1>4

(* What hpet_sleep_ms computes, if nothing wraps.                          *)
LEMMA SleepBegins ==
  ASSUME ClockFits(image), hpet_freq = FsPerSec \div image.period, counter \in Nat,
         NEW ms \in {1, 10}, NEW phase, hpet_sleep_ms(ms, phase),
         counter + TicksFor(ms, image) < CounterMod
  PROVE  /\ sleep' = [us |-> ms * UsPerMs, start |-> counter, phase |-> phase,
                      target |-> counter + (ms * UsPerMs * hpet_freq) \div UsPerSec]
         /\ UNCHANGED <<hpet_period, hpet_freq, counter>>
<1> DEFINE f == FsPerSec \div image.period  u == ms * UsPerMs  t == (u * f) \div UsPerSec
<1>1. f \in Nat /\ UsPerMs \in Nat /\ UsPerSec \in Nat \ {0} /\ Slack \in Nat /\ WordMod \in Nat
      /\ CounterMod \in Nat /\ CounterMod <= WordMod
      /\ 10 * UsPerMs * f < WordMod /\ 10 * UsPerMs < WordMod
  BY TickFacts, HpetAssumption DEF ClockFits, HpetAssumption
<1>2. TicksFor(ms, image) = t + Slack
  BY DEF TicksFor
<1> HIDE DEF f
<1>3. u \in Nat /\ u <= 10 * UsPerMs
  BY <1>1
<1>4. u * f \in Nat /\ u * f < WordMod
  <2>1. u * f <= (10 * UsPerMs) * f
    BY <1>1, <1>3, MulMono, 10 * UsPerMs \in Nat
  <2>2. u * f \in Nat /\ (10 * UsPerMs) * f \in Nat
    BY <1>1, <1>3
  <2> HIDE DEF u
  <2> QED BY <1>1, <2>1, <2>2
<1>5. u % WordMod = u
  BY <1>1, <1>3
<1> DEFINE uf == u * f
<1>6. uf % WordMod = uf
  <2> HIDE DEF uf
  <2> QED BY <1>1, <1>4 DEF uf
<1>7. t \in Nat
  BY <1>1, <1>4, DivMod
<1>8. (counter + t) % WordMod = counter + t
  <2> HIDE DEF t
  <2> QED BY <1>1, <1>2, <1>7
<1>9. Ticks(u) = t
  BY <1>6 DEF Ticks, f
<1>10. /\ sleep' = [us |-> u % WordMod, start |-> counter, phase |-> phase,
                    target |-> (counter + Ticks(u % WordMod)) % WordMod]
       /\ UNCHANGED <<hpet_period, hpet_freq, counter>>
  BY DEF hpet_sleep_ms, hpet_sleep_us
<1> QED BY <1>5, <1>8, <1>9, <1>10 DEF f

LEMMA SleepStarted ==
  ASSUME ClockFits(image), hpet_freq = FsPerSec \div image.period, counter \in Nat,
         NEW ms \in {1, 10}, NEW phase \in {0, hpet_period - 1}, hpet_sleep_ms(ms, phase),
         stage' # "loop", NEW s \in Nat, s = Slept', s < CounterMod,
         counter + TicksFor(ms, image) <= s
  PROVE  SleepInv' /\ counter' = counter
<1> DEFINE t == (ms * UsPerMs * hpet_freq) \div UsPerSec
<1>1. TicksFor(ms, image) = t + Slack /\ TicksFor(ms, image) \in Nat
  BY TickFacts DEF TicksFor
<1>2. t \in Nat /\ Slack \in Nat /\ CounterMod \in Nat
  <2>1. ms * UsPerMs * hpet_freq \in Nat /\ UsPerSec \in Nat \ {0} /\ Slack \in Nat
        /\ CounterMod \in Nat
    BY TickFacts, HpetAssumption DEF HpetAssumption
  <2> QED BY <2>1, DivMod
<1> HIDE DEF t
<1>3. /\ sleep' = [us |-> ms * UsPerMs, start |-> counter, phase |-> phase, target |-> counter + t]
      /\ hpet_period' = hpet_period /\ hpet_freq' = hpet_freq /\ counter' = counter
  <2>1. counter + TicksFor(ms, image) < CounterMod
    BY <1>1, <1>2
  <2> QED BY <2>1, SleepBegins DEF t
<1>4. sleep' \in [us : {10 * UsPerMs, 1 * UsPerMs}, start : Nat, target : Nat,
                  phase : {0, hpet_period' - 1}]
  BY <1>2, <1>3
<1>5. sleep'.target + Slack <= s
  BY <1>1, <1>2, <1>3
<1>6. sleep'.start <= counter' /\ sleep'.target = sleep'.start + t
  BY <1>3
<1>7. t = (sleep'.us * hpet_freq') \div UsPerSec
  BY <1>3 DEF t
<1> QED BY <1>3, <1>4, <1>5, <1>6, <1>7 DEF SleepInv

LEMMA InTurn ==
  ASSUME ClockFits(image), NEW w \in 0..MaxWait
  PROVE  /\ SleptInTurn("loop", w) = 0
         /\ SleptInTurn("sipi1", w) = TicksFor(10, image)
         /\ SleptInTurn("sipi2", w) = TicksFor(10, image) + TicksFor(1, image)
         /\ SleptInTurn("wait", w) >= TicksFor(10, image) + TicksFor(1, image) + TicksFor(1, image)
         /\ SleptInTurn("wait", w + 1) = SleptInTurn("wait", w) + TicksFor(1, image)
         /\ \A s \in {"loop", "sipi1", "sipi2", "wait"} :
              SleptInTurn(s, w) \in Nat /\ SleptInTurn(s, w) <= Turn
<1> DEFINE x == TicksFor(10, image)  y == TicksFor(1, image)
<1>1. x \in Nat /\ y \in Nat /\ MaxWait \in Nat /\ w \in Nat
  BY TickFacts, BootAssumption DEF BootAssumption
<1>2. /\ SleptInTurn("loop", w) = 0 /\ SleptInTurn("sipi1", w) = x
      /\ SleptInTurn("sipi2", w) = x + y /\ SleptInTurn("wait", w) = x + (2 + w) * y
      /\ SleptInTurn("wait", w + 1) = x + (2 + (w + 1)) * y /\ Turn = x + (MaxWait + 2) * y
  BY DEF SleptInTurn, Turn
<1> HIDE DEF x, y
<1>3. /\ (2 + w) * y = y + y + w * y /\ w * y \in Nat /\ (2 + (w + 1)) * y = (2 + w) * y + y
      /\ (MaxWait + 2) * y = y + y + MaxWait * y /\ MaxWait * y \in Nat
  BY <1>1
<1>4. w * y <= MaxWait * y
  BY <1>1, MulMono
<1> DEFINE wy == w * y  my == MaxWait * y  p == (2 + w) * y  q == (MaxWait + 2) * y
           r == (2 + (w + 1)) * y
<1> HIDE DEF wy, my, p, q, r
<1>5. p = y + y + wy /\ r = p + y /\ q = y + y + my /\ wy <= my /\ wy \in Nat /\ my \in Nat
  BY <1>3, <1>4 DEF wy, my, p, q, r
<1>6. /\ SleptInTurn("wait", w) = x + p /\ SleptInTurn("wait", w + 1) = x + r /\ Turn = x + q
  BY <1>2 DEF p, q, r
<1> QED BY <1>1, <1>2, <1>5, <1>6 DEF x, y

LEMMA ClockSmp ==
  ASSUME ClockFits(image), cpu_count \in 0..MaxCpus, hpet_freq = FsPerSec \div image.period,
         ClockAt, smp_init, image' = image, cpu_count' = cpu_count
  PROVE  ClockAt'
<1> DEFINE x == TicksFor(10, image)  y == TicksFor(1, image)
<1>1. /\ x \in Nat /\ y \in Nat /\ Turn \in Nat /\ MaxCpus \in Nat /\ CounterMod \in Nat
      /\ MaxWait \in Nat
  BY TickFacts, BootAssumption, HpetAssumption DEF BootAssumption, HpetAssumption
<1>2. /\ cpu \in Nat /\ cpu <= cpu_count /\ (stage # "loop" => cpu < cpu_count)
      /\ stage \in {"loop", "sipi1", "sipi2", "wait"} /\ waits \in 0..MaxWait
      /\ counter \in Nat /\ counter <= cpu * Turn + SleptInTurn(stage, waits)
  BY DEF ClockAt, Slept
<1>3. Slept' = cpu' * Turn + SleptInTurn(stage', waits')
  BY DEF Slept, Turn, SleptInTurn, TicksFor
<1>4. ~Sleeping
  BY DEF smp_init, SmpInitIpi, SmpSipi, SmpWait, SmpDone, AtSmp, At
<1>5. cpu * Turn \in Nat /\ (cpu + 1) * Turn = cpu * Turn + Turn
  BY <1>1, <1>2
<1> DEFINE ct == cpu * Turn  c1t == (cpu + 1) * Turn
<1>6. ct \in Nat /\ c1t = ct + Turn /\ counter <= ct + SleptInTurn(stage, waits)
  BY <1>2, <1>5
<1>7. ASSUME cpu < cpu_count, cpu' = cpu, waits' \in 0..MaxWait,
             stage' \in {"sipi1", "sipi2", "wait"},
             NEW ms \in {1, 10}, NEW phase \in {0, hpet_period - 1}, hpet_sleep_ms(ms, phase),
             SleptInTurn(stage', waits') >= SleptInTurn(stage, waits) + TicksFor(ms, image)
      PROVE  ClockAt'
  <2> DEFINE n == SleptInTurn(stage', waits')
  <2>1. n \in Nat /\ n <= Turn
    BY <1>7, InTurn
  <2>2. SleptInTurn(stage, waits) \in Nat /\ TicksFor(ms, image) \in Nat
    BY <1>2, InTurn, TickFacts
  <2>3. Slept' = ct + n /\ ct + n \in Nat
    BY <1>3, <1>6, <1>7, <2>1
  <2>4. ct + n < CounterMod
    BY <1>1, <1>2, <1>7, <2>1, SleptBelow
  <2> HIDE DEF ct, n
  <2>5. counter + TicksFor(ms, image) <= ct + n
    BY <1>2, <1>6, <1>7, <2>1, <2>2 DEF n
  <2>6. SleepInv' /\ counter' = counter
    <3> HIDE DEF ClockFits, hpet_sleep_ms, SleepInv, Slept
    <3>1. stage' # "loop"
      BY <1>7
    <3> QED BY <1>2, <1>7, <2>3, <2>4, <2>5, <3>1, SleepStarted
  <2>7. counter' <= Slept'
    BY <1>2, <2>2, <2>3, <2>5, <2>6
  <2> QED BY <1>2, <1>7, <2>6, <2>7 DEF ClockAt
<1>8. ASSUME cpu < cpu_count, cpu' = cpu + 1, stage' = "loop", waits' \in 0..MaxWait,
             UNCHANGED hpetVars
      PROVE  ClockAt'
  <2>1. SleptInTurn(stage, waits) \in Nat /\ SleptInTurn(stage, waits) <= Turn
        /\ SleptInTurn("loop", waits') = 0
    BY <1>2, <1>8, InTurn
  <2>2. Slept' = c1t
    BY <1>1, <1>2, <1>3, <1>8, <2>1
  <2>3. counter' = counter /\ ~Sleeping'
    BY <1>4, <1>8 DEF hpetVars, Sleeping, Awake
  <2> HIDE DEF ct, c1t
  <2>4. counter' <= Slept'
    BY <1>1, <1>2, <1>6, <2>1, <2>2, <2>3
  <2> QED BY <1>2, <1>8, <2>3, <2>4 DEF ClockAt
<1>9. \A w \in 0..MaxWait :
        /\ SleptInTurn("loop", w) = 0 /\ SleptInTurn("sipi1", w) = x
        /\ SleptInTurn("sipi2", w) = x + y /\ SleptInTurn("wait", w) >= x + y + y
        /\ SleptInTurn("wait", w + 1) = SleptInTurn("wait", w) + y
        /\ SleptInTurn("wait", w) \in Nat
  BY InTurn
<1> HIDE DEF x, y, ct, c1t
<1>10. ASSUME NEW phase \in {0, hpet_period - 1}, SmpInitIpi(phase) PROVE ClockAt'
  <2>1. cpu < cpu_count /\ stage = "loop" /\ waits' = waits
    BY <1>10 DEF SmpInitIpi, AtSmp
  <2>2. CASE Target = image.bsp
    <3>1. cpu' = cpu + 1 /\ stage' = "loop" /\ UNCHANGED hpetVars
      BY <1>10, <2>1, <2>2 DEF SmpInitIpi
    <3> QED BY <1>2, <1>8, <2>1, <3>1
  <2>3. CASE Target # image.bsp
    <3>1. hpet_sleep_ms(10, phase) /\ stage' = "sipi1" /\ cpu' = cpu
      BY <1>10, <2>3 DEF SmpInitIpi
    <3>2. SleptInTurn(stage', waits') >= SleptInTurn(stage, waits) + TicksFor(10, image)
      BY <1>1, <1>2, <1>9, <2>1, <3>1 DEF x
    <3> QED BY <1>2, <1>7, <2>1, <3>1, <3>2
  <2> QED BY <2>2, <2>3
<1>11. ASSUME NEW phase \in {0, hpet_period - 1}, SmpSipi(phase) PROVE ClockAt'
  <2>1. /\ hpet_sleep_ms(1, phase) /\ cpu' = cpu /\ waits' = waits
        /\ \/ stage = "sipi1" /\ stage' = "sipi2"
           \/ stage = "sipi2" /\ stage' = "wait"
    BY <1>11 DEF SmpSipi, AtSmp
  <2>2. SleptInTurn(stage', waits') >= SleptInTurn(stage, waits) + TicksFor(1, image)
    <3>1. CASE stage = "sipi1"
      BY <1>1, <1>2, <1>9, <2>1, <3>1 DEF y
    <3>2. CASE stage = "sipi2"
      BY <1>1, <1>2, <1>9, <2>1, <3>2 DEF y
    <3> QED BY <2>1, <3>1, <3>2
  <2> QED BY <1>2, <1>7, <2>1, <2>2
<1>12. ASSUME NEW phase \in {0, hpet_period - 1}, SmpWait(phase) PROVE ClockAt'
  <2>1. stage = "wait" /\ cpu < cpu_count
    BY <1>2, <1>12 DEF SmpWait, AtSmp
  <2>2. CASE ap[Target] = "trampoline"
    <3>1. /\ hpet_sleep_ms(1, phase) /\ cpu' = cpu /\ stage' = stage /\ waits < MaxWait
          /\ waits' = waits + 1
      BY <1>12, <2>2 DEF SmpWait
    <3>2. waits' \in 0..MaxWait
      BY <1>1, <1>2, <3>1
    <3>3. SleptInTurn(stage', waits') >= SleptInTurn(stage, waits) + TicksFor(1, image)
      BY <1>1, <1>2, <1>9, <2>1, <3>1 DEF y
    <3> QED BY <1>7, <2>1, <3>1, <3>2, <3>3
  <2>3. CASE ap[Target] # "trampoline"
    <3>1. cpu' = cpu + 1 /\ stage' = "loop" /\ waits' = 0 /\ UNCHANGED hpetVars
      BY <1>12, <2>3 DEF SmpWait
    <3> QED BY <1>1, <1>8, <2>1, <3>1
  <2> QED BY <2>2, <2>3
<1>13. ASSUME SmpDone PROVE ClockAt'
  <2>1. UNCHANGED <<hpetVars, cpu, stage, waits>>
    BY <1>13 DEF SmpDone, smpVars
  <2> QED BY <2>1, <1>3, <1>4 DEF ClockAt, Slept, hpetVars, Sleeping, Awake
<1> QED BY <1>10, <1>11, <1>12, <1>13 DEF smp_init

LEMMA ClockStep ==
  ASSUME ClockFits(image), FewCpus(image), AllWellFormed, WalkInv, ModeInv, PcInv, TimerInv,
         SmpInv, ClockInv, BootNext
  PROVE  ClockInv'
<1>1. line \in 1..16 /\ image' = image /\ (line' = line \/ line' = line + 1)
  BY ImageKept, Advance DEF ModeInv
<1>2. line > 11 => cpu_count \in 0..MaxCpus /\ hpet_freq = FsPerSec \div image.period
  BY <1>1, CpuCount DEF PcInv, TimerInv
<1>3. line > 11 => /\ UNCHANGED vars /\ ~HpetSet
                   /\ UNCHANGED <<hpet_period, hpet_freq>>
  BY Where, Writes
<1>4. ASSUME line > 11, UNCHANGED <<cpu, stage, waits>> PROVE Slept' = Slept
  BY <1>1, <1>4 DEF Slept, Turn, SleptInTurn, TicksFor
<1>5. CASE line = 12 /\ line' = 13
  <2>1. cpu = 0 /\ stage = "loop" /\ waits = 0 /\ counter = 0 /\ sleep = Awake
    BY <1>5 DEF SmpInv
  <2>2. scheduler_init
    BY <1>5, Advance
  <2>3. UNCHANGED <<cpu, stage, waits, counter, sleep, cpu_count>>
    BY <2>2 DEF scheduler_init, smpVars, hpetVars, vars
  <2>4. Slept = 0
    <3>1. SleptInTurn("loop", 0) = 0 /\ Turn \in Nat
      BY TickFacts DEF SleptInTurn
    <3> QED BY <2>1, <3>1 DEF Slept
  <2>5. Slept' = 0
    BY <1>4, <1>5, <2>3, <2>4
  <2>6. ~Sleeping'
    BY <2>1, <2>3 DEF Sleeping, Awake
  <2>7. MaxWait \in Nat /\ cpu_count \in 0..MaxCpus /\ MaxCpus \in Nat
    BY <1>2, <1>5, BootAssumption DEF BootAssumption
  <2> QED BY <2>1, <2>3, <2>5, <2>6, <2>7 DEF ClockInv, ClockAt
<1>6. CASE line > 12
  <2>0. line > 11
    BY <1>1, <1>6
  <2>1. ClockAt /\ cpu_count' = cpu_count
    BY <1>3, <1>6, <2>0 DEF ClockInv, vars
  <2>2. CASE smp_init
    BY <1>1, <1>2, <1>6, <2>1, <2>2, ClockSmp DEF ClockInv
  <2>3. CASE UNCHANGED <<cpu, stage, waits, counter, sleep>>
    <3>1. Slept' = Slept
      BY <1>4, <2>0, <2>3
    <3>2. ClockAt'
      <4>1. Sleeping' => SleepInv'
        BY <1>3, <2>0, <2>1, <2>3, <3>1 DEF ClockAt, Sleeping, Awake, SleepInv
      <4> QED BY <2>1, <2>3, <3>1, <4>1 DEF ClockAt
    <3> QED BY <3>2 DEF ClockInv
  <2>4. CASE HpetWake
    <3>1. UNCHANGED <<cpu, stage, waits, counter>> /\ ~Sleeping'
      BY <2>4 DEF HpetWake, Wake, smpVars, Sleeping, Awake
    <3>2. Slept' = Slept
      BY <1>4, <2>0, <3>1
    <3> QED BY <2>1, <3>1, <3>2 DEF ClockInv, ClockAt
  <2>5. CASE HpetTick
    <3>1. /\ UNCHANGED <<cpu, stage, waits, sleep>> /\ Sleeping
          /\ counter < sleep.target + Slack /\ counter' = (counter + 1) % CounterMod
      BY <2>5 DEF HpetTick, Tick, smpVars
    <3>2. Slept' = Slept
      BY <1>4, <2>0, <3>1
    <3>3. /\ SleepInv /\ counter \in Nat /\ stage # "loop" /\ cpu < cpu_count /\ cpu \in 0..cpu_count
          /\ waits \in 0..MaxWait /\ stage \in {"loop", "sipi1", "sipi2", "wait"}
      BY <2>1, <3>1 DEF ClockAt, SleepInv
    <3>4. Slept \in Nat /\ Slept < CounterMod /\ CounterMod \in Nat
      <4> DEFINE n == SleptInTurn(stage, waits)
      <4>1. n \in Nat /\ n <= Turn
        BY <3>3, InTurn
      <4>2. cpu \in Nat /\ cpu < MaxCpus /\ cpu <= MaxCpus /\ Turn \in Nat
        BY <1>2, <2>0, <3>3, TickFacts, BootAssumption DEF BootAssumption
      <4>3. cpu * Turn + n < CounterMod
        BY <4>1, <4>2, SleptBelow
      <4>4. cpu * Turn \in Nat
        BY <4>2
      <4> QED BY <4>1, <4>3, <4>4, HpetAssumption DEF Slept, HpetAssumption
    <3>5. sleep.target \in Nat /\ sleep.start \in Nat /\ sleep.target + Slack <= Slept
          /\ sleep.start <= counter /\ Slack \in Nat
      BY <3>3, HpetAssumption DEF SleepInv, HpetAssumption
    <3>6. counter + 1 <= Slept /\ counter + 1 < CounterMod
      BY <3>1, <3>3, <3>4, <3>5
    <3>7. counter' = counter + 1
      <4>1. (counter + 1) % CounterMod = counter + 1
        BY <3>3, <3>4, <3>6
      <4> QED BY <3>1, <4>1
    <3>8. SleepInv'
      <4>1. sleep' = sleep /\ stage' = stage /\ hpet_period' = hpet_period /\ hpet_freq' = hpet_freq
        BY <1>3, <2>0, <3>1
      <4>2. sleep.start <= counter'
        BY <3>3, <3>5, <3>7
      <4> QED BY <4>1, <4>2, <3>2, <3>3 DEF SleepInv
    <3>9. counter' \in Nat /\ counter' <= Slept'
      BY <3>2, <3>3, <3>6, <3>7
    <3> QED BY <2>1, <3>1, <3>3, <3>8, <3>9 DEF ClockInv, ClockAt
  <2>6. UNCHANGED <<cpu, stage, waits, counter, sleep>> \/ smp_init \/ HpetTick \/ HpetWake
    BY <1>3, <2>0, Writes
  <2> QED BY <2>2, <2>3, <2>4, <2>5, <2>6
<1> QED BY <1>1, <1>5, <1>6 DEF ClockInv

(* A sleep ends late enough.  The frequency is the reciprocal of the       *)
(* period rounded down, and so is the number of ticks.                     *)
LEMMA SleepTime ==
  ASSUME NEW U \in Nat \ {0}, NEW F \in Nat, F % U = 0, NEW p \in 1..F,
         NEW us \in Nat, us <= U, NEW phase \in 0..(p - 1),
         NEW n \in Nat, n >= (us * (F \div p)) \div U
  PROVE  n * p - phase + 3 * p > us * (F \div U)
<1> DEFINE q == F \div U  f == F \div p  r == F % p  t == (us * f) \div U  s == (us * f) % U
<1>1. q \in Nat /\ F = q * U
  <2>1. q \in Nat /\ F = q * U + (F % U)
    BY DivMod
  <2> HIDE DEF q
  <2> QED BY <2>1
<1>2. p \in Nat \ {0} /\ f \in Nat /\ r \in 0..(p - 1) /\ F = f * p + r
  <2>1. p \in Nat \ {0}
    OBVIOUS
  <2> QED BY <2>1, DivMod
<1>3. us * f \in Nat
  BY <1>2
<1>4. t \in Nat /\ s \in 0..(U - 1) /\ us * f = t * U + s
  BY <1>3, DivMod
<1>5. n >= t
  OBVIOUS
<1> HIDE DEF q, f, r, t, s
<1>6. us * F = (t * U) * p + s * p + us * r
  <2>1. us * F = (us * f) * p + us * r
    BY <1>2
  <2>2. (t * U + s) * p = (t * U) * p + s * p
    BY <1>2, <1>4
  <2> QED BY <1>4, <2>1, <2>2
<1>7. s * p <= U * p /\ us * r <= U * p
  <2>1. s * p <= U * p
    BY <1>2, <1>4, MulMono
  <2>2. us * r <= U * r
    BY <1>2, MulMono
  <2>3. r * U <= p * U
    BY <1>2, MulMono
  <2>4. U * r = r * U /\ U * p = p * U /\ us * r \in Nat /\ r * U \in Nat /\ p * U \in Nat
    BY <1>2
  <2> QED BY <2>1, <2>2, <2>3, <2>4
<1>8. (us * q) * U <= (t * p + 2 * p) * U
  <2>1. (us * q) * U = us * F
    BY <1>1
  <2>2. (t * p + 2 * p) * U = (t * U) * p + U * p + U * p
    BY <1>2, <1>4
  <2>3. (t * U) * p \in Nat /\ s * p \in Nat /\ us * r \in Nat /\ U * p \in Nat
    BY <1>2, <1>4
  <2> QED BY <1>6, <1>7, <2>1, <2>2, <2>3
<1>9. us * q <= t * p + 2 * p
  <2> DEFINE a == us * q  b == t * p + 2 * p
  <2>1. a \in Nat /\ b \in Nat /\ a * U <= b * U
    BY <1>1, <1>2, <1>4, <1>8
  <2> HIDE DEF a, b
  <2>2. ~(b < a)
    <3> SUFFICES ASSUME b < a PROVE FALSE OBVIOUS
    <3>1. (b + 1) * U <= a * U
      BY <2>1, MulMono, b + 1 <= a
    <3>2. (b + 1) * U = b * U + U /\ b * U \in Nat /\ a * U \in Nat
      BY <2>1
    <3> QED BY <2>1, <3>1, <3>2
  <2> QED BY <2>1, <2>2 DEF a, b
<1>10. t * p <= n * p
  BY <1>2, <1>4, <1>5, MulMono
<1>11. us * q \in Nat /\ t * p \in Nat /\ n * p \in Nat
  BY <1>1, <1>2, <1>4
<1>12. us * q < n * p - phase + 3 * p
  BY <1>2, <1>9, <1>10, <1>11
<1> QED BY <1>12, <1>11, <1>2 DEF q

(* Machines with few enough CPUs and a timer that does not wrap.           *)
AllClocksFit == \A m \in Images : ClockFits(m) /\ FewCpus(m)
SleepIInv == WalkInv /\ ModeInv /\ PcInv /\ TimerInv /\ SmpInv /\ ClockInv

LEMMA SleepEnds ==
  ASSUME AllClocksFit, SleepIInv, Sleeping, Reached, sleep.us <= UsPerSec
  PROVE  (counter - sleep.start) * hpet_period - sleep.phase + 3 * hpet_period
           > sleep.us * (FsPerSec \div UsPerSec)
<1>1. line \in 1..16 /\ line > 12 /\ line > 11 /\ image \in Images
  BY DEF SleepIInv, SmpInv, ModeInv, WalkInv, Sleeping
<1>2. /\ SleepInv /\ counter \in Nat
      /\ hpet_period = image.period /\ hpet_freq = FsPerSec \div image.period
  BY <1>1 DEF SleepIInv, ClockInv, ClockAt, TimerInv
<1>3. hpet_period \in 1..FsPerSec /\ UsPerSec \in Nat \ {0} /\ FsPerSec \in Nat
      /\ FsPerSec % UsPerSec = 0 /\ UsPerMs \in Nat
  BY <1>1, <1>2, HpetAssumption DEF AllClocksFit, ClockFits, HpetAssumption
<1>4. /\ sleep.us \in Nat /\ sleep.phase \in 0..(hpet_period - 1)
      /\ sleep.start \in Nat /\ sleep.target \in Nat
      /\ sleep.target = sleep.start + (sleep.us * hpet_freq) \div UsPerSec
  BY <1>2, <1>3 DEF SleepInv
<1>5. (sleep.us * hpet_freq) \div UsPerSec \in Nat
  <2>1. hpet_freq \in Nat
    <3>1. hpet_period \in Nat \ {0} /\ hpet_freq = FsPerSec \div hpet_period
      BY <1>2, <1>3
    <3> QED BY <1>3, <3>1, DivMod
  <2>2. sleep.us * hpet_freq \in Nat
    BY <1>4, <2>1
  <2> QED BY <1>3, <2>2, DivMod
<1>6. counter - sleep.start \in Nat
      /\ counter - sleep.start >= (sleep.us * (FsPerSec \div hpet_period)) \div UsPerSec
  BY <1>2, <1>4, <1>5 DEF Reached
<1> QED BY <1>3, <1>4, <1>6, SleepTime

(* Every sleep of smp_init lasts less than three ticks of the timer less   *)
(* than asked for: the counter does not pass its end while smp_init        *)
(* sleeps, whatever the period, and the two divisions that round down cost *)
(* no more than a tick each.                                               *)
THEOREM SleepLongEnoughHolds ==
  ASSUME AllWellFormed, AllClocksFit PROVE BootSpec => SleepLongEnough
<1>1. BootInit => SleepIInv
  <2> SUFFICES ASSUME BootInit PROVE SleepIInv
    OBVIOUS
  <2>1. WalkInv
    BY WalkInit DEF BootInit
  <2>2. line = 1 /\ mode = "start" /\ pc = "mb2_parse"
    BY DEF BootInit, Init
  <2>3. SmpInv
    BY DEF BootInit, HpetInit, SmpInv
  <2> QED BY <2>1, <2>2, <2>3 DEF SleepIInv, ModeInv, PcInv, TimerInv, ClockInv
<1>2. SleepIInv /\ [BootNext]_bootVars => SleepIInv'
  <2>1. ASSUME SleepIInv, BootNext PROVE SleepIInv'
    <3>1. ClockFits(image) /\ FewCpus(image)
      BY <2>1 DEF SleepIInv, WalkInv, AllClocksFit
    <3> QED BY <2>1, <3>1, BootWalks, WalkStep, ModeStep, PcStep, TimerStep, SmpStep, ClockStep
            DEF SleepIInv
  <2>2. ASSUME SleepIInv, UNCHANGED bootVars PROVE SleepIInv'
    <3>1. WalkInv'
      BY <2>2, WalkStep DEF SleepIInv, bootVars
    <3>2. (ModeInv /\ PcInv /\ TimerInv /\ SmpInv)'
      BY <2>2 DEF SleepIInv, bootVars, vars, hpetVars, smpVars, ModeInv, PcInv, TimerInv, SmpInv,
        Awake
    <3>3. ClockInv'
      BY <2>2 DEF SleepIInv, bootVars, vars, hpetVars, smpVars, ClockInv, ClockAt, Sleeping, Awake,
        SleepInv, Slept, Turn, SleptInTurn, TicksFor
    <3> QED BY <3>1, <3>2, <3>3 DEF SleepIInv
  <2> QED BY <2>1, <2>2
<1>3. SleepIInv =>
        [(Wake /\ sleep.us <= UsPerSec) =>
           (counter - sleep.start) * hpet_period - sleep.phase + 3 * hpet_period
             > sleep.us * (FsPerSec \div UsPerSec)]_hpetVars
  BY SleepEnds DEF Wake
<1> QED BY <1>1, <1>2, <1>3, PTL DEF BootSpec, SleepLongEnough

-----------------------------------------------------------------------------
(* The page tables of the boot are those of PagingProofs.                  *)
PP == INSTANCE PagingProofs WITH pc <- ppc

LEMMA SameValues ==
  /\ P!NULL = PP!NULL /\ P!HugePage = PP!HugePage /\ P!NoJob = PP!NoJob /\ P!Reach = PP!Reach
  /\ P!Absent = PP!Absent /\ P!EmptyTable = PP!EmptyTable
BY DEF P!NULL, PP!NULL, P!HugePage, PP!HugePage, P!NoJob, PP!NoJob, P!Reach, PP!Reach,
  P!Absent, PP!Absent, P!EmptyTable, PP!EmptyTable

LEMMA SameIndices ==
  ASSUME NEW a
  PROVE  /\ P!pml4_idx(a) = PP!pml4_idx(a) /\ P!pdpt_idx(a) = PP!pdpt_idx(a)
         /\ P!pd_idx(a) = PP!pd_idx(a) /\ P!pt_idx(a) = PP!pt_idx(a)
BY SameValues DEF P!pml4_idx, PP!pml4_idx, P!pdpt_idx, PP!pdpt_idx, P!pd_idx, PP!pd_idx,
  P!pt_idx, PP!pt_idx

LEMMA SameAlignment ==
  ASSUME NEW a, NEW u
  PROVE  /\ P!AlignDown(a, u) = PP!AlignDown(a, u) /\ P!AlignUp(a, u) = PP!AlignUp(a, u)
         /\ P!LastPage(a, u) = PP!LastPage(a, u)
BY DEF P!AlignDown, PP!AlignDown, P!AlignUp, PP!AlignUp, P!LastPage, PP!LastPage

LEMMA SameRegions == ASSUME NEW m PROVE P!InitRegions(m) = PP!InitRegions(m)
<1>1. ASSUME NEW base, NEW size PROVE P!Region(base, size) = PP!Region(base, size)
  BY DEF P!Region, PP!Region
<1>2. ASSUME NEW e PROVE P!UsableRegion(e) = PP!UsableRegion(e)
  BY <1>1, SameAlignment, SameValues DEF P!UsableRegion, PP!UsableRegion
<1> QED BY <1>1, <1>2, SameAlignment, SameValues
        DEF P!InitRegions, PP!InitRegions, P!KernelSize, PP!KernelSize

LEMMA SameTranslation == ASSUME NEW a PROVE P!Translate(a) = PP!Translate(a)
<1>1. ASSUME NEW t PROVE P!Lookup(a, t) = PP!Lookup(a, t)
  <2>1. /\ P!pml4_idx(a) = PP!pml4_idx(a) /\ P!pdpt_idx(a) = PP!pdpt_idx(a)
        /\ P!pd_idx(a) = PP!pd_idx(a) /\ P!pt_idx(a) = PP!pt_idx(a)
    BY SameIndices
  <2>2. P!NULL = PP!NULL /\ P!Absent = PP!Absent
    BY SameValues
  <2> QED BY <2>1, <2>2 DEF P!Lookup, PP!Lookup
<1> QED BY <1>1, SameValues DEF P!Translate, PP!Translate

LEMMA SameMapPage == P!MapPage <=> PP!MapPage
<1>1. ASSUME NEW w, NEW n PROVE P!Descend(w, n) = PP!Descend(w, n)
  BY SameValues DEF P!Descend, PP!Descend, P!Present, PP!Present, P!alloc_page_table,
    PP!alloc_page_table, P!NewTable, PP!NewTable
<1>2. ASSUME NEW w, NEW n, NEW e PROVE P!Write(w, n, e) = PP!Write(w, n, e)
  BY DEF P!Write, PP!Write
<1>3. /\ \A a : P!map_page_2mb(a) = PP!map_page_2mb(a)
      /\ \A a, cd : P!map_page_4kb(a, cd) = PP!map_page_4kb(a, cd)
  BY <1>1, <1>2, SameIndices, SameAlignment, SameValues
     DEF P!map_page_2mb, PP!map_page_2mb, P!map_page_4kb, PP!map_page_4kb, P!At, PP!At
<1> QED BY <1>3, SameValues DEF P!MapPage, PP!MapPage

LEMMA SameSteps ==
  /\ P!paging_init <=> PP!paging_init
  /\ P!NextRegion <=> PP!NextRegion
  /\ P!paging_switch <=> PP!paging_switch
  /\ P!RegionDone <=> PP!RegionDone
  /\ \A a, s : P!paging_map_mmio_region(a, s) <=> PP!paging_map_mmio_region(a, s)
BY SameRegions, SameAlignment, SameValues DEF P!paging_init, PP!paging_init, P!NextRegion,
  PP!NextRegion, P!paging_switch, PP!paging_switch, P!RegionDone, PP!RegionDone,
  P!paging_map_mmio_region, PP!paging_map_mmio_region

LEMMA SameHypotheses ==
  /\ P!InReach <=> PP!InReach
  /\ P!Apart <=> PP!Apart
  /\ \A m, n : P!InRegion(m, n) <=> PP!InRegion(m, n)
BY SameRegions, SameAlignment, SameValues
   DEF P!InReach, PP!InReach, P!Apart, PP!Apart, P!InRegion, PP!InRegion

(* Machines whose memory is where the kernel looks for it.                 *)
AllPlaced == (\A m \in Images : Placed(m)) /\ P!InReach /\ P!Apart

LEMMA BasesNat == ASSUME NEW m, WellFormed(m) PROVE LapicBases(m) \subseteq Nat
<1> SUFFICES ASSUME NEW b \in LapicBases(m) PROVE b \in Nat
  OBVIOUS
<1>1. PICK r \in DOMAIN m.roots :
        b \in UNION {{table.lapic_addr} \cup
                       {table.entries[k].addr : k \in
                          {k \in DOMAIN table.entries : table.entries[k].type = "LAPIC_OVERRIDE"}}
                     : table \in {m.roots[r].tables[t] : t \in DOMAIN m.roots[r].tables}}
  BY DEF LapicBases
<1>2. PICK t \in DOMAIN m.roots[r].tables :
        LET table == m.roots[r].tables[t]
        IN  b \in {table.lapic_addr} \cup
                    {table.entries[k].addr : k \in
                       {k \in DOMAIN table.entries : table.entries[k].type = "LAPIC_OVERRIDE"}}
  BY <1>1
<1>3. m.roots[r] \in RootRecord
  BY LenProperties, ElementOfSeq DEF WellFormed
<1>4. m.roots[r].tables[t] \in TableRecord
  <2>1. m.roots[r].tables \in Seq(TableRecord)
    BY <1>3 DEF RootRecord
  <2> QED BY <2>1, LenProperties, ElementOfSeq
<1> DEFINE table == m.roots[r].tables[t]
<1> HIDE DEF table
<1>5. table.lapic_addr \in Nat /\ table.entries \in Seq(EntryRecord)
  BY <1>4 DEF table, TableRecord
<1>6. \A k \in DOMAIN table.entries : table.entries[k] \in EntryRecord
  BY <1>5, LenProperties, ElementOfSeq
<1>7. \A k \in DOMAIN table.entries : table.entries[k].addr \in Nat
  BY <1>6 DEF EntryRecord
<1> QED BY <1>2, <1>5, <1>7 DEF table

LEMMA PagingFits == PP!PagingAssumption
BY BootAssumption, MachinesAssumption DEF PP!PagingAssumption, BootAssumption, MachinesAssumption

LEMMA DevicesOf ==
  ASSUME NEW m \in Images
  PROVE  /\ m.fb \in Devices /\ <<m.hpet, Page>> \in Devices
         /\ \A b \in LapicBases(m) : <<b, Page>> \in Devices
         /\ m.fb \in Nat \X Nat /\ m.hpet \in Nat
BY MachinesAssumption DEF MachinesAssumption, Blocks

LEMMA BlocksOfImage ==
  ASSUME WalkInv
  PROVE  /\ image.fb \in Devices /\ <<image.hpet, Page>> \in Devices
         /\ \A b \in LapicBases(image) : <<b, Page>> \in Devices
BY DevicesOf DEF WalkInv

(* The address lapic_init maps is one the MADT gives.                      *)
LEMMA BaseFound ==
  ASSUME AllWellFormed, WalkInv, pc = "lapic_init"
  PROVE  madt_get_lapic_base \in LapicBases(image)
<1>1. WellFormed(image) /\ InRoot /\ madt_table # NULL
  BY DEF WalkInv, AllWellFormed, AllLooked
<1>2. madt_table \in DOMAIN root.tables
  BY <1>1, MadtHere
<1>3. PICK r \in DOMAIN image.roots : root = image.roots[r]
  BY <1>1 DEF InRoot
<1> DEFINE E == Entries(madt_table)
           S == {k \in DOMAIN E : E[k].type = "LAPIC_OVERRIDE"}
           F == CHOOSE k \in S : \A j \in S : k <= j
<1>4. madt_get_lapic_base = IF S = {} THEN root.tables[madt_table].lapic_addr ELSE E[F].addr
  BY DEF madt_get_lapic_base, Matches, FirstMatch
<1>5. S # {} => F \in S
  <2>1. DOMAIN E = 1..Len(E) /\ Len(E) \in Nat
    BY <1>1, <1>2, MadtFacts
  <2>2. S \subseteq Nat
    BY <2>1
  <2> HIDE DEF S
  <2> QED BY <2>2, Least
<1>6. ASSUME NEW k \in S PROVE E[k].addr \in LapicBases(image)
  <2> DEFINE Bases(table) ==
               {table.lapic_addr} \cup
                 {table.entries[j].addr : j \in
                    {j \in DOMAIN table.entries : table.entries[j].type = "LAPIC_OVERRIDE"}}
  <2>1. E[k].addr \in Bases(image.roots[r].tables[madt_table])
    BY <1>3 DEF Entries
  <2>2. LapicBases(image) =
          UNION {UNION {Bases(table) : table \in {image.roots[q].tables[t] :
                                                    t \in DOMAIN image.roots[q].tables}}
                 : q \in DOMAIN image.roots}
    BY DEF LapicBases
  <2> HIDE DEF Bases
  <2> QED BY <1>2, <1>3, <2>1, <2>2
<1>7. root.tables[madt_table].lapic_addr \in LapicBases(image)
  BY <1>2, <1>3 DEF LapicBases
<1> HIDE DEF S, E, F
<1> QED BY <1>4, <1>5, <1>6, <1>7

(* Every step of the boot is a step of Paging or leaves the tables alone.  *)
LEMMA BootPages ==
  ASSUME AllWellFormed, AllPlaced, WalkInv, BootNext
  PROVE  [PP!Next]_(PP!vars) /\ mmap' = mmap
<1>1. CASE UNCHANGED pagingVars
  BY <1>1 DEF pagingVars, PP!vars
<1>2. ASSUME NEW d \in Devices, P!paging_map_mmio_region(d[1], d[2])
      PROVE  [PP!Next]_(PP!vars) /\ mmap' = mmap
  <2>1. PP!paging_map_mmio_region(d[1], d[2])
    BY <1>2, SameSteps
  <2> QED BY <2>1 DEF PP!Next, PP!paging_map_mmio_region
<1>3. CASE paging_init \/ MapRegion
  <2>1. PP!paging_init \/ PP!NextRegion \/ PP!MapPage \/ PP!paging_switch \/ PP!RegionDone
    BY <1>3, SameSteps, SameMapPage DEF paging_init, MapRegion
  <2>2. mmap' = mmap
    BY <2>1 DEF PP!paging_init, PP!NextRegion, PP!MapPage, PP!paging_switch, PP!RegionDone
  <2> QED BY <2>1, <2>2 DEF PP!Next
<1>4. CASE ParseTag
  <2>1. UNCHANGED pagingVars \/ P!paging_map_mmio_region(image.fb[1], image.fb[2])
    BY <1>4 DEF ParseTag
  <2> QED BY <1>1, <1>2, <2>1, BlocksOfImage
<1>5. CASE LapicMap
  <2>1. P!paging_map_mmio_region(lapic_base', Page) /\ lapic_base' \in LapicBases(image)
    BY <1>5, BaseFound DEF LapicMap, lapic_init
  <2>2. PICK d \in Devices : d = <<lapic_base', Page>>
    BY <2>1, BlocksOfImage
  <2> QED BY <1>2, <2>1, <2>2
<1>6. CASE HpetMap
  <2>1. UNCHANGED pagingVars \/ P!paging_map_mmio_region(image.hpet, Page)
    BY <1>6 DEF HpetMap
  <2>2. PICK d \in Devices : d = <<image.hpet, Page>>
    BY BlocksOfImage
  <2> QED BY <1>1, <1>2, <2>1, <2>2
<1> QED BY <1>1, <1>3, <1>4, <1>5, <1>6, Writes

PageInv == PP!IInv /\ mmap = image.mmap

LEMMA PageInit == ASSUME AllWellFormed, AllPlaced, BootInit PROVE PageInv
<1>1. image \in Images /\ mmap = image.mmap
  BY DEF BootInit, Init
<1>2. PP!Init
  BY <1>1, SameValues, MachinesAssumption DEF BootInit, PP!Init, MachinesAssumption
<1> QED BY <1>1, <1>2, PagingFits, PP!InitInv DEF PageInv

LEMMA PageStep ==
  ASSUME AllWellFormed, AllPlaced, WalkInv, PageInv, BootNext
  PROVE  /\ PageInv'
         /\ \A a \in PP!Addresses : P!Translate(a) # P!NULL => P!Translate(a)' = P!Translate(a)
<1>1. [PP!Next]_(PP!vars) /\ mmap' = mmap /\ image' = image
  BY BootPages, ImageKept
<1>2. PP!PagingAssumption /\ PP!InReach /\ PP!Apart
  BY PagingFits, SameHypotheses DEF AllPlaced
<1>3. PP!IInv'
  BY <1>1, <1>2, PP!StepInv DEF PageInv
<1>4. \A a \in PP!Addresses : PP!Translate(a) # PP!NULL => PP!Translate(a)' = PP!Translate(a)
  BY <1>1, <1>2, PP!StepMappings DEF PageInv
<1>5. ASSUME NEW a PROVE P!Translate(a) = PP!Translate(a) /\ P!Translate(a)' = PP!Translate(a)'
  <2>1. /\ P!pml4_idx(a) = PP!pml4_idx(a) /\ P!pdpt_idx(a) = PP!pdpt_idx(a)
        /\ P!pd_idx(a) = PP!pd_idx(a) /\ P!pt_idx(a) = PP!pt_idx(a)
    BY SameIndices
  <2>2. P!NULL = PP!NULL /\ P!Absent = PP!Absent /\ P!HugePage = PP!HugePage
    BY SameValues
  <2>3. P!Translate(a)' = PP!Translate(a)'
    BY <2>1, <2>2 DEF P!Translate, PP!Translate, P!Lookup, PP!Lookup
  <2> QED BY <2>3, SameTranslation
<1> QED BY <1>1, <1>3, <1>4, <1>5, SameValues DEF PageInv

LEMMA TablesStep ==
  ASSUME AllWellFormed, AllPlaced, WalkInv, PageInv, ModeInv, TablesInv, BootNext
  PROVE  TablesInv'
<1>1. line \in 1..16
  BY DEF ModeInv
<1>2. PageInv' /\ (ppc' = "running" => cr3' # P!NULL)
  <2>1. PageInv'
    BY PageStep
  <2>2. PP!PagingAssumption
    BY PagingFits
  <2>3. ppc' = "running" => cr3' # PP!NULL
    BY <2>1 DEF PageInv, PP!IInv
  <2> QED BY <2>1, <2>3, SameValues
<1>3. CASE line' # line
  <2>1. line' = line + 1 /\ (line = 3 => ppc' = "running")
    BY <1>3, Advance
  <2>2. line # 3 => line' <= 3 \/ line > 3
    BY <1>1, <2>1
  <2>3. CASE line = 3
    BY <1>2, <2>1, <2>3 DEF TablesInv
  <2>4. CASE line < 3
    <3>1. UNCHANGED pagingVars
      <4>1. ppc # "running"
        BY <1>1, <2>4 DEF TablesInv
      <4>2. ~MapRegion
        BY <4>1 DEF MapRegion
      <4> QED BY <2>4, <4>2, Where, Writes
    <3> QED BY <1>1, <2>1, <2>4, <3>1 DEF TablesInv, pagingVars
  <2>5. CASE line > 3
    <3>1. ~paging_init
      BY <2>5, Where
    <3>2. cr3' = cr3
      BY <3>1, Writes DEF pagingVars, MapRegion, ParseTag, LapicMap, HpetMap, P!MapPage,
        P!RegionDone, P!paging_map_mmio_region
    <3> QED BY <1>1, <2>1, <2>5, <3>2 DEF TablesInv
  <2> QED BY <1>1, <2>3, <2>4, <2>5
<1>4. CASE line' = line
  <2>1. CASE line > 3
    <3>1. ~paging_init
      BY <2>1, Where
    <3>2. cr3' = cr3
      BY <3>1, Writes DEF pagingVars, MapRegion, ParseTag, LapicMap, HpetMap, P!MapPage,
        P!RegionDone, P!paging_map_mmio_region
    <3> QED BY <1>1, <1>4, <2>1, <3>2 DEF TablesInv
  <2>2. CASE line <= 3
    <3>1. CASE paging_init
      <4>1. ppc' # "running"
        BY <1>1, <1>4, <3>1 DEF paging_init, PagingStops, Done
      <4> QED BY <1>1, <1>4, <2>2, <4>1 DEF TablesInv
    <3>2. CASE ~paging_init
      <4>1. UNCHANGED pagingVars
        <5>1. ppc # "running"
          BY <2>2 DEF TablesInv
        <5>2. ~MapRegion
          BY <5>1 DEF MapRegion
        <5> QED BY <2>2, <3>2, <5>2, Where, Writes
      <4> QED BY <1>4, <2>2, <4>1 DEF TablesInv, pagingVars
    <3> QED BY <3>1, <3>2
  <2> QED BY <1>1, <2>1, <2>2
<1> QED BY <1>3, <1>4

-----------------------------------------------------------------------------
(* The registers: a block that is mapped stays mapped, and a request ends  *)
(* with its block mapped.                                                  *)
LEMMA MappedKept ==
  ASSUME AllWellFormed, AllPlaced, WalkInv, PageInv, BootNext, NEW d \in Devices,
         MappedAll(d)
  PROVE  MappedAll(d)'
<1>1. PP!PagingAssumption /\ PP!InReach
  BY PagingFits, SameHypotheses DEF AllPlaced
<1>2. ASSUME NEW a \in Block(d) PROVE P!Translate(a)' = a
  <2>1. a \in PP!Addresses /\ a # P!NULL
    <3>1. a \in d[1]..(d[1] + d[2] - 1)
      BY DEF Block
    <3> QED BY <1>1, <3>1, PP!DeviceReach, SameValues
  <2>2. P!Translate(a) = a
    BY DEF MappedAll
  <2> QED BY <2>1, <2>2, PageStep
<1> QED BY <1>2 DEF MappedAll, Block

LEMMA RequestKept ==
  ASSUME AllWellFormed, AllPlaced, WalkInv, PageInv, ModeInv, BootNext,
         NEW d \in Devices, Requested(d), line \in {6, 10, 11}
  PROVE  (line' = line /\ Requested(d)') \/ MappedAll(d)'
<1>1. PP!PagingAssumption /\ PP!InReach
  BY PagingFits, SameHypotheses DEF AllPlaced
<1>2. job # P!NoJob /\ job.request = d
  BY DEF Requested
<1>3. ~paging_init /\ ~ParseTag /\ ~LapicSet /\ ~HpetSet
  BY <1>2, Where DEF ParseTag, LapicSet, HpetSet
<1>4. line' = line
  BY <1>3, Advance
<1>5. CASE UNCHANGED pagingVars
  BY <1>2, <1>4, <1>5 DEF pagingVars, Requested, P!NoJob
<1>6. CASE LapicMap \/ HpetMap
  <2>1. UNCHANGED pagingVars
    BY <1>2, <1>6 DEF LapicMap, HpetMap, P!paging_map_mmio_region
  <2> QED BY <1>5, <2>1
<1>7. CASE MapRegion
  <2>1. ppc = "running" /\ (PP!MapPage \/ PP!RegionDone)
    BY <1>7, SameSteps, SameMapPage DEF MapRegion
  <2>2. CASE PP!MapPage
    <3>1. job' # PP!NoJob /\ job'.request = job.request
      BY <1>1, <1>2, <2>1, <2>2, SameValues, PP!RequestGoesOn DEF PageInv
    <3> QED BY <1>2, <1>4, <3>1 DEF Requested, P!NoJob, PP!NoJob
  <2>3. CASE PP!RegionDone
    <3>1. \A a \in d[1]..(d[1] + d[2] - 1) : PP!Translate(a) = a
      BY <1>1, <1>2, <2>3, PP!StepDevice DEF PageInv
    <3>2. MappedAll(d)
      BY <3>1, SameTranslation DEF MappedAll, Block
    <3> QED BY <3>2, MappedKept
  <2> QED BY <2>1, <2>2, <2>3
<1> QED BY <1>3, <1>5, <1>6, <1>7, Writes

(* A driver's call of paging_map_mmio_region is a request.                 *)
LEMMA NowRequested ==
  ASSUME NEW a, NEW s, P!paging_map_mmio_region(a, s) PROVE Requested(<<a, s>>)'
<1>1. job' = [next |-> P!AlignDown(a, Page), end |-> P!LastPage(a, s),
              huge |-> FALSE, cache_disable |-> TRUE, request |-> <<a, s>>]
  BY DEF P!paging_map_mmio_region
<1>2. job'.cache_disable = TRUE /\ job'.request = <<a, s>>
  BY <1>1
<1>3. job' # P!NoJob
  BY <1>2 DEF P!NoJob
<1> QED BY <1>2, <1>3 DEF Requested, P!NoJob

LEMMA RegistersStep ==
  ASSUME AllWellFormed, AllPlaced, WalkInv, PageInv, ModeInv, PcInv, RegistersInv, BootNext
  PROVE  RegistersInv'
<1>1. image' = image /\ line \in 1..16 /\ image \in Images
  BY ImageKept DEF ModeInv, WalkInv
<1>2. /\ image.fb \in Devices /\ <<image.hpet, Page>> \in Devices
      /\ \A b \in LapicBases(image) : <<b, Page>> \in Devices
      /\ image.fb \in Nat \X Nat
  BY <1>1, DevicesOf
<1>3. ASSUME NEW d \in Devices, NEW n \in {6, 10, 11},
             MappedAll(d) \/ (line = n /\ Requested(d))
      PROVE  MappedAll(d)' \/ (line' = n /\ Requested(d)')
  <2>1. CASE MappedAll(d)
    BY <2>1, MappedKept
  <2>2. CASE line = n /\ Requested(d)
    <3>1. line \in {6, 10, 11}
      BY <2>2
    <3> QED BY <2>2, <3>1, RequestKept
  <2> QED BY <1>3, <2>1, <2>2
<1>4. fb' => MappedAll(image.fb)' \/ (line' = 6 /\ Requested(image.fb)')
  <2>1. PICK d \in Devices : d = image.fb /\ d \in Nat \X Nat
    BY <1>2
  <2>2. /\ MappedAll(image.fb)' <=> MappedAll(d)'
        /\ Requested(image.fb)' <=> Requested(d)'
    BY <1>1, <2>1 DEF MappedAll, Block, Requested
  <2>3. CASE fb' => fb
    <3>1. fb => MappedAll(d) \/ (line = 6 /\ Requested(d))
      BY <2>1 DEF RegistersInv
    <3>2. fb => MappedAll(d)' \/ (line' = 6 /\ Requested(d)')
      BY <1>3, <3>1
    <3> QED BY <2>2, <2>3, <3>2
  <2>4. CASE ~(fb' => fb)
    <3>1. ParseTag
      BY <2>4, BootWalks, Writes DEF vars, ParseAcpi, LapicMap, HpetMap, get_acpi_rsdp, acpi_init,
        acpi_parse_tables, madt_parse, TablesDone, lapic_init, hpet_init
    <3>2. Tag.type = "FRAMEBUFFER" /\ pc' = pc /\ pc = "mb2_parse" /\ line = 6
      BY <2>4, <3>1, Where DEF ParseTag, mb2_parse
    <3>3. line' = 6 /\ P!paging_map_mmio_region(image.fb[1], image.fb[2])
      BY <3>1, <3>2 DEF ParseTag, Stay
    <3>4. Requested(<<d[1], d[2]>>)'
      BY <2>1, <3>3, NowRequested
    <3>5. d = <<d[1], d[2]>>
      BY <2>1
    <3> QED BY <2>2, <3>3, <3>4, <3>5 DEF Requested
  <2> QED BY <2>3, <2>4
<1>5. pc' \in {"hpet_init", "booted"} =>
        /\ lapic_base' \in LapicBases(image)
        /\ \/ MappedAll(<<lapic_base, Page>>)'
           \/ line' = 10 /\ Requested(<<lapic_base, Page>>)'
  <2>1. CASE LapicMap
    <3>1. /\ P!paging_map_mmio_region(lapic_base', Page) /\ lapic_base' \in LapicBases(image)
          /\ line = 10 /\ line' = line
      BY <2>1, BaseFound, Where DEF LapicMap, lapic_init, Stay
    <3>2. PICK b : b = lapic_base'
      OBVIOUS
    <3>3. Requested(<<b, Page>>)'
      BY <3>1, <3>2, NowRequested
    <3> QED BY <3>1, <3>2, <3>3 DEF Requested
  <2>2. CASE ~LapicMap
    <3>1. lapic_base' = lapic_base
          /\ (pc' \in {"hpet_init", "booted"} => pc \in {"hpet_init", "booted"})
      BY <2>2, Writes DEF vars, ParseTag, ParseAcpi, HpetMap, mb2_parse, get_acpi_rsdp, acpi_init,
        acpi_parse_tables, madt_parse, TablesDone, hpet_init
    <3>2. ASSUME pc \in {"hpet_init", "booted"}
          PROVE  /\ lapic_base' \in LapicBases(image)
                 /\ \/ MappedAll(<<lapic_base, Page>>)'
                    \/ line' = 10 /\ Requested(<<lapic_base, Page>>)'
      <4>1. /\ lapic_base \in LapicBases(image)
            /\ \/ MappedAll(<<lapic_base, Page>>)
               \/ line = 10 /\ Requested(<<lapic_base, Page>>)
        BY <3>2 DEF RegistersInv
      <4>2. PICK d \in Devices : d = <<lapic_base, Page>>
        BY <1>2, <4>1
      <4>3. MappedAll(d)' \/ (line' = 10 /\ Requested(d)')
        BY <1>3, <4>1, <4>2
      <4>4. d = <<lapic_base', Page>>
        BY <3>1, <4>2
      <4> QED BY <3>1, <4>1, <4>3, <4>4 DEF MappedAll, Block, Requested
    <3> QED BY <3>1, <3>2
  <2> QED BY <2>1, <2>2
<1>6. pc' = "booted" =>
        \/ MappedAll(<<image.hpet, Page>>)'
        \/ line' = 11 /\ Requested(<<image.hpet, Page>>)'
  <2>1. PICK d \in Devices : d = <<image.hpet, Page>>
    BY <1>2
  <2>2. /\ MappedAll(<<image.hpet, Page>>)' <=> MappedAll(d)'
        /\ Requested(<<image.hpet, Page>>)' <=> Requested(d)'
    BY <1>1, <2>1 DEF MappedAll, Block, Requested
  <2>3. CASE pc = "booted"
    <3>1. MappedAll(d) \/ (line = 11 /\ Requested(d))
      BY <2>1, <2>3 DEF RegistersInv
    <3> QED BY <1>3, <2>2, <3>1
  <2>4. CASE pc # "booted" /\ pc' = "booted"
    <3>1. HpetMap
      BY <2>4, Writes DEF vars, ParseTag, ParseAcpi, LapicMap, mb2_parse, get_acpi_rsdp, acpi_init,
        acpi_parse_tables, madt_parse, TablesDone, lapic_init
    <3>2. P!paging_map_mmio_region(image.hpet, Page) /\ line = 11 /\ line' = line
      BY <2>4, <3>1, Where DEF HpetMap, Stay
    <3>3. Requested(<<d[1], d[2]>>)'
      BY <2>1, <3>2, NowRequested
    <3>4. <<d[1], d[2]>> = d
      BY <2>1
    <3> QED BY <2>2, <3>2, <3>3, <3>4 DEF Requested
  <2> QED BY <2>3, <2>4
<1> QED BY <1>1, <1>4, <1>5, <1>6 DEF RegistersInv, MappedAll, Block, Requested, LapicBases

-----------------------------------------------------------------------------
(* What is ready when.                                                     *)
LEMMA MemoryReady ==
  ASSUME AllWellFormed, AllPlaced, WalkInv, PageInv
  PROVE  /\ ReadyFor("kernel") /\ ReadyFor("info")
         /\ cr3 # P!NULL =>
              /\ Mapped(Trampoline)
              /\ \A r \in DOMAIN image.roots :
                   /\ Mapped(image.roots[r].addr)
                   /\ \A t \in DOMAIN image.roots[r].tables : Mapped(image.roots[r].tables[t].addr)
<1>1. PP!PagingAssumption /\ PP!InReach /\ Placed(image)
  BY PagingFits, SameHypotheses DEF AllPlaced, WalkInv
<1>2. /\ KernelStart \in Nat /\ KernelEnd \in Nat /\ KernelStart < KernelEnd
      /\ KernelEnd <= Page * Fan * Fan /\ Page * Fan \in Nat /\ Trampoline \in 0..(Page * Fan - 1)
      /\ Page * Fan * Fan \in Nat
  BY BootAssumption DEF BootAssumption
<1>3. P!HugePage = Page * Fan /\ PP!HugePage = Page * Fan
  BY DEF P!HugePage, PP!HugePage
<1>4. KernelStart \in KernelStart..(KernelEnd - 1) /\ KernelEnd - 1 \in KernelStart..(KernelEnd - 1)
  BY <1>2
<1>5. image.info \in Nat /\ image.info < P!HugePage * Fan
  BY <1>1 DEF Placed
<1>6. CASE cr3 = P!NULL
  <2> DEFINE top == Page * Fan * Fan
  <2>1. P!HugePage * Fan = top
    BY <1>3
  <2>2. KernelEnd <= top /\ top \in Nat
    BY <1>2
  <2> HIDE DEF top
  <2>3. KernelStart < top /\ KernelEnd - 1 < top /\ image.info < top
    BY <1>2, <1>5, <2>1, <2>2
  <2>4. Mapped(KernelStart) /\ Mapped(KernelEnd - 1) /\ Mapped(image.info)
    BY <1>6, <2>1, <2>3 DEF Mapped
  <2> QED BY <1>6, <2>4 DEF ReadyFor
<1>7. CASE cr3 # P!NULL
  <2>1. cr3 # PP!NULL /\ PP!IInv
    BY <1>7, SameValues DEF PageInv
  <2>2. PP!KernelStaysMapped
    BY <1>1, <2>1, PP!InvKernel
  <2>3. /\ \A a \in 0..(PP!HugePage - 1) : PP!Translate(a) = a
        /\ \A a \in KernelStart..(KernelEnd - 1) : PP!Translate(a) = a
    BY <2>1, <2>2 DEF PP!KernelStaysMapped
  <2>4. ASSUME NEW a, PP!Translate(a) = a PROVE Mapped(a)
    BY <1>7, <2>4, SameTranslation DEF Mapped
  <2>5. Mapped(KernelStart) /\ Mapped(KernelEnd - 1) /\ Mapped(Trampoline)
    BY <1>2, <1>3, <1>4, <2>3, <2>4
  <2>6. ASSUME NEW a \in Nat, P!InRegion(image.mmap, a \div P!HugePage) PROVE Mapped(a)
    <3>1. PP!InRegion(mmap, a \div PP!HugePage)
      BY <2>6, <1>3, SameHypotheses DEF PageInv
    <3> QED BY <1>1, <2>1, <2>4, <3>1, PP!RegionMapped
  <2>7. Mapped(image.info)
    BY <1>1, <2>6 DEF Placed
  <2>8. ASSUME NEW r \in DOMAIN image.roots
        PROVE  /\ Mapped(image.roots[r].addr)
               /\ \A t \in DOMAIN image.roots[r].tables : Mapped(image.roots[r].tables[t].addr)
    <3> DEFINE Addrs(q) == {image.roots[q].tables[t].addr : t \in DOMAIN image.roots[q].tables}
    <3>1. \A a \in {image.info} \cup {image.roots[q].addr : q \in DOMAIN image.roots}
                     \cup UNION {Addrs(q) : q \in DOMAIN image.roots} :
            a \in Nat /\ P!InRegion(image.mmap, a \div P!HugePage)
      BY <1>1 DEF Placed
    <3>2. \A t \in DOMAIN image.roots[r].tables : image.roots[r].tables[t].addr \in Addrs(r)
      OBVIOUS
    <3> HIDE DEF Addrs
    <3>3. \A a \in Addrs(r) : Mapped(a)
      BY <2>6, <3>1
    <3>4. Mapped(image.roots[r].addr)
      BY <2>6, <3>1
    <3> QED BY <3>2, <3>3, <3>4
  <2> QED BY <2>5, <2>7, <2>8 DEF ReadyFor
<1> QED BY <1>6, <1>7

LEMMA PartsReady ==
  ASSUME AllWellFormed, AllPlaced, WalkInv, ReadyInv
  PROVE  /\ mode \notin {"start", "M", "C", "L"} => ReadyFor("cpu")
         /\ line > 1 => ReadyFor("klog")
         /\ line > 6 => \A a \in FrameBuffer : Mapped(a)
         /\ (line > 11 \/ (line = 10 /\ pc # "lapic_init" /\ job = P!NoJob)) => ReadyFor("lapic")
         /\ (line > 11 \/ (line = 11 /\ pc = "booted" /\ job = P!NoJob)) => Mapped(image.hpet)
         /\ line > 11 => ReadyFor("hpet")
         /\ line > 8 => ReadyFor("interrupts")
         /\ line > 12 => ReadyFor("idle")
<1>1. /\ ModeInv /\ PcInv /\ TablesInv /\ PartsInv /\ RegistersInv /\ TimerInv /\ line \in 1..16
  BY DEF ReadyInv, ModeInv
<1>2. line > 3 => \A a : Mapped(a) <=> P!Translate(a) = a
  BY <1>1 DEF TablesInv, Mapped
<1>3. Placed(image) /\ Page \in Nat \ {0}
  BY BootAssumption DEF AllPlaced, WalkInv, BootAssumption
<1>4. mode \notin {"start", "M", "C", "L"} => ReadyFor("cpu")
  BY <1>1 DEF ModeInv, ReadyFor
<1>5. line > 6 => \A a \in FrameBuffer : Mapped(a)
  <2>1. line > 6 /\ fb => MappedAll(image.fb) /\ line > 3
    BY <1>1 DEF RegistersInv
  <2> QED BY <1>2, <2>1 DEF FrameBuffer, MappedAll, Block
<1>6. line > 1 => ReadyFor("klog")
  <2>1. line > 1 => SerialReady
    BY <1>1 DEF PartsInv
  <2>2. console => line > 6
    BY <1>1 DEF PartsInv
  <2> QED BY <1>5, <2>1, <2>2 DEF ReadyFor
<1>7. ASSUME line > 11 \/ (line = 10 /\ pc # "lapic_init" /\ job = P!NoJob) PROVE ReadyFor("lapic")
  <2>1. CASE pc \in {"hpet_init", "booted"}
    <3>1. lapic_base \in LapicBases(image) /\ MappedAll(<<lapic_base, Page>>)
      BY <1>1, <1>7, <2>1 DEF RegistersInv, Requested
    <3>2. lapic_base \in Nat /\ lapic_base # 0
      <4>1. LapicBases(image) \subseteq Nat
        BY BasesNat DEF AllWellFormed, WalkInv
      <4> QED BY <1>3, <3>1, <4>1 DEF Placed
    <3>3. lapic_base \in Block(<<lapic_base, Page>>)
      BY <1>3, <3>2 DEF Block
    <3>4. Mapped(lapic_base)
      BY <1>1, <1>2, <1>7, <3>1, <3>3 DEF MappedAll
    <3> QED BY <3>2, <3>4 DEF ReadyFor
  <2>2. CASE pc \notin {"hpet_init", "booted"}
    BY <1>1, <1>7, <2>2 DEF PcInv
  <2> QED BY <2>1, <2>2
<1>8. ASSUME line > 11 \/ (line = 11 /\ pc = "booted" /\ job = P!NoJob) PROVE Mapped(image.hpet)
  <2>1. MappedAll(<<image.hpet, Page>>) /\ line > 3
    BY <1>1, <1>8 DEF PcInv, RegistersInv, Requested
  <2>2. image.hpet \in Block(<<image.hpet, Page>>)
    <3>1. image.hpet \in Nat
      BY DevicesOf DEF WalkInv
    <3> QED BY <1>3, <3>1 DEF Block
  <2> QED BY <1>2, <2>1, <2>2 DEF MappedAll
<1>9. ASSUME line > 11 PROVE ReadyFor("hpet")
  <2>1. hpet_freq = FsPerSec \div image.period /\ image.period \in 1..FsPerSec
    BY <1>1, <1>3, <1>9 DEF TimerInv, Placed
  <2>2. FsPerSec \in Nat
    BY HpetAssumption DEF HpetAssumption
  <2>3. FsPerSec \div image.period # 0
    <3> DEFINE q == FsPerSec \div image.period
    <3>1. image.period \in Nat \ {0}
      BY <2>1, <2>2
    <3>2. q \in Nat /\ FsPerSec % image.period \in 0..(image.period - 1)
          /\ FsPerSec = q * image.period + (FsPerSec % image.period)
      BY <2>2, <3>1, DivMod
    <3> HIDE DEF q
    <3>3. q # 0
      BY <2>1, <2>2, <3>1, <3>2
    <3> QED BY <3>3 DEF q
  <2> QED BY <1>8, <1>9, <2>1, <2>3 DEF ReadyFor
<1>10. line > 8 => ReadyFor("interrupts")
  BY <1>1 DEF PartsInv, ReadyFor
<1>11. line > 12 => ReadyFor("idle")
  BY <1>1 DEF PartsInv, ReadyFor
<1> QED BY <1>4, <1>5, <1>6, <1>7, <1>8, <1>9, <1>10, <1>11

(* A step that uses only what is ready is no fault.                        *)
LEMMA NoFault ==
  ASSUME NEW parts, NEW bytes, NEW addresses, Uses(parts, bytes, addresses), UsedWhenReady,
         ReadyFor("cpu"), ReadyFor("kernel"), \A p \in parts : ReadyFor(p),
         bytes <= heap, \A a \in addresses : Mapped(a)
  PROVE  UsedWhenReady'
<1>1. {p \in parts \cup {"cpu", "kernel"} : ~ReadyFor(p)} = {}
  OBVIOUS
<1>2. /\ (IF bytes <= heap THEN {} ELSE {"heap"}) = {}
      /\ (IF \A a \in addresses : Mapped(a) THEN {} ELSE {"memory"}) = {}
  OBVIOUS
<1> QED BY <1>1, <1>2 DEF Uses, UsedWhenReady

(* The heap has what is asked of it.                                       *)
LEMMA HeapReady ==
  ASSUME ModeInv, HeapInv
  PROVE  /\ 0 <= heap
         /\ line = 7 => ConsoleSize <= heap
         /\ line = 12 => MaxCpus * TaskSize <= heap
         /\ line = 15 => NTasks * TaskSize <= heap
<1> DEFINE c == ConsoleSize  a == MaxCpus * TaskSize  b == NTasks * TaskSize
           ab == (MaxCpus + NTasks) * TaskSize
<1>1. c \in Nat /\ a \in Nat /\ b \in Nat /\ ab = a + b
  BY BootAssumption DEF BootAssumption
<1>2. heap \in Nat /\ heap >= Needs(line)
  BY DEF HeapInv
<1>3. Needs(7) = c + ab /\ Needs(12) = ab /\ Needs(15) = b
  BY DEF Needs
<1> HIDE DEF c, a, b, ab
<1>4. 0 <= heap /\ (line = 7 => c <= heap) /\ (line = 12 => a <= heap) /\ (line = 15 => b <= heap)
  BY <1>1, <1>2, <1>3
<1> QED BY <1>4 DEF c, a, b

LEMMA TablesReady ==
  ASSUME AllWellFormed, AllPlaced, WalkInv, PageInv, cr3 # P!NULL, InRoot
  PROVE  /\ Mapped(root.addr)
         /\ \A t \in 1..Len(root.tables) : Mapped(root.tables[t].addr)
<1>1. PICK r \in DOMAIN image.roots : root = image.roots[r]
  BY DEF InRoot
<1>2. DOMAIN root.tables = 1..Len(root.tables)
  <2>1. WellFormed(image)
    BY DEF AllWellFormed, WalkInv
  <2>2. root \in RootRecord
    BY <1>1, <2>1, LenProperties, ElementOfSeq DEF WellFormed
  <2> QED BY <2>2, LenProperties DEF RootRecord
<1> QED BY <1>1, <1>2, MemoryReady

LEMMA UsesStep ==
  ASSUME AllWellFormed, AllPlaced, WalkInv, PageInv, ReadyInv, BootNext
  PROVE  UsedWhenReady'
<1>1. /\ ModeInv /\ PcInv /\ TablesInv /\ HeapInv /\ SmpInv /\ UsedWhenReady /\ line \in 1..16
      /\ image' = image
  BY ImageKept DEF ReadyInv, ModeInv
<1>2. ReadyFor("kernel") /\ ReadyFor("info")
  BY MemoryReady
<1>3. mode = "kernel_main" => ReadyFor("cpu")
  BY PartsReady
<1>4. 0 <= heap
  BY <1>1, HeapReady
<1>5. CASE start \/ HpetWake \/ HpetTick
  BY <1>1, <1>5 DEF start, HpetWake, HpetTick, UsedWhenReady
<1>6. CASE serial_init \/ kalloc_init \/ CheckMagic \/ MapRegion
  <2>1. Uses({}, 0, {}) /\ mode = "kernel_main"
    BY <1>1, <1>6, Where DEF serial_init, kalloc_init, CheckMagic, MapRegion
  <2> QED BY <1>1, <1>2, <1>3, <1>4, <2>1, NoFault
<1>7. CASE idt_init \/ pic_disable
  <2>1. Uses({"klog"}, 0, {}) /\ mode = "kernel_main" /\ line > 1
    <3>1. Uses({"klog"}, 0, {})
      BY <1>7 DEF idt_init, pic_disable
    <3>2. mode = "kernel_main" /\ (line = 2 \/ line = 8)
      BY <1>1, <1>7, Where
    <3> QED BY <3>1, <3>2
  <2> QED BY <1>1, <1>2, <1>3, <1>4, <2>1, PartsReady, NoFault
<1>8. CASE paging_init \/ ParseTag
  <2>1. Uses({"info", "klog"}, 0, {}) /\ mode = "kernel_main" /\ line > 1
    BY <1>1, <1>8, Where DEF paging_init, ParseTag
  <2> QED BY <1>1, <1>2, <1>3, <1>4, <2>1, PartsReady, NoFault
<1>9. CASE console_init
  <2>1. mode = "kernel_main" /\ line = 7
    BY <1>1, <1>9, Where
  <2>2. PICK bytes \in {0, ConsoleSize} : Uses({"klog"}, bytes, FrameBuffer)
    BY <1>9 DEF console_init
  <2>3. bytes <= heap
    BY <1>1, <1>4, <2>1, <2>2, HeapReady
  <2>4. ReadyFor("klog") /\ \A a \in FrameBuffer : Mapped(a)
    BY <2>1, PartsReady
  <2> QED BY <1>1, <1>2, <1>3, <2>1, <2>2, <2>3, <2>4, NoFault
<1>10. CASE ParseAcpi
  <2>1. mode = "kernel_main" /\ line = 9 /\ cr3 # P!NULL
    BY <1>1, <1>10, Where DEF TablesInv
  <2> DEFINE A == IF root'.length = 0 THEN {}
                  ELSE {root'.addr} \cup (IF i' = 0 THEN {} ELSE {root'.tables[i'].addr})
  <2>2. Uses({"info", "klog"}, 0, A)
    BY <1>10 DEF ParseAcpi
  <2>3. WalkInv'
    BY BootWalks, WalkStep
  <2>4. (NoRoot \/ InRoot)'
    BY <2>3 DEF WalkInv
  <2>5. \A a \in A : Mapped(a)
    <3>1. CASE NoRoot'
      <4>1. root'.length = 0
        BY <3>1 DEF NoRoot
      <4> QED BY <4>1
    <3>2. CASE InRoot'
      <4>1. PICK r \in DOMAIN image.roots : root' = image.roots[r]
        BY <1>1, <3>2 DEF InRoot
      <4>2. i' \in 0..Len(root'.tables)
        BY <3>2 DEF InRoot
      <4>3. /\ Mapped(image.roots[r].addr)
            /\ \A t \in DOMAIN image.roots[r].tables : Mapped(image.roots[r].tables[t].addr)
        BY <2>1, MemoryReady
      <4>4. DOMAIN image.roots[r].tables = 1..Len(image.roots[r].tables)
            /\ Len(image.roots[r].tables) \in Nat
        <5>1. WellFormed(image)
          BY DEF AllWellFormed, WalkInv
        <5>2. image.roots[r] \in RootRecord
          BY <5>1, LenProperties, ElementOfSeq DEF WellFormed
        <5> QED BY <5>2, LenProperties DEF RootRecord
      <4>5. i' # 0 => Mapped(root'.tables[i'].addr)
        BY <4>1, <4>2, <4>3, <4>4
      <4>6. Mapped(root'.addr)
        BY <4>1, <4>3
      <4> QED BY <4>5, <4>6
    <3> QED BY <2>4, <3>1, <3>2
  <2>6. ReadyFor("klog")
    BY <2>1, PartsReady
  <2> HIDE DEF A
  <2> QED BY <1>1, <1>2, <1>3, <1>4, <2>1, <2>2, <2>5, <2>6, NoFault
<1>11. CASE LapicMap
  <2>1. mode = "kernel_main" /\ line = 10 /\ cr3 # P!NULL /\ pc = "lapic_init"
    BY <1>1, <1>11, Where DEF TablesInv, LapicMap, lapic_init
  <2>2. InRoot /\ madt_table \in 1..Len(root.tables)
    BY <2>1 DEF WalkInv, AllLooked, InRoot
  <2>3. Mapped(root.tables[madt_table].addr)
    BY <2>1, <2>2, TablesReady
  <2>4. Uses({}, 0, {root.tables[madt_table].addr})
    BY <1>11 DEF LapicMap
  <2> QED BY <1>1, <1>2, <1>3, <1>4, <2>1, <2>3, <2>4, NoFault
<1>12. CASE LapicSet
  <2>1. mode = "kernel_main" /\ line = 10 /\ pc # "lapic_init" /\ job = P!NoJob
    BY <1>1, <1>12, Where DEF LapicSet
  <2>2. ReadyFor("lapic") /\ ReadyFor("klog")
    BY <2>1, PartsReady
  <2>3. Uses({"lapic", "klog"}, 0, {})
    BY <1>12 DEF LapicSet
  <2> QED BY <1>1, <1>2, <1>3, <1>4, <2>1, <2>2, <2>3, NoFault
<1>13. CASE HpetMap
  <2>1. mode = "kernel_main" /\ line = 11 /\ cr3 # P!NULL /\ pc = "hpet_init"
    BY <1>1, <1>13, Where DEF TablesInv, HpetMap, hpet_init
  <2>2. CASE pc' = "panic"
    <3>1. Uses({"klog"}, 0, {}) /\ ReadyFor("klog")
      BY <1>13, <2>1, <2>2, PartsReady DEF HpetMap
    <3> QED BY <1>1, <1>2, <1>3, <1>4, <2>1, <3>1, NoFault
  <2>3. CASE pc' # "panic"
    <3>1. hpet_table # NULL /\ Uses({}, 0, {root.tables[hpet_table].addr})
      BY <1>13, <2>3 DEF HpetMap, hpet_init
    <3>2. InRoot /\ hpet_table \in 1..Len(root.tables)
      BY <2>1, <3>1 DEF WalkInv, AllLooked, InRoot, NULL
    <3>3. Mapped(root.tables[hpet_table].addr)
      BY <2>1, <3>2, TablesReady
    <3> QED BY <1>1, <1>2, <1>3, <1>4, <2>1, <3>1, <3>3, NoFault
  <2> QED BY <2>2, <2>3
<1>14. CASE HpetSet
  <2>1. mode = "kernel_main" /\ line = 11 /\ pc = "booted" /\ job = P!NoJob
    BY <1>1, <1>14, Where DEF HpetSet
  <2>2. Uses({"klog"}, 0, {image.hpet}) /\ ReadyFor("klog") /\ Mapped(image.hpet)
    BY <1>14, <2>1, PartsReady DEF HpetSet
  <2> QED BY <1>1, <1>2, <1>3, <1>4, <2>1, <2>2, NoFault
<1>15. CASE scheduler_init \/ kernel_main_tasks
  <2>1. PICK n \in {MaxCpus, NTasks} :
          /\ Uses({"klog"}, n * TaskSize, {}) /\ n * TaskSize <= heap
          /\ mode = "kernel_main" /\ ReadyFor("klog")
    <3>1. CASE scheduler_init
      BY <1>1, <3>1, Where, HeapReady, PartsReady DEF scheduler_init, CreateTasks
    <3>2. CASE kernel_main_tasks
      BY <1>1, <3>2, Where, HeapReady, PartsReady DEF kernel_main_tasks, CreateTasks
    <3> QED BY <1>15, <3>1, <3>2
  <2> QED BY <1>1, <1>2, <1>3, <2>1, NoFault
<1>16. CASE x86_enable_interrupts
  <2>1. mode = "kernel_main" /\ line = 14 /\ Uses({"interrupts", "lapic", "idle"}, 0, {})
    BY <1>1, <1>16, Where DEF x86_enable_interrupts
  <2>2. ReadyFor("interrupts") /\ ReadyFor("lapic") /\ ReadyFor("idle")
    BY <2>1, PartsReady
  <2> QED BY <1>1, <1>2, <1>3, <1>4, <2>1, <2>2, NoFault
<1>17. CASE cpu_enter_worker
  <2>1. mode = "kernel_main" /\ line = 16 /\ Uses({"lapic", "idle", "klog"}, 0, {})
    BY <1>1, <1>17, Where DEF cpu_enter_worker
  <2>2. ReadyFor("klog") /\ ReadyFor("lapic") /\ ReadyFor("idle")
    BY <2>1, PartsReady
  <2> QED BY <1>1, <1>2, <1>3, <1>4, <2>1, <2>2, NoFault
<1>18. CASE smp_init
  <2>1. mode = "kernel_main" /\ line = 13 /\ cr3 # P!NULL
    BY <1>1, <1>18, Where DEF TablesInv
  <2>2. ReadyFor("klog") /\ ReadyFor("lapic") /\ ReadyFor("hpet") /\ Mapped(Trampoline)
    BY <2>1, PartsReady, MemoryReady
  <2>3. PICK parts \in SUBSET {"klog", "lapic", "hpet"}, addresses \in SUBSET {Trampoline} :
          Uses(parts, 0, addresses)
    BY <1>18 DEF smp_init, SmpInitIpi, SmpSipi, SmpWait, SmpDone
  <2> QED BY <1>1, <1>2, <1>3, <1>4, <2>1, <2>2, <2>3, NoFault
<1>19. CASE Ap
  <2>1. PICK id \in DOMAIN ap : ap_main(id) \/ ApWorker(id)
    BY <1>19 DEF Ap
  <2>2. ap[id] # "off"
    BY <2>1 DEF ap_main, ApWorker
  <2>3. line >= 13
    BY <1>1, <2>2 DEF SmpInv
  <2>4. /\ mode \notin {"start", "M", "C", "L"} /\ pc = "booted" /\ cr3 # P!NULL
    BY <1>1, <2>3 DEF ModeInv, PcInv, TablesInv
  <2>5. /\ ReadyFor("cpu") /\ ReadyFor("klog") /\ ReadyFor("lapic") /\ ReadyFor("idle")
        /\ Mapped(Trampoline)
    BY <1>1, <2>3, <2>4, PartsReady, MemoryReady
  <2>6. InRoot /\ madt_table \in 1..Len(root.tables)
    BY <2>4 DEF WalkInv, AllLooked, InRoot
  <2>7. Mapped(root.tables[madt_table].addr)
    BY <2>4, <2>6, TablesReady
  <2>8. \/ Uses({"lapic", "klog"}, 0, {Trampoline, root.tables[madt_table].addr})
        \/ Uses({"lapic", "klog", "idle"}, 0, {})
    BY <2>1 DEF ap_main, ApWorker
  <2> QED BY <1>1, <1>2, <1>4, <2>5, <2>7, <2>8, NoFault
<1> QED BY <1>5, <1>6, <1>7, <1>8, <1>9, <1>10, <1>11, <1>12, <1>13, <1>14, <1>15, <1>16, <1>17,
       <1>18, <1>19 DEF BootNext, Bsp, Setup

-----------------------------------------------------------------------------
ReadyIInv == WalkInv /\ PageInv /\ ReadyInv

(* No step of the boot, on the boot CPU or another, uses a part of the     *)
(* kernel, memory or registers that are not ready for it, on any machine   *)
(* that is well formed and placed as the kernel expects, however the       *)
(* memory map, the page tables' pool and the tables of the firmware look,  *)
(* if the heap has room for the console and the tasks.                     *)
THEOREM UsedWhenReadyHolds ==
  ASSUME AllWellFormed, AllPlaced, HeapFits PROVE BootSpec => []UsedWhenReady
<1>1. BootInit => ReadyIInv
  <2> SUFFICES ASSUME BootInit PROVE ReadyIInv
    OBVIOUS
  <2>1. WalkInv /\ PageInv
    BY WalkInit, PageInit DEF BootInit
  <2>2. line = 1 /\ mode = "start" /\ pc = "mb2_parse" /\ ppc = "boot" /\ fb = FALSE
        /\ console = FALSE /\ heap = 0 /\ faults = {}
        /\ uart = Uart(FALSE, 12, 0, 1, 0)
    BY DEF BootInit, Init, Uart
  <2>3. SmpInv
    BY DEF BootInit, HpetInit, SmpInv
  <2>4. HeapInv
    BY <2>2 DEF HeapInv, Needs
  <2>5. ModeInv /\ PcInv /\ TablesInv /\ PartsInv /\ RegistersInv /\ TimerInv /\ UsedWhenReady
    BY <2>2 DEF ModeInv, PcInv, TablesInv, PartsInv, RegistersInv, TimerInv, UsedWhenReady
  <2> QED BY <2>1, <2>3, <2>4, <2>5 DEF ReadyIInv, ReadyInv
<1>2. ReadyIInv /\ [BootNext]_bootVars => ReadyIInv'
  <2>1. ASSUME ReadyIInv, BootNext PROVE ReadyIInv'
    <3>1. /\ WalkInv /\ PageInv /\ ReadyInv /\ ModeInv /\ PcInv /\ TablesInv /\ PartsInv
          /\ HeapInv /\ RegistersInv /\ TimerInv /\ SmpInv
      BY <2>1 DEF ReadyIInv, ReadyInv
    <3>2. WalkInv' /\ PageInv'
      BY <2>1, <3>1, BootWalks, WalkStep, PageStep
    <3>3. ModeInv' /\ PcInv' /\ TablesInv' /\ PartsInv'
      BY <2>1, <3>1, ModeStep, PcStep, TablesStep, PartsStep
    <3>4. HeapInv' /\ RegistersInv' /\ TimerInv' /\ SmpInv' /\ UsedWhenReady'
      BY <2>1, <3>1, HeapStep, RegistersStep, TimerStep, SmpStep, UsesStep
    <3> QED BY <3>2, <3>3, <3>4 DEF ReadyIInv, ReadyInv
  <2>2. ASSUME ReadyIInv, UNCHANGED bootVars PROVE ReadyIInv'
    <3>1. UNCHANGED <<vars, hpetVars, pagingVars, partVars, smpVars, mode, line, faults>>
      BY <2>2 DEF bootVars
    <3>2. WalkInv'
      BY <2>2, <3>1, WalkStep DEF ReadyIInv
    <3>3. PageInv'
      <4>1. UNCHANGED PP!vars
        BY <3>1 DEF pagingVars, PP!vars
      <4>2. PP!IInv'
        BY <2>2, <4>1, PagingFits, PP!Unchanged DEF ReadyIInv, PageInv
      <4> QED BY <2>2, <3>1, <4>2 DEF ReadyIInv, PageInv, pagingVars, vars
    <3>4. (ModeInv /\ PcInv /\ HeapInv /\ TimerInv /\ SmpInv /\ UsedWhenReady)'
      <4>1. (ModeInv /\ PcInv)'
        BY <2>2, <3>1 DEF ReadyIInv, ReadyInv, vars, ModeInv, PcInv
      <4>2. HeapInv' /\ UsedWhenReady'
        BY <2>2, <3>1 DEF ReadyIInv, ReadyInv, partVars, HeapInv, Needs, UsedWhenReady
      <4>3. TimerInv' /\ SmpInv'
        BY <2>2, <3>1 DEF ReadyIInv, ReadyInv, vars, hpetVars, smpVars, TimerInv, SmpInv, Awake
      <4> QED BY <4>1, <4>2, <4>3
    <3>5. PartsInv'
      <4>1. UNCHANGED <<line, uart, gates, masked, console, idle>>
        BY <3>1 DEF partVars
      <4>2. SerialReady' <=> SerialReady
        BY <4>1 DEF SerialReady
      <4>3. PartsInv
        BY <2>2 DEF ReadyIInv, ReadyInv
      <4> QED BY <4>1, <4>2, <4>3 DEF PartsInv
    <3>6. TablesInv' /\ RegistersInv'
      <4>1. UNCHANGED <<line, image, fb, pc, lapic_base, ppc, cr3, g_pml4, mem, job>>
        BY <3>1 DEF vars, pagingVars
      <4>2. ASSUME NEW a PROVE P!Translate(a)' = P!Translate(a)
        BY <4>1 DEF P!Translate, P!Lookup
      <4>3. ASSUME NEW d PROVE /\ MappedAll(d)' <=> MappedAll(d)
                               /\ Requested(d)' <=> Requested(d)
        BY <4>1, <4>2 DEF MappedAll, Requested, P!NoJob
      <4>4. PICK f, l, h : f = image.fb /\ l = <<lapic_base, Page>> /\ h = <<image.hpet, Page>>
        OBVIOUS
      <4>5. /\ MappedAll(image.fb)' <=> MappedAll(f)'
            /\ Requested(image.fb)' <=> Requested(f)'
            /\ MappedAll(<<lapic_base, Page>>)' <=> MappedAll(l)'
            /\ Requested(<<lapic_base, Page>>)' <=> Requested(l)'
            /\ MappedAll(<<image.hpet, Page>>)' <=> MappedAll(h)'
            /\ Requested(<<image.hpet, Page>>)' <=> Requested(h)'
        BY <4>1, <4>4 DEF MappedAll, Block, Requested
      <4>6. TablesInv /\ RegistersInv
        BY <2>2 DEF ReadyIInv, ReadyInv
      <4>7. TablesInv'
        BY <4>1, <4>6 DEF TablesInv, P!NULL
      <4>8. LapicBases(image)' = LapicBases(image)
        BY <4>1 DEF LapicBases
      <4> QED BY <4>1, <4>3, <4>4, <4>5, <4>6, <4>7, <4>8 DEF RegistersInv
    <3> QED BY <3>2, <3>3, <3>4, <3>5, <3>6 DEF ReadyIInv, ReadyInv
  <2> QED BY <2>1, <2>2
<1>3. ReadyIInv => UsedWhenReady
  BY DEF ReadyIInv, ReadyInv
<1> QED BY <1>1, <1>2, <1>3, PTL DEF BootSpec
=============================================================================
