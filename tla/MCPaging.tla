------------------------------ MODULE MCPaging ------------------------------
(* Page tables of 4 entries and pages of 2 bytes, so that a large page is  *)
(* 8 bytes and the tables reach 512.  As in the kernel the image starts    *)
(* half a large page up.  The last memory map needs more tables than the   *)
(* pool has.                                                               *)
EXTENDS Paging

MCMemoryMaps ==
  { << >>,
    <<<<0, 3>>, <<5, 55>>>>,
    <<<<0, 7>>, <<8, 40>>, <<130, 21>>>>,
    <<<<17, 14>>, <<140, 1>>, <<270, 1>>, <<400, 1>>>> }

(* Frame buffer, LAPIC and HPET: one that straddles pages, two that share  *)
(* a large page, one under another top entry.                              *)
MCDevices == {<<101, 6>>, <<112, 2>>, <<117, 1>>, <<252, 2>>}

(* Registers in the large page that usable memory is rounded up to.        *)
MCRoundedDevices == {<<61, 2>>}
=============================================================================
