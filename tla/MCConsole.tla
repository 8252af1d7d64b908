----------------------------- MODULE MCConsole ------------------------------
(* Two fonts, one of them with rows of two bytes, on frame buffers of one  *)
(* to four cells with pixels and bytes left over, on one narrower than a   *)
(* character, and without a frame buffer.                                  *)
EXTENDS Console

CONSTANTS black, white

MCColors == {black, white}
MCInks == {<<white, black>>, <<black, white>>}

Screen(w, h, pitch, bpp) == [width |-> w, height |-> h, pitch |-> pitch, bpp |-> bpp]
MCScreens == {Screen(7, 4, 22, 24), Screen(3, 7, 12, 32), Screen(1, 4, 4, 24)}
MCScreens16 == {Screen(3, 4, 6, 16)}

(* Character 1 is drawn without symmetry, character 0 is the space.        *)
Font(magic, w, h) ==
  [magic |-> magic, width |-> w, height |-> h, bitmap |-> {<<1, 0, 0>>, <<1, h - 1, w - 1>>, <<1, 0, w - 1>>}]
MCFonts == {Font("psf1", 2, 3), Font("psf2", 3, 2), Font("elf", 2, 3)}
=============================================================================
