------------------------------ MODULE Console -------------------------------
(***************************************************************************)
(* The text console, lib/console.c:1-108, down to the bytes of the frame   *)
(* buffer: a grid of cells kept in a buffer from the heap, drawn with the  *)
(* glyphs of an embedded PSF font (drivers/font.c) one pixel at a time     *)
(* (drivers/framebuffer.c).  Scrolling moves the buffer up by a row and    *)
(* draws all of it again.                                                  *)
(*                                                                         *)
(* A colour has three bytes; byte i of colour k is <<k, i>>.  A byte of    *)
(* the font is the set of its bits that are 1.  gone is a history          *)
(* variable, the rows that have scrolled away.                             *)
(***************************************************************************)
EXTENDS Integers, Sequences

CONSTANTS
  Screens,        \* frame buffers: [width, height, pitch, bpp]
  Fonts,          \* font files: [magic, width, height, bitmap]
  ByteBits,       \* bits of a byte of the font, 8 in the build
  Chars,          \* characters other than newline, return and backspace
  Space,          \* ' '
  Colors, White, Black,
  Inks,           \* the <<fg, bg>> that console_set_color is called with
  BufferFails,    \* may the kmalloc of console_init return NULL?
  WordMod,        \* 2^32 in the build: cursor arithmetic is modulo WordMod
  MaxGone         \* bound on the cells that scroll away

NoScreen == [width |-> 0, height |-> 0, pitch |-> 0, bpp |-> 0]

ASSUME ConsoleAssumption ==
  /\ Screens \subseteq [width : Nat, height : Nat, pitch : Nat, bpp : Nat]
  /\ \A s \in Screens : s.pitch * 8 >= s.width * s.bpp
  /\ ByteBits \in Nat \ {0}
  /\ \A f \in Fonts : /\ {f.width, f.height} \subseteq Nat \ {0}
                      /\ f.magic = "psf1" => f.width = ByteBits
                      /\ f.bitmap \subseteq Chars \X (0..(f.height - 1)) \X (0..(f.width - 1))
  /\ Space \in Chars /\ Chars \subseteq Nat
  /\ {White, Black} \subseteq Colors /\ Inks \subseteq Colors \X Colors
  /\ BufferFails \in BOOLEAN
  /\ WordMod \in Nat \ {0} /\ MaxGone \in Nat

VARIABLES
  initialized,
  panicked,   \* has kpanic stopped the kernel?
  fb,         \* drivers/framebuffer.c
  font,       \* [file, width, height, glyph_size], or what is before font_init
  cols, rows,
  cursor_x, cursor_y,
  fg_color, bg_color,
  buffer,     \* index |-> cell; empty when the pointer is nullptr
  fbmem,      \* offset from fb.addr |-> byte, for the memory fb_init maps
  gone,
  wild        \* has memory outside buffer and frame buffer been touched?

vars == <<initialized, panicked, fb, font, cols, rows, cursor_x, cursor_y,
          fg_color, bg_color, buffer, fbmem, gone, wild>>
screenVars == <<initialized, panicked, fb, font, cols, rows>>
inkVars == <<fg_color, bg_color>>

NoFont == [width |-> 0]
Nullptr == DOMAIN buffer = {}
Grid == (0..(rows - 1)) \X (0..(cols - 1))

Cell(c) == [c |-> c, fg |-> fg_color, bg |-> bg_color]

Init ==
  /\ initialized = FALSE /\ panicked = FALSE
  /\ fb = NoScreen /\ font = NoFont
  /\ cols = 0 /\ rows = 0
  /\ cursor_x = 0 /\ cursor_y = 0
  /\ fg_color = Black /\ bg_color = Black
  /\ buffer = << >> /\ fbmem = << >> /\ gone = << >>
  /\ wild = FALSE

-----------------------------------------------------------------------------
(* The frame buffer.  px gives a colour to the pixels <<x, y>> for which   *)
(* fb_put_pixel is called.                                                 *)
VisibleAll(px) == DOMAIN px
Visible(px) == {p \in DOMAIN px : p[1] < fb.width /\ p[2] < fb.height}

PixelPacked(p) == p[2] * (fb.width * (fb.bpp \div 8)) + p[1] * (fb.bpp \div 8)
Pixel(p) == p[2] * fb.pitch + p[1] * (fb.bpp \div 8)

(* The three bytes of a pixel are written.  Pixels of three bytes or more  *)
(* do not overlap; if they are smaller a byte is left with one of those    *)
(* written over it.                                                        *)
Covering(px, a) == {p \in Visible(px) : a - Pixel(p) \in 0..2}
fb_put_pixels(mem, px) ==
  [a \in DOMAIN mem |->
     IF Covering(px, a) = {} THEN mem[a]
     ELSE LET p == CHOOSE q \in Covering(px, a) : TRUE IN <<px[p], a - Pixel(p)>>]

Outside(px) == \E p \in Visible(px) : ~({Pixel(p), Pixel(p) + 2} \subseteq DOMAIN fbmem)

fb_clear(color) == [p \in (0..(fb.width - 1)) \X (0..(fb.height - 1)) |-> color]

(* The PSF format: the bytes of a row of a glyph, the leftmost pixel in    *)
(* the highest bit, the last byte filled up; row after row, glyph after    *)
(* glyph.                                                                  *)
RowBytes(file) == (file.width + ByteBits - 1) \div ByteBits
FontByte(file, i) ==
  LET size == file.height * RowBytes(file)
      row == (i % size) \div RowBytes(file)
      left == (i % RowBytes(file)) * ByteBits
  IN  {bit \in 0..(ByteBits - 1) :
         <<i \div size, row, left + ByteBits - 1 - bit>> \in file.bitmap}

(* A PSF1 header has the height only, which is also a glyph's size.        *)
font_init(file) ==
  [file |-> file, height |-> file.height,
   width |-> IF file.magic = "psf1" THEN ByteBits ELSE file.width,
   glyph_size |-> IF file.magic = "psf1" THEN file.height
                  ELSE file.height * RowBytes(file)]

GlyphBitReversed(c, row, col) ==
  LET bytes_per_row == (font.width + ByteBits - 1) \div ByteBits
  IN  (col % ByteBits) \in
        FontByte(font.file, c * font.glyph_size + row * bytes_per_row + col \div ByteBits)
GlyphBit(c, row, col) ==
  LET bytes_per_row == (font.width + ByteBits - 1) \div ByteBits
  IN  (ByteBits - 1 - (col % ByteBits)) \in
        FontByte(font.file, c * font.glyph_size + row * bytes_per_row + col \div ByteBits)

font_draw_char(cell, x, y) ==
  [p \in (x..(x + font.width - 1)) \X (y..(y + font.height - 1)) |->
     IF GlyphBit(cell.c, p[2] - y, p[1] - x) THEN cell.fg ELSE cell.bg]

-----------------------------------------------------------------------------
(* fb_init, when the boot information has a frame buffer tag: what the     *)
(* memory holds is not known.                                              *)
fb_init(s) ==
  /\ fb = NoScreen /\ ~initialized /\ ~panicked
  /\ fb' = s
  /\ fbmem' = [i \in 0..(s.pitch * s.height - 1) |-> <<Black, "unknown">>]
  /\ UNCHANGED <<initialized, panicked, font, cols, rows, cursor_x, cursor_y, inkVars,
                 buffer, gone, wild>>

(* kmalloc(0) returns NULL as well.                                        *)
console_init(file, fails) ==
  /\ ~initialized /\ ~panicked /\ file.magic \in {"psf1", "psf2"}
  /\ font' = font_init(file)
  /\ cols' = fb.width \div font'.width
  /\ rows' = fb.height \div font'.height
  /\ fg_color' = White /\ bg_color' = Black
  /\ buffer' = [i \in IF fails THEN {} ELSE 0..(cols' * rows' - 1) |->
                  [c |-> Space, fg |-> White, bg |-> Black]]
  /\ fbmem' = fb_put_pixels(fbmem, fb_clear(Black))
  /\ wild' = Outside(fb_clear(Black))
  /\ cursor_x' = 0 /\ cursor_y' = 0
  /\ initialized' = TRUE
  /\ UNCHANGED <<panicked, fb, gone>>

(* font_init panics.                                                       *)
InvalidFont(file) ==
  /\ ~initialized /\ ~panicked /\ file.magic \notin {"psf1", "psf2"}
  /\ panicked' = TRUE
  /\ UNCHANGED <<initialized, fb, font, cols, rows, cursor_x, cursor_y, inkVars,
                 buffer, fbmem, gone, wild>>

Ready == initialized /\ ~wild

console_clear ==
  /\ Ready
  /\ fbmem' = fb_put_pixels(fbmem, fb_clear(bg_color))
  /\ buffer' = [i \in DOMAIN buffer |-> Cell(Space)]
  /\ cursor_x' = 0 /\ cursor_y' = 0
  /\ gone' = << >>
  /\ UNCHANGED <<screenVars, inkVars, wild>>

console_set_color(fg, bg) ==
  /\ Ready
  /\ fg_color' = fg /\ bg_color' = bg
  /\ UNCHANGED <<screenVars, cursor_x, cursor_y, buffer, fbmem, gone, wild>>

-----------------------------------------------------------------------------
(* memmove of n cells from index src to index dst of b.                    *)
memmoveBackward(b, dst, src, n) ==
  LET copy[k \in 0..n] ==
        IF k = 0 THEN b ELSE [copy[k - 1] EXCEPT ![dst + n - k] = copy[k - 1][src + n - k]]
  IN  copy[n]
memmove(b, dst, src, n) ==
  LET up[k \in 0..n] ==
        IF k = 0 THEN b ELSE [up[k - 1] EXCEPT ![dst + k - 1] = up[k - 1][src + k - 1]]
      down[k \in 0..n] ==
        IF k = 0 THEN b ELSE [down[k - 1] EXCEPT ![dst + n - k] = down[k - 1][src + n - k]]
  IN  IF dst < src THEN up[n] ELSE down[n]

(* The buffer after scroll, when b is the buffer before.                   *)
Scrolled(b) ==
  LET moved == memmove(b, 0, cols, (rows - 1) * cols)
  IN  [i \in DOMAIN b |-> IF i >= (rows - 1) * cols THEN Cell(Space) ELSE moved[i]]

redraw_all(b) ==
  [p \in (0..((cols * font.width) - 1)) \X (0..((rows * font.height) - 1)) |->
     LET x == p[1] \div font.width
         y == p[2] \div font.height
         cell == b[y * cols + x]
     IN  IF GlyphBit(cell.c, p[2] % font.height, p[1] % font.width)
         THEN cell.fg ELSE cell.bg]

OffScreenLate(y) == y > rows
OffScreen(y) == y >= rows

Row(b, y) == [x \in 1..cols |-> b[y * cols + x - 1]]

(* The end of console_putchar: b and m are what the character has made of  *)
(* the buffer and the frame buffer, y is where it has put the cursor.      *)
(* scroll does not ask whether there is a buffer; it touches none without  *)
(* columns.                                                                *)
Settle(b, m, y) ==
  IF ~OffScreen(y)
  THEN buffer' = b /\ fbmem' = m /\ cursor_y' = y /\ UNCHANGED <<gone, wild>>
  ELSE /\ cursor_y' = (rows - 1) % WordMod
       /\ IF DOMAIN b = {}
          THEN wild' = (cols > 0) /\ buffer' = b /\ fbmem' = m /\ UNCHANGED gone
          ELSE /\ Len(gone) * cols < MaxGone
               /\ buffer' = Scrolled(b)
               /\ fbmem' = fb_put_pixels(m, redraw_all(Scrolled(b)))
               /\ wild' = Outside(redraw_all(b))
               /\ gone' = Append(gone, Row(b, 0))

Down == (cursor_y + 1) % WordMod

putchar_newline ==
  /\ Ready
  /\ cursor_x' = 0
  /\ Settle(buffer, fbmem, Down)
  /\ UNCHANGED <<screenVars, inkVars>>

(* '\r' and '\b'                                                           *)
putchar_back(x) ==
  /\ Ready
  /\ cursor_x' = x
  /\ Settle(buffer, fbmem, cursor_y)
  /\ UNCHANGED <<screenVars, inkVars>>

Left == IF cursor_x > 0 THEN cursor_x - 1 ELSE cursor_x

(* Any other character.                                                    *)
putchar_other(c) ==
  /\ Ready
  /\ LET i == (cursor_y * cols + cursor_x) % WordMod
         px == font_draw_char(Cell(c), cursor_x * font.width, cursor_y * font.height)
         b == [j \in DOMAIN buffer |-> IF j = i THEN Cell(c) ELSE buffer[j]]
         wraps == cursor_x + 1 >= cols
     IN  IF (~Nullptr /\ i \notin DOMAIN buffer) \/ Outside(px)
         THEN wild' = TRUE /\ UNCHANGED <<cursor_x, cursor_y, buffer, fbmem, gone>>
         ELSE /\ cursor_x' = IF wraps THEN 0 ELSE cursor_x + 1
              /\ Settle(b, fb_put_pixels(fbmem, px), IF wraps THEN Down ELSE cursor_y)
  /\ UNCHANGED <<screenVars, inkVars>>

-----------------------------------------------------------------------------
Next ==
  \/ \E s \in Screens : fb_init(s)
  \/ \E f \in Fonts, fails \in {FALSE, BufferFails} : console_init(f, fails)
  \/ \E f \in Fonts : InvalidFont(f)
  \/ console_clear
  \/ \E k \in Inks : console_set_color(k[1], k[2])
  \/ putchar_newline
  \/ putchar_back(0)
  \/ putchar_back(Left)
  \/ \E c \in Chars : putchar_other(c)

Spec == Init /\ [][Next]_vars

-----------------------------------------------------------------------------
(* The console touches no memory outside its buffer and the frame buffer:  *)
(* not at the last cell, not where a glyph is cut off, not when it         *)
(* scrolls, and not when there is no frame buffer at all.                  *)
NoWildAccess == ~wild

(* The display shows the pixel <<x, y>> from the bytes at                  *)
(* y * pitch + x * bytes per pixel.                                        *)
Displayed(x, y, color) ==
  \A i \in 0..2 : fbmem[y * fb.pitch + x * (fb.bpp \div 8) + i] = <<color, i>>

(* Every pixel of every cell is displayed as the designer of the font drew *)
(* the character the buffer has there, in the colours the buffer has,      *)
(* after any mixture of writing, clearing, changing colours and scrolling. *)
ScreenShowsBuffer ==
  ~Nullptr =>
    \A p \in Grid :
      LET cell == buffer[p[1] * cols + p[2]]
      IN  \A row \in 0..(font.height - 1), col \in 0..(font.width - 1) :
            Displayed(p[2] * font.width + col, p[1] * font.height + row,
                      IF <<cell.c, row, col>> \in font.file.bitmap
                      THEN cell.fg ELSE cell.bg)

(* Terminal's state: the page is what has scrolled away and the buffer.    *)
Shown == ~Nullptr
Page == gone \o [y \in 1..rows |-> Row(buffer, y - 1)]

ShownPage == IF Shown THEN Page ELSE << >>
ShownSize == IF Shown THEN <<cols, rows>> ELSE <<0, 0>>
ShownLine == IF Shown THEN Len(gone) + cursor_y + 1 ELSE 0
ShownCol == IF Shown THEN cursor_x + 1 ELSE 0
ShownInk == IF Shown THEN <<fg_color, bg_color>> ELSE << >>

Sizes == {<<s.width \div f.width, s.height \div f.height>> : s \in Screens, f \in Fonts}

Contract ==
  INSTANCE Terminal WITH
    page <- ShownPage, size <- ShownSize, line <- ShownLine, col <- ShownCol,
    ink <- ShownInk

(* The console is a terminal: scrolling loses, repeats and reorders no     *)
(* row, and a character changes only the cell at the cursor.               *)
ImplementsTerminal == Contract!Spec
=============================================================================
