---------------------------- MODULE ConsoleProofs ---------------------------
(***************************************************************************)
(* Theorems about the console, for frame buffers and fonts of every size:  *)
(* what is in the buffer is on the screen, no other memory is touched, and *)
(* the console is the terminal of module Terminal.                         *)
(***************************************************************************)
EXTENDS Console, NaturalsInduction, WellFoundedInduction, SequenceTheorems, TLAPS

(* The hypotheses.  A pixel has at least the three bytes that fb_put_pixel *)
(* writes; a screen wide enough for a character is high enough for one,    *)
(* and the number of cells fits the type of the cursor; the space is blank *)
(* in the font, as console_clear takes it to be; kmalloc has memory for    *)
(* the buffer.                                                             *)
Supported ==
  /\ \A s \in Screens : s.bpp >= 24
  /\ \A s \in Screens, f \in Fonts :
       /\ s.width \div f.width > 0 => s.height \div f.height > 0
       /\ (s.width \div f.width) * (s.height \div f.height) < WordMod
  /\ \A f \in Fonts : \A t \in f.bitmap : t[1] # Space
  /\ BufferFails = FALSE

-----------------------------------------------------------------------------
(* Arithmetic.                                                             *)
LEMMA MulMono == ASSUME NEW a \in Nat, NEW b \in Nat, NEW c \in Nat, a <= b
  PROVE a * c <= b * c
OBVIOUS

LEMMA DivMod == ASSUME NEW a \in Nat, NEW d \in Nat \ {0}
  PROVE /\ a \div d \in Nat /\ a % d \in 0..(d - 1)
        /\ a = (a \div d) * d + (a % d)
OBVIOUS

(* A number has one quotient and one remainder.                            *)
LEMMA Digits ==
  ASSUME NEW d \in Nat, NEW q \in Nat, NEW r \in 0..(d - 1),
         NEW q2 \in Nat, NEW r2 \in 0..(d - 1), q * d + r = q2 * d + r2
  PROVE  q = q2 /\ r = r2
<1>1. ~(q < q2)
  <2> SUFFICES ASSUME q < q2 PROVE FALSE OBVIOUS
  <2>1. (q + 1) * d <= q2 * d
    BY MulMono, q + 1 <= q2
  <2>2. (q + 1) * d = q * d + d /\ q * d \in Nat /\ q2 * d \in Nat
    OBVIOUS
  <2> QED BY <2>1, <2>2
<1>2. ~(q2 < q)
  <2> SUFFICES ASSUME q2 < q PROVE FALSE OBVIOUS
  <2>1. (q2 + 1) * d <= q * d
    BY MulMono, q2 + 1 <= q
  <2>2. (q2 + 1) * d = q2 * d + d /\ q * d \in Nat /\ q2 * d \in Nat
    OBVIOUS
  <2> QED BY <2>1, <2>2
<1>3. q = q2
  BY <1>1, <1>2
<1>4. q * d \in Nat
  OBVIOUS
<1> QED BY <1>3, <1>4

LEMMA DivIs ==
  ASSUME NEW d \in Nat, NEW q \in Nat, NEW r \in 0..(d - 1)
  PROVE  (q * d + r) \div d = q /\ (q * d + r) % d = r
<1> DEFINE a == q * d + r
<1>1. d \in Nat \ {0} /\ a \in Nat
  OBVIOUS
<1>2. a \div d \in Nat /\ a % d \in 0..(d - 1) /\ a = (a \div d) * d + (a % d)
  BY <1>1, DivMod
<1>3. a = q * d + r
  OBVIOUS
<1> HIDE DEF a
<1>4. a \div d = q /\ a % d = r
  <2> DEFINE p == a \div d  t == a % d
  <2>1. p \in Nat /\ t \in 0..(d - 1) /\ p * d + t = q * d + r
    BY <1>2, <1>3
  <2> HIDE DEF p, t
  <2>2. p = q /\ t = r
    BY <2>1, Digits
  <2> QED BY <2>2 DEF p, t
<1> QED BY <1>4 DEF a

(* Place r of row q, of h rows of d places.                                *)
LEMMA Places ==
  ASSUME NEW d \in Nat, NEW h \in Nat, NEW q \in 0..(h - 1), NEW r \in 0..(d - 1)
  PROVE  q * d + r \in 0..(h * d - 1) /\ q * d \in Nat /\ h * d \in Nat
<1>1. (q + 1) * d <= h * d
  BY MulMono, q + 1 <= h
<1>2. (q + 1) * d = q * d + d /\ q * d \in Nat /\ h * d \in Nat
  OBVIOUS
<1> QED BY <1>1, <1>2

-----------------------------------------------------------------------------
(* The frame buffer.  Byte i of the pixel at x, y of the screen s.         *)
At(s, x, y, i) == y * s.pitch + x * (s.bpp \div 8) + i

Screen == fb \in Screens \cup {NoScreen}
Bytes(s) == 0..(s.pitch * s.height - 1)

(* A row has room for all its pixels.                                      *)
LEMMA Depth ==
  ASSUME Supported, Screen
  PROVE  /\ fb.width \in Nat /\ fb.height \in Nat /\ fb.pitch \in Nat
         /\ fb.bpp \div 8 \in Nat
         /\ fb.width > 0 => fb.bpp \div 8 >= 3
         /\ fb.width * (fb.bpp \div 8) <= fb.pitch
<1>1. CASE fb = NoScreen
  BY <1>1 DEF NoScreen
<1>2. CASE fb \in Screens
  <2>1. /\ fb.width \in Nat /\ fb.height \in Nat /\ fb.pitch \in Nat /\ fb.bpp \in Nat
        /\ fb.bpp >= 24 /\ fb.pitch * 8 >= fb.width * fb.bpp
    BY <1>2, ConsoleAssumption DEF Supported
  <2> DEFINE B == fb.bpp \div 8  w == fb.width  p == fb.pitch
  <2>2. B \in Nat /\ B >= 3 /\ 8 * B <= fb.bpp
    BY <2>1
  <2> HIDE DEF B
  <2>3. (8 * B) * w <= fb.bpp * w
    BY <2>1, <2>2, MulMono, 8 * B \in Nat
  <2>4. (8 * B) * w = 8 * (w * B) /\ w * B \in Nat /\ fb.bpp * w = w * fb.bpp
    BY <2>1, <2>2
  <2>5. w * B <= p
    BY <2>1, <2>3, <2>4
  <2> QED BY <2>1, <2>2, <2>5 DEF B
<1> QED BY <1>1, <1>2 DEF Screen

(* Every pixel of the screen has its bytes in the frame buffer, and no     *)
(* byte belongs to two pixels.                                             *)
LEMMA PixelInside ==
  ASSUME Supported, Screen, NEW x \in Nat, NEW y \in Nat, NEW i \in 0..2,
         x < fb.width, y < fb.height
  PROVE  At(fb, x, y, i) \in Bytes(fb)
<1> DEFINE B == fb.bpp \div 8
<1>1. /\ fb.width \in Nat /\ fb.height \in Nat /\ fb.pitch \in Nat
      /\ B \in Nat /\ B >= 3 /\ fb.width * B <= fb.pitch
  BY Depth
<1> HIDE DEF B
<1>2. x * B + i \in 0..(fb.width * B - 1) /\ fb.width * B \in Nat
  BY <1>1, Places, x \in 0..(fb.width - 1), i \in 0..(B - 1)
<1>3. x * B + i \in 0..(fb.pitch - 1) /\ x * B \in Nat
  BY <1>1, <1>2
<1>4. /\ y * fb.pitch + (x * B + i) \in 0..(fb.height * fb.pitch - 1)
      /\ y * fb.pitch \in Nat /\ fb.height * fb.pitch \in Nat
  BY <1>1, <1>3, Places, y \in 0..(fb.height - 1)
<1>5. fb.height * fb.pitch = fb.pitch * fb.height
  BY <1>1
<1>6. At(fb, x, y, i) = y * fb.pitch + (x * B + i)
  BY <1>3, <1>4 DEF At, B
<1> QED BY <1>4, <1>5, <1>6 DEF Bytes

LEMMA PixelsApart ==
  ASSUME Supported, Screen,
         NEW x \in Nat, NEW y \in Nat, NEW i \in 0..2, x < fb.width,
         NEW x2 \in Nat, NEW y2 \in Nat, NEW i2 \in 0..2, x2 < fb.width,
         At(fb, x, y, i) = At(fb, x2, y2, i2)
  PROVE  x = x2 /\ y = y2 /\ i = i2
<1> DEFINE B == fb.bpp \div 8
<1>1. /\ fb.width \in Nat /\ fb.pitch \in Nat
      /\ B \in Nat /\ B >= 3 /\ fb.width * B <= fb.pitch
  BY Depth
<1> HIDE DEF B
<1>2. /\ x * B + i \in 0..(fb.width * B - 1) /\ fb.width * B \in Nat
      /\ x2 * B + i2 \in 0..(fb.width * B - 1)
      /\ x * B \in Nat /\ x2 * B \in Nat
  BY <1>1, Places, x \in 0..(fb.width - 1), i \in 0..(B - 1), x2 \in 0..(fb.width - 1), i2 \in 0..(B - 1)
<1>3. x * B + i \in 0..(fb.pitch - 1) /\ x2 * B + i2 \in 0..(fb.pitch - 1)
  BY <1>1, <1>2
<1>4. y * fb.pitch \in Nat /\ y2 * fb.pitch \in Nat
  BY <1>1
<1>5. y * fb.pitch + (x * B + i) = y2 * fb.pitch + (x2 * B + i2)
  BY <1>2, <1>4 DEF At, B
<1>6. y = y2 /\ x * B + i = x2 * B + i2
  <2> DEFINE r == x * B + i  r2 == x2 * B + i2
  <2>1. r \in 0..(fb.pitch - 1) /\ r2 \in 0..(fb.pitch - 1) /\ y * fb.pitch + r = y2 * fb.pitch + r2
    BY <1>3, <1>5
  <2> HIDE DEF r, r2
  <2>2. y = y2 /\ r = r2
    BY <2>1, <1>1, Digits
  <2> QED BY <2>2 DEF r, r2
<1>7. x = x2 /\ i = i2
  BY <1>1, <1>6, Digits, i \in 0..(B - 1), i2 \in 0..(B - 1)
<1> QED BY <1>6, <1>7

(* What a picture px is drawn on: pixels with coordinates that are natural *)
(* numbers.                                                                *)
Picture(px) == DOMAIN px \subseteq Nat \X Nat

LEMMA NothingOutside ==
  ASSUME Supported, Screen, DOMAIN fbmem = Bytes(fb), NEW px, Picture(px)
  PROVE  Outside(px) = FALSE
<1>1. SUFFICES ASSUME NEW p \in Visible(px)
               PROVE  {Pixel(p), Pixel(p) + 2} \subseteq DOMAIN fbmem
  BY DEF Outside
<1>2. p[1] \in Nat /\ p[2] \in Nat /\ p[1] < fb.width /\ p[2] < fb.height
  BY DEF Visible, Picture
<1>3. At(fb, p[1], p[2], 0) \in Bytes(fb) /\ At(fb, p[1], p[2], 2) \in Bytes(fb)
  BY <1>2, PixelInside
<1>4. fb.pitch \in Nat /\ fb.bpp \div 8 \in Nat
  BY Depth
<1>5. p[2] * fb.pitch \in Nat /\ p[1] * (fb.bpp \div 8) \in Nat
  BY <1>2, <1>4
<1>6. Pixel(p) = At(fb, p[1], p[2], 0) /\ Pixel(p) + 2 = At(fb, p[1], p[2], 2)
  BY <1>5 DEF Pixel, At
<1> QED BY <1>3, <1>6

(* fb_put_pixel changes the pixels of the picture and no other.            *)
PixelAfter(m, px, x, y, i) ==
  fb_put_pixels(m, px)[At(fb, x, y, i)] =
    IF <<x, y>> \in DOMAIN px THEN <<px[<<x, y>>], i>> ELSE m[At(fb, x, y, i)]

LEMMA PixelsPut ==
  ASSUME Supported, Screen, NEW m, DOMAIN m = Bytes(fb), NEW px, Picture(px),
         NEW x \in Nat, NEW y \in Nat, NEW i \in 0..2, x < fb.width, y < fb.height
  PROVE  PixelAfter(m, px, x, y, i)
<1> DEFINE a == At(fb, x, y, i)
<1>1. a \in DOMAIN m
  BY PixelInside
<1>2. fb.pitch \in Nat /\ fb.bpp \div 8 \in Nat
  BY Depth
<1>3. ASSUME NEW p \in Nat \X Nat
      PROVE  /\ Pixel(p) \in Nat
             /\ \A j \in 0..2 : At(fb, p[1], p[2], j) = Pixel(p) + j
  <2>1. p[2] * fb.pitch \in Nat /\ p[1] * (fb.bpp \div 8) \in Nat
    BY <1>2
  <2> QED BY <2>1 DEF Pixel, At
<1>4. a \in Nat /\ a = Pixel(<<x, y>>) + i
  BY <1>3, <<x, y>> \in Nat \X Nat, <<x, y>>[1] = x, <<x, y>>[2] = y
<1> HIDE DEF a
<1>5. ASSUME NEW p \in Covering(px, a) PROVE p = <<x, y>> /\ a - Pixel(p) = i
  <2>1. /\ p \in DOMAIN px /\ p \in Nat \X Nat /\ p[1] < fb.width
        /\ a - Pixel(p) \in 0..2
    BY <1>5 DEF Covering, Visible, Picture
  <2>2. PICK j \in 0..2 : j = a - Pixel(p)
    BY <2>1
  <2>3. Pixel(p) \in Nat /\ At(fb, p[1], p[2], j) = Pixel(p) + j
    BY <2>1, <1>3
  <2>4. At(fb, p[1], p[2], j) = At(fb, x, y, i)
    BY <2>2, <2>3, <1>4 DEF a
  <2>5. p[1] \in Nat /\ p[2] \in Nat /\ p = <<p[1], p[2]>>
    BY <2>1
  <2>6. p[1] = x /\ p[2] = y /\ j = i
    BY <2>1, <2>4, <2>5, PixelsApart
  <2> QED BY <2>2, <2>5, <2>6
<1>6. <<x, y>> \in DOMAIN px => <<x, y>> \in Covering(px, a)
  BY <1>4, <1>3 DEF Covering, Visible
<1>7. CASE <<x, y>> \in DOMAIN px
  <2>1. Covering(px, a) # {}
    BY <1>6, <1>7
  <2>2. (CHOOSE q \in Covering(px, a) : TRUE) \in Covering(px, a)
    BY <2>1
  <2>3. PICK p \in Covering(px, a) : p = CHOOSE q \in Covering(px, a) : TRUE
    BY <2>2
  <2>4. fb_put_pixels(m, px)[a] = <<px[p], a - Pixel(p)>>
    BY <2>1, <2>3, <1>1 DEF fb_put_pixels, a
  <2> QED BY <2>4, <1>5, <1>7 DEF a, PixelAfter
<1>8. CASE <<x, y>> \notin DOMAIN px
  <2>1. Covering(px, a) = {}
    <3> SUFFICES ASSUME NEW p \in Covering(px, a) PROVE FALSE OBVIOUS
    <3>1. p = <<x, y>> /\ p \in DOMAIN px
      BY <1>5 DEF Covering, Visible
    <3> QED BY <3>1, <1>8
  <2>2. fb_put_pixels(m, px)[a] = m[a]
    BY <2>1, <1>1 DEF fb_put_pixels, a
  <2> QED BY <2>2, <1>8 DEF a, PixelAfter
<1> QED BY <1>7, <1>8

LEMMA PutDomain == ASSUME NEW m, NEW px PROVE DOMAIN fb_put_pixels(m, px) = DOMAIN m
BY DEF fb_put_pixels

-----------------------------------------------------------------------------
(* The font: font_draw_char finds the bit of a glyph that the designer of  *)
(* the font put there.                                                     *)
Valid(f) == f \in Fonts /\ f.magic \in {"psf1", "psf2"}

LEMMA FontIs ==
  ASSUME NEW f, Valid(f)
  PROVE  /\ f.width \in Nat \ {0} /\ f.height \in Nat \ {0}
         /\ font_init(f).width = f.width /\ font_init(f).height = f.height
         /\ font_init(f).file = f
         /\ font_init(f).glyph_size = f.height * RowBytes(f)
<1>1. f.width \in Nat \ {0} /\ f.height \in Nat \ {0} /\ ByteBits \in Nat \ {0}
  BY ConsoleAssumption DEF Valid
<1>2. font_init(f).width = f.width /\ font_init(f).height = f.height /\ font_init(f).file = f
  BY ConsoleAssumption DEF Valid, font_init
<1>3. CASE f.magic = "psf1"
  <2>1. RowBytes(f) = (ByteBits + ByteBits - 1) \div ByteBits
    BY <1>3, ConsoleAssumption DEF Valid, RowBytes
  <2>2. (1 * ByteBits + (ByteBits - 1)) \div ByteBits = 1
    BY <1>1, DivIs, ByteBits - 1 \in 0..(ByteBits - 1)
  <2>3. RowBytes(f) = 1
    BY <2>1, <2>2, <1>1
  <2> QED BY <2>3, <1>1, <1>2, <1>3 DEF font_init
<1>4. CASE f.magic # "psf1"
  BY <1>1, <1>2, <1>4 DEF font_init
<1> QED BY <1>3, <1>4

LEMMA GlyphIs ==
  ASSUME NEW f, Valid(f), font = font_init(f), NEW c \in Chars,
         NEW row \in 0..(f.height - 1), NEW col \in 0..(f.width - 1)
  PROVE  GlyphBit(c, row, col) <=> <<c, row, col>> \in f.bitmap
<1> DEFINE B == ByteBits  R == RowBytes(f)  h == f.height  byte == col \div B  bit == col % B
<1>1. B \in Nat \ {0} /\ c \in Nat /\ h \in Nat \ {0} /\ f.width \in Nat \ {0}
  BY ConsoleAssumption, FontIs
<1>2. byte \in Nat /\ bit \in 0..(B - 1) /\ col = byte * B + bit
  <2>1. col \in Nat
    BY <1>1
  <2> QED BY <2>1, <1>1, DivMod
<1>3. R \in Nat /\ byte < R
  <2> DEFINE a == f.width + B - 1  t == a % B
  <2>1. R = a \div B
    BY DEF RowBytes
  <2>2. R \in Nat /\ t \in 0..(B - 1) /\ a = R * B + t
    <3>1. a \in Nat
      BY <1>1
    <3> HIDE DEF a, R
    <3> QED BY <1>1, <2>1, <3>1, DivMod
  <2> HIDE DEF R, t, byte, bit
  <2>3. ~(R <= byte)
    <3> SUFFICES ASSUME R <= byte PROVE FALSE OBVIOUS
    <3>1. R * B <= byte * B /\ R * B \in Nat /\ byte * B \in Nat
      BY <1>1, <1>2, <2>2, MulMono
    <3> QED BY <3>1, <1>1, <1>2, <2>2
  <2> QED BY <2>2, <2>3, <1>2
<1> DEFINE size == h * R  at == row * R + byte
<1>4. at \in 0..(size - 1) /\ size \in Nat /\ row * R \in Nat
  <2> HIDE DEF R, byte
  <2> QED BY <1>1, <1>2, <1>3, Places, byte \in 0..(R - 1)
<1> DEFINE i == c * size + at
<1>5. i \div size = c /\ i % size = at
  <2> HIDE DEF R, byte, size, at
  <2> QED BY <1>1, <1>4, DivIs
<1>6. at \div R = row
  <2> HIDE DEF R, byte
  <2> QED BY <1>1, <1>2, <1>3, DivIs, byte \in 0..(R - 1), row \in Nat
<1>7. i % R = byte
  <2> HIDE DEF R, byte
  <2>1. c * (h * R) + (row * R + byte) = (c * h + row) * R + byte
    BY <1>1, <1>2, <1>3
  <2>2. c * h + row \in Nat
    BY <1>1
  <2>3. ((c * h + row) * R + byte) % R = byte
    BY <1>2, <1>3, <2>2, DivIs, byte \in 0..(R - 1)
  <2> QED BY <2>1, <2>3
<1>8. FontByte(f, i) = {k \in 0..(B - 1) : <<c, row, byte * B + B - 1 - k>> \in f.bitmap}
  <2> HIDE DEF byte, at
  <2> QED BY <1>5, <1>6, <1>7 DEF FontByte
<1>9. B - 1 - bit \in 0..(B - 1) /\ byte * B + B - 1 - (B - 1 - bit) = col
  <2> HIDE DEF byte, bit
  <2>1. byte * B \in Nat
    BY <1>1, <1>2
  <2> QED BY <1>1, <1>2, <2>1
<1>10. (B - 1 - bit) \in FontByte(f, i) <=> <<c, row, col>> \in f.bitmap
  <2> HIDE DEF byte, bit, i
  <2> QED BY <1>8, <1>9
<1>11. c * font.glyph_size + row * R + byte = i
  <2>1. font.glyph_size = size
    BY FontIs
  <2>2. c * size \in Nat
    <3> HIDE DEF size
    <3> QED BY <1>1, <1>4
  <2> HIDE DEF R, byte, size
  <2> QED BY <1>2, <1>4, <2>1, <2>2
<1>12. GlyphBit(c, row, col) <=> (B - 1 - bit) \in FontByte(f, c * font.glyph_size + row * R + byte)
  BY FontIs DEF GlyphBit, RowBytes
<1> QED
  <2> HIDE DEF i, byte, bit, R
  <2> QED BY <1>10, <1>11, <1>12

-----------------------------------------------------------------------------
(* memmove.  The provers cannot use the induction rules of the library,    *)
(* which have an operator as parameter; a least counterexample serves.     *)
LEMMA Least == ASSUME NEW T, T \subseteq Nat, T # {} PROVE \E x \in T : \A y \in T : x <= y
<1>1. IsWellFoundedOn(OpToRel(<, Nat), Nat)
  BY NatLessThanWellFounded
<1>2. PICK x \in T : \A y \in T : <<y, x>> \notin OpToRel(<, Nat)
  BY <1>1, WFMin
<1>3. \A y \in T : ~(y < x)
  BY <1>2 DEF OpToRel
<1> QED BY <1>3

(* f[k] is the memory after k of n copies, the k-th at the offset off[k].  *)
CopyOne(m, dst, src, o) == [m EXCEPT ![dst + o] = m[src + o]]
Copies(f, b, dst, src, off, n) ==
  f = [k \in 0..n |-> IF k = 0 THEN b ELSE CopyOne(f[k - 1], dst, src, off[k])]

LEMMA CopiesExist ==
  ASSUME NEW b, NEW dst \in Nat, NEW src \in Nat, NEW off, NEW n \in Nat
  PROVE  \E f : Copies(f, b, dst, src, off, n)
<1> DEFINE T == {m \in Nat : ~\E f : Copies(f, b, dst, src, off, m)}
<1>1. SUFFICES ASSUME T # {} PROVE FALSE
  OBVIOUS
<1>2. PICK m \in T : \A y \in T : m <= y
  BY <1>1, Least
<1>3. CASE m = 0
  <2> DEFINE f == [k \in 0..0 |-> b]
  <2>1. Copies(f, b, dst, src, off, 0)
    BY DEF Copies
  <2> QED BY <2>1, <1>3, <1>2
<1>4. CASE m > 0
  <2>1. m \in Nat /\ m - 1 \in Nat /\ m - 1 \notin T
    BY <1>2, <1>4
  <2>2. PICK g : Copies(g, b, dst, src, off, m - 1)
    BY <2>1
  <2> DEFINE f == [k \in 0..m |-> IF k = 0 THEN b ELSE CopyOne(g[k - 1], dst, src, off[k])]
  <2>3. \A k \in 0..m : f[k] = IF k = 0 THEN b ELSE CopyOne(g[k - 1], dst, src, off[k])
    OBVIOUS
  <2>4. DOMAIN f = 0..m
    OBVIOUS
  <2>5. \A k \in 0..(m - 1) : g[k] = IF k = 0 THEN b ELSE CopyOne(g[k - 1], dst, src, off[k])
    BY <2>2 DEF Copies
  <2>6. f = [k \in 0..m |-> f[k]]
    OBVIOUS
  <2> HIDE DEF f, T
  <2>7. \A k \in 0..(m - 1) : f[k] = g[k]
    BY <2>1, <2>3, <2>5
  <2>8. \A k \in 0..m : f[k] = IF k = 0 THEN b ELSE CopyOne(f[k - 1], dst, src, off[k])
    <3> SUFFICES ASSUME NEW k \in 0..m, k # 0
                 PROVE  f[k] = CopyOne(f[k - 1], dst, src, off[k])
      BY <2>3, <2>1
    <3>1. k - 1 \in 0..(m - 1)
      BY <2>1
    <3> QED BY <3>1, <2>3, <2>7
  <2>9. Copies(f, b, dst, src, off, m)
    BY <2>6, <2>8 DEF Copies
  <2> QED BY <2>9, <1>2 DEF T
<1> QED BY <1>2, <1>3, <1>4

(* The memory when the cells of lo..(hi - 1) have been copied.             *)
Copied(b, dst, src, lo, hi) ==
  [i \in DOMAIN b |-> IF lo <= i /\ i < hi THEN b[i - dst + src] ELSE b[i]]

Memory(b, dst, src, n) ==
  /\ b = [i \in DOMAIN b |-> b[i]]
  /\ DOMAIN b \subseteq Nat
  /\ dst..(dst + n - 1) \subseteq DOMAIN b
  /\ src..(src + n - 1) \subseteq DOMAIN b

LEMMA CopyUp ==
  ASSUME NEW b, NEW dst \in Nat, NEW src \in Nat, NEW n \in Nat, Memory(b, dst, src, n),
         dst < src, NEW off, \A k \in 1..n : off[k] = k - 1,
         NEW f, Copies(f, b, dst, src, off, n)
  PROVE  f[n] = Copied(b, dst, src, dst, dst + n)
<1> DEFINE T == {k \in 0..n : f[k] # Copied(b, dst, src, dst, dst + k)}
<1>1. SUFFICES ASSUME T # {} PROVE FALSE
  OBVIOUS
<1>2. PICK k \in T : \A y \in T : k <= y
  BY <1>1, Least, T \subseteq Nat
<1>3. k # 0
  <2>1. f[0] = b
    BY DEF Copies
  <2>2. Copied(b, dst, src, dst, dst + 0) = [i \in DOMAIN b |-> b[i]]
    BY DEF Copied, Memory
  <2> QED BY <2>1, <2>2, <1>2 DEF Memory
<1> DEFINE j == k - 1  g == Copied(b, dst, src, dst, dst + j)
<1>4. k \in 1..n /\ j \in 0..n /\ j \notin T /\ j \in Nat /\ dst + k = dst + j + 1
  BY <1>2, <1>3
<1>5. f[j] = g
  BY <1>4
<1>6. f[k] = CopyOne(g, dst, src, j)
  BY <1>4, <1>5 DEF Copies
<1>7. dst + j \in DOMAIN b /\ src + j \in DOMAIN b
  BY <1>4 DEF Memory
<1>8. CopyOne(g, dst, src, j) = Copied(b, dst, src, dst, dst + k)
  <2> HIDE DEF j
  <2>1. g[src + j] = b[src + j]
    BY <1>4, <1>7 DEF Copied
  <2>2. DOMAIN g = DOMAIN b
    BY DEF Copied
  <2>3. CopyOne(g, dst, src, j) = [i \in DOMAIN b |-> IF i = dst + j THEN b[src + j] ELSE g[i]]
    BY <2>1, <2>2, <1>7 DEF CopyOne
  <2>4. \A i \in DOMAIN b : (IF i = dst + j THEN b[src + j] ELSE g[i])
                            = IF dst <= i /\ i < dst + k THEN b[i - dst + src] ELSE b[i]
    <3> SUFFICES ASSUME NEW i \in DOMAIN b
                 PROVE  (IF i = dst + j THEN b[src + j] ELSE g[i])
                            = IF dst <= i /\ i < dst + k THEN b[i - dst + src] ELSE b[i]
      OBVIOUS
    <3>1. i \in Nat
      BY DEF Memory
    <3>2. i = dst + j => i - dst + src = src + j
      BY <3>1, <1>4
    <3>3. g[i] = IF dst <= i /\ i < dst + j THEN b[i - dst + src] ELSE b[i]
      BY DEF Copied
    <3> HIDE DEF g
    <3> QED BY <3>1, <3>2, <3>3, <1>4
  <2> QED BY <2>3, <2>4 DEF Copied
<1> QED BY <1>2, <1>6, <1>8

LEMMA CopyDown ==
  ASSUME NEW b, NEW dst \in Nat, NEW src \in Nat, NEW n \in Nat, Memory(b, dst, src, n),
         ~(dst < src), NEW off, \A k \in 1..n : off[k] = n - k,
         NEW f, Copies(f, b, dst, src, off, n)
  PROVE  f[n] = Copied(b, dst, src, dst, dst + n)
<1> DEFINE T == {k \in 0..n : f[k] # Copied(b, dst, src, dst + n - k, dst + n)}
<1>1. SUFFICES ASSUME T # {} PROVE FALSE
  <2>1. n \notin T /\ dst + n - n = dst
    BY <1>1
  <2> QED BY <2>1
<1>2. PICK k \in T : \A y \in T : k <= y
  BY <1>1, Least, T \subseteq Nat
<1>3. k # 0
  <2>1. f[0] = b
    BY DEF Copies
  <2>2. Copied(b, dst, src, dst + n - 0, dst + n) = [i \in DOMAIN b |-> b[i]]
    BY DEF Copied, Memory
  <2> QED BY <2>1, <2>2, <1>2 DEF Memory
<1> DEFINE j == k - 1  o == n - k  g == Copied(b, dst, src, dst + n - j, dst + n)
<1>4. k \in 1..n /\ j \in 0..n /\ j \notin T /\ o \in Nat /\ o < n
      /\ dst + n - k = dst + o /\ dst + n - j = dst + o + 1
  BY <1>2, <1>3
<1>5. f[j] = g
  BY <1>4
<1>6. f[k] = CopyOne(g, dst, src, o)
  BY <1>4, <1>5 DEF Copies
<1>7. dst + o \in DOMAIN b /\ src + o \in DOMAIN b
  BY <1>4 DEF Memory
<1>8. CopyOne(g, dst, src, o) = Copied(b, dst, src, dst + n - k, dst + n)
  <2> HIDE DEF j, o
  <2>1. g[src + o] = b[src + o]
    BY <1>4, <1>7 DEF Copied
  <2>2. DOMAIN g = DOMAIN b
    BY DEF Copied
  <2>3. CopyOne(g, dst, src, o) = [i \in DOMAIN b |-> IF i = dst + o THEN b[src + o] ELSE g[i]]
    BY <2>1, <2>2, <1>7 DEF CopyOne
  <2>4. \A i \in DOMAIN b : (IF i = dst + o THEN b[src + o] ELSE g[i])
                            = IF dst + n - k <= i /\ i < dst + n THEN b[i - dst + src] ELSE b[i]
    <3> SUFFICES ASSUME NEW i \in DOMAIN b
                 PROVE  (IF i = dst + o THEN b[src + o] ELSE g[i])
                            = IF dst + n - k <= i /\ i < dst + n THEN b[i - dst + src] ELSE b[i]
      OBVIOUS
    <3>1. i \in Nat
      BY DEF Memory
    <3>2. i = dst + o => i - dst + src = src + o
      BY <3>1, <1>4
    <3>3. g[i] = IF dst + n - j <= i /\ i < dst + n THEN b[i - dst + src] ELSE b[i]
      BY DEF Copied
    <3>4. i = dst + o => dst + n - k <= i /\ i < dst + n
      BY <3>1, <1>4
    <3>5. i # dst + o => (dst + n - j <= i <=> dst + n - k <= i)
      BY <3>1, <1>4
    <3> HIDE DEF g
    <3>6. CASE i = dst + o
      BY <3>6, <3>2, <3>4
    <3>7. CASE i # dst + o
      BY <3>7, <3>3, <3>5
    <3> QED BY <3>6, <3>7
  <2> QED BY <2>3, <2>4 DEF Copied
<1> QED BY <1>2, <1>6, <1>8

(* memmove copies every cell as it was before the call, however source and *)
(* destination overlap.                                                    *)
THEOREM MemmoveCopies ==
  ASSUME NEW b, NEW dst \in Nat, NEW src \in Nat, NEW n \in Nat, Memory(b, dst, src, n)
  PROVE  memmove(b, dst, src, n) = Copied(b, dst, src, dst, dst + n)
<1>1. CASE dst < src
  <2> DEFINE off == [k \in 1..n |-> k - 1]
             Up(f) == f = [k \in 0..n |-> IF k = 0 THEN b
                             ELSE [f[k - 1] EXCEPT ![dst + k - 1] = f[k - 1][src + k - 1]]]
  <2>1. PICK g : Copies(g, b, dst, src, off, n)
    BY CopiesExist
  <2>2. \A f : Copies(f, b, dst, src, off, n) <=> Up(f)
    <3> TAKE f
    <3>1. \A k \in 0..n : k # 0 => CopyOne(f[k - 1], dst, src, off[k]) =
                             [f[k - 1] EXCEPT ![dst + k - 1] = f[k - 1][src + k - 1]]
      <4> SUFFICES ASSUME NEW k \in 0..n, k # 0
                   PROVE  CopyOne(f[k - 1], dst, src, off[k]) =
                             [f[k - 1] EXCEPT ![dst + k - 1] = f[k - 1][src + k - 1]]
        OBVIOUS
      <4>1. dst + off[k] = dst + k - 1 /\ src + off[k] = src + k - 1
        BY k \in 1..n
      <4> HIDE DEF off
      <4> QED BY <4>1 DEF CopyOne
    <3> HIDE DEF off
    <3> QED BY <3>1 DEF Copies
  <2>3. Up(CHOOSE f : Up(f))
    BY <2>1, <2>2
  <2>4. memmove(b, dst, src, n) = (CHOOSE f : Up(f))[n]
    BY <1>1 DEF memmove
  <2>5. Copies(CHOOSE f : Up(f), b, dst, src, off, n)
    BY <2>2, <2>3
  <2>6. \A k \in 1..n : off[k] = k - 1
    OBVIOUS
  <2> HIDE DEF off, Up
  <2> QED BY <1>1, <2>4, <2>5, <2>6, CopyUp
<1>2. CASE ~(dst < src)
  <2> DEFINE off == [k \in 1..n |-> n - k]
             Dn(f) == f = [k \in 0..n |-> IF k = 0 THEN b
                             ELSE [f[k - 1] EXCEPT ![dst + n - k] = f[k - 1][src + n - k]]]
  <2>1. PICK g : Copies(g, b, dst, src, off, n)
    BY CopiesExist
  <2>2. \A f : Copies(f, b, dst, src, off, n) <=> Dn(f)
    <3> TAKE f
    <3>1. \A k \in 0..n : k # 0 => CopyOne(f[k - 1], dst, src, off[k]) =
                             [f[k - 1] EXCEPT ![dst + n - k] = f[k - 1][src + n - k]]
      <4> SUFFICES ASSUME NEW k \in 0..n, k # 0
                   PROVE  CopyOne(f[k - 1], dst, src, off[k]) =
                             [f[k - 1] EXCEPT ![dst + n - k] = f[k - 1][src + n - k]]
        OBVIOUS
      <4>1. dst + off[k] = dst + n - k /\ src + off[k] = src + n - k
        BY k \in 1..n
      <4> HIDE DEF off
      <4> QED BY <4>1 DEF CopyOne
    <3> HIDE DEF off
    <3> QED BY <3>1 DEF Copies
  <2>3. Dn(CHOOSE f : Dn(f))
    BY <2>1, <2>2
  <2>4. memmove(b, dst, src, n) = (CHOOSE f : Dn(f))[n]
    BY <1>2 DEF memmove
  <2>5. Copies(CHOOSE f : Dn(f), b, dst, src, off, n)
    BY <2>2, <2>3
  <2>6. \A k \in 1..n : off[k] = n - k
    OBVIOUS
  <2> HIDE DEF off, Dn
  <2> QED BY <1>2, <2>4, <2>5, <2>6, CopyDown
<1> QED BY <1>1, <1>2

(* The buffer after scroll.                                                *)
LEMMA ScrolledIs ==
  ASSUME cols \in Nat \ {0}, rows \in Nat \ {0}, NEW b, NEW S,
         b \in [0..(cols * rows - 1) -> S]
  PROVE  Scrolled(b) = [i \in 0..(cols * rows - 1) |->
                          IF i >= (rows - 1) * cols THEN Cell(Space) ELSE b[i + cols]]
<1> DEFINE n == (rows - 1) * cols
<1>1. n \in Nat /\ cols * rows = n + cols /\ rows - 1 \in Nat
  OBVIOUS
<1> HIDE DEF n
<1>2. Memory(b, 0, cols, n)
  BY <1>1 DEF Memory
<1>3. memmove(b, 0, cols, n) = Copied(b, 0, cols, 0, 0 + n)
  BY <1>1, <1>2, MemmoveCopies
<1>4. \A i \in 0..(cols * rows - 1) : ~(i >= n) => memmove(b, 0, cols, n)[i] = b[i + cols]
  BY <1>1, <1>3 DEF Copied
<1> QED BY <1>4 DEF Scrolled, n

-----------------------------------------------------------------------------
(* The screen m of s shows the colour k at the pixel x, y; the cell at the *)
(* place x, y; all of the w * h cells of b.                                *)
ShowsPixel(s, m, x, y, k) == \A i \in 0..2 : m[At(s, x, y, i)] = <<k, i>>
Ink(f, cell, row, col) == IF <<cell.c, row, col>> \in f.bitmap THEN cell.fg ELSE cell.bg
ShowsCell(s, f, m, cell, x, y) ==
  \A row \in 0..(f.height - 1), col \in 0..(f.width - 1) :
    ShowsPixel(s, m, x * f.width + col, y * f.height + row, Ink(f, cell, row, col))
Shows(s, f, m, b, w, h) ==
  \A y \in 0..(h - 1), x \in 0..(w - 1) : ShowsCell(s, f, m, b[y * w + x], x, y)

CellType == [c : Chars, fg : Colors, bg : Colors]

(* The geometry of the grid on a screen.                                   *)
Fits(f, w, h) ==
  /\ Valid(f) /\ Screen
  /\ w = fb.width \div f.width /\ h = fb.height \div f.height

LEMMA GridSize ==
  ASSUME Supported, NEW f, NEW w, NEW h, Fits(f, w, h)
  PROVE  /\ w \in Nat /\ h \in Nat
         /\ w * f.width <= fb.width /\ h * f.height <= fb.height
         /\ w > 0 => h > 0
         /\ w * h \in Nat /\ w * h < WordMod
<1>1. fb.width \in Nat /\ fb.height \in Nat
  BY Depth DEF Fits
<1>2. f.width \in Nat \ {0} /\ f.height \in Nat \ {0} /\ WordMod \in Nat \ {0}
  BY FontIs, ConsoleAssumption DEF Fits
<1>3. /\ w \in Nat /\ fb.width % f.width \in Nat /\ fb.width = w * f.width + (fb.width % f.width)
      /\ h \in Nat /\ fb.height % f.height \in Nat /\ fb.height = h * f.height + (fb.height % f.height)
  <2>1. w = fb.width \div f.width /\ h = fb.height \div f.height
    BY DEF Fits
  <2>2. /\ fb.width \div f.width \in Nat /\ fb.width % f.width \in 0..(f.width - 1)
        /\ fb.width = (fb.width \div f.width) * f.width + (fb.width % f.width)
    BY <1>1, <1>2, DivMod
  <2>3. /\ fb.height \div f.height \in Nat /\ fb.height % f.height \in 0..(f.height - 1)
        /\ fb.height = (fb.height \div f.height) * f.height + (fb.height % f.height)
    BY <1>1, <1>2, DivMod
  <2> QED BY <2>1, <2>2, <2>3
<1>4. w * f.width \in Nat /\ h * f.height \in Nat /\ w * h \in Nat
  BY <1>2, <1>3
<1>5. w * f.width <= fb.width /\ h * f.height <= fb.height
  BY <1>3, <1>4
<1>6. (w > 0 => h > 0) /\ w * h < WordMod
  <2>1. CASE fb \in Screens
    BY <2>1 DEF Fits, Supported, Valid
  <2>2. CASE fb = NoScreen
    <3>1. w = 0 /\ h = 0
      BY <2>2, <1>2 DEF Fits, NoScreen
    <3> QED BY <3>1, <1>2
  <2> QED BY <2>1, <2>2 DEF Fits, Screen
<1> QED BY <1>3, <1>4, <1>5, <1>6

LEMMA CellPixel ==
  ASSUME Supported, NEW f, NEW w, NEW h, Fits(f, w, h),
         NEW x \in 0..(w - 1), NEW y \in 0..(h - 1),
         NEW row \in 0..(f.height - 1), NEW col \in 0..(f.width - 1)
  PROVE  /\ x * f.width + col \in 0..(w * f.width - 1) /\ x * f.width + col < fb.width
         /\ y * f.height + row \in 0..(h * f.height - 1) /\ y * f.height + row < fb.height
<1>1. /\ w \in Nat /\ h \in Nat /\ f.width \in Nat /\ f.height \in Nat
      /\ fb.width \in Nat /\ fb.height \in Nat
      /\ w * f.width <= fb.width /\ h * f.height <= fb.height
  BY GridSize, FontIs, Depth DEF Fits
<1>2. x * f.width + col \in 0..(w * f.width - 1) /\ w * f.width \in Nat
  BY <1>1, Places
<1>3. y * f.height + row \in 0..(h * f.height - 1) /\ h * f.height \in Nat
  BY <1>1, Places
<1> QED BY <1>1, <1>2, <1>3

(* A pixel that a picture gives the colour k shows it.                     *)
LEMMA PixelShown ==
  ASSUME Supported, Screen, NEW m, DOMAIN m = Bytes(fb), NEW px, Picture(px),
         NEW x \in Nat, NEW y \in Nat, x < fb.width, y < fb.height, <<x, y>> \in DOMAIN px
  PROVE  ShowsPixel(fb, fb_put_pixels(m, px), x, y, px[<<x, y>>])
<1> SUFFICES ASSUME NEW i \in 0..2
             PROVE  fb_put_pixels(m, px)[At(fb, x, y, i)] = <<px[<<x, y>>], i>>
  BY DEF ShowsPixel
<1>1. PixelAfter(m, px, x, y, i)
  BY PixelsPut
<1> QED BY <1>1 DEF PixelAfter

LEMMA PixelStays ==
  ASSUME Supported, Screen, NEW m, DOMAIN m = Bytes(fb), NEW px, Picture(px),
         NEW x \in Nat, NEW y \in Nat, x < fb.width, y < fb.height, <<x, y>> \notin DOMAIN px,
         NEW k, ShowsPixel(fb, m, x, y, k)
  PROVE  ShowsPixel(fb, fb_put_pixels(m, px), x, y, k)
<1> SUFFICES ASSUME NEW i \in 0..2
             PROVE  fb_put_pixels(m, px)[At(fb, x, y, i)] = <<k, i>>
  BY DEF ShowsPixel
<1>1. PixelAfter(m, px, x, y, i)
  BY PixelsPut
<1>2. m[At(fb, x, y, i)] = <<k, i>>
  BY DEF ShowsPixel
<1> QED BY <1>1, <1>2 DEF PixelAfter

(* fb_clear shows blank cells.                                             *)
LEMMA ClearShows ==
  ASSUME Supported, NEW f, NEW w, NEW h, Fits(f, w, h), NEW m, DOMAIN m = Bytes(fb),
         NEW k, NEW b, \A i \in 0..(w * h - 1) : b[i].c = Space /\ b[i].bg = k
  PROVE  Shows(fb, f, fb_put_pixels(m, fb_clear(k)), b, w, h)
<1> DEFINE px == fb_clear(k)  m2 == fb_put_pixels(m, px)
<1> SUFFICES ASSUME NEW y \in 0..(h - 1), NEW x \in 0..(w - 1),
                    NEW row \in 0..(f.height - 1), NEW col \in 0..(f.width - 1)
             PROVE  ShowsPixel(fb, m2, x * f.width + col, y * f.height + row,
                               Ink(f, b[y * w + x], row, col))
  BY DEF Shows, ShowsCell
<1>1. w \in Nat /\ h \in Nat /\ fb.width \in Nat /\ fb.height \in Nat /\ Screen
  BY GridSize, Depth DEF Fits
<1>2. y * w + x \in 0..(w * h - 1)
  <2>1. y * w + x \in 0..(h * w - 1) /\ h * w = w * h
    BY <1>1, Places
  <2> QED BY <2>1
<1>3. Ink(f, b[y * w + x], row, col) = k
  <2>1. <<Space, row, col>> \notin f.bitmap
    BY DEF Supported, Fits, Valid
  <2> QED BY <2>1, <1>2 DEF Ink
<1> DEFINE u == x * f.width + col  v == y * f.height + row
<1>4. u \in Nat /\ v \in Nat /\ u < fb.width /\ v < fb.height
  BY CellPixel
<1> HIDE DEF u, v
<1>5. <<u, v>> \in DOMAIN px /\ px[<<u, v>>] = k /\ Picture(px)
  BY <1>1, <1>4 DEF fb_clear, Picture
<1> HIDE DEF px
<1>6. ShowsPixel(fb, m2, u, v, k)
  BY <1>1, <1>4, <1>5, PixelShown
<1> QED BY <1>3, <1>6 DEF u, v

(* redraw_all shows the cells of the buffer.                               *)
LEMMA RedrawShows ==
  ASSUME Supported, NEW f, Fits(f, cols, rows), font = font_init(f),
         NEW m, DOMAIN m = Bytes(fb), NEW b, b \in [0..(cols * rows - 1) -> CellType]
  PROVE  Shows(fb, f, fb_put_pixels(m, redraw_all(b)), b, cols, rows)
<1> DEFINE px == redraw_all(b)  m2 == fb_put_pixels(m, px)
<1> SUFFICES ASSUME NEW y \in 0..(rows - 1), NEW x \in 0..(cols - 1),
                    NEW row \in 0..(f.height - 1), NEW col \in 0..(f.width - 1)
             PROVE  ShowsPixel(fb, m2, x * f.width + col, y * f.height + row,
                               Ink(f, b[y * cols + x], row, col))
  BY DEF Shows, ShowsCell
<1>1. /\ cols \in Nat /\ rows \in Nat /\ Screen
      /\ f.width \in Nat \ {0} /\ f.height \in Nat \ {0}
      /\ font.width = f.width /\ font.height = f.height
  <2>1. Valid(f) /\ Screen
    BY DEF Fits
  <2>2. cols \in Nat /\ rows \in Nat
    BY GridSize
  <2> QED BY <2>1, <2>2, FontIs
<1> DEFINE cell == b[y * cols + x]
<1>2. cell \in CellType
  <2>1. y * cols + x \in 0..(rows * cols - 1) /\ rows * cols = cols * rows
    BY <1>1, Places
  <2> QED BY <2>1
<1> DEFINE u == x * f.width + col  v == y * f.height + row
<1>3. /\ u \in 0..(cols * f.width - 1) /\ u < fb.width
      /\ v \in 0..(rows * f.height - 1) /\ v < fb.height
  BY CellPixel
<1>4. u \div f.width = x /\ u % f.width = col
  BY <1>1, DivIs, x \in Nat
<1>5. v \div f.height = y /\ v % f.height = row
  BY <1>1, DivIs, y \in Nat
<1>6. GlyphBit(cell.c, row, col) <=> <<cell.c, row, col>> \in f.bitmap
  BY <1>2, GlyphIs DEF Fits, CellType
<1> HIDE DEF u, v
<1>7. <<u, v>> \in DOMAIN px /\ px[<<u, v>>] = Ink(f, cell, row, col)
  BY <1>1, <1>3, <1>4, <1>5, <1>6 DEF redraw_all, Ink
<1>8. Picture(px)
  BY DEF redraw_all, Picture
<1> HIDE DEF px, cell
<1>9. ShowsPixel(fb, m2, u, v, Ink(f, cell, row, col))
  <2>1. ShowsPixel(fb, m2, u, v, px[<<u, v>>])
    BY <1>1, <1>3, <1>7, <1>8, PixelShown, u \in Nat, v \in Nat
  <2> QED BY <2>1, <1>7
<1> QED BY <1>9 DEF u, v, cell

(* Drawing one character changes one cell of the screen.                   *)
LEMMA DrawShows ==
  ASSUME Supported, NEW f, Fits(f, cols, rows), font = font_init(f),
         NEW m, DOMAIN m = Bytes(fb), NEW b, Shows(fb, f, m, b, cols, rows),
         NEW cell \in CellType, NEW cx \in 0..(cols - 1), NEW cy \in 0..(rows - 1),
         NEW b2, \A i \in 0..(cols * rows - 1) :
                   b2[i] = IF i = cy * cols + cx THEN cell ELSE b[i]
  PROVE  Shows(fb, f,
               fb_put_pixels(m, font_draw_char(cell, cx * font.width, cy * font.height)),
               b2, cols, rows)
<1> DEFINE px == font_draw_char(cell, cx * font.width, cy * font.height)
           m2 == fb_put_pixels(m, px)
<1> SUFFICES ASSUME NEW y \in 0..(rows - 1), NEW x \in 0..(cols - 1),
                    NEW row \in 0..(f.height - 1), NEW col \in 0..(f.width - 1)
             PROVE  ShowsPixel(fb, m2, x * f.width + col, y * f.height + row,
                               Ink(f, b2[y * cols + x], row, col))
  BY DEF Shows, ShowsCell
<1>1. /\ cols \in Nat /\ rows \in Nat /\ Screen
      /\ f.width \in Nat \ {0} /\ f.height \in Nat \ {0}
      /\ font.width = f.width /\ font.height = f.height
  BY GridSize, FontIs DEF Fits
<1>2. y * cols + x \in 0..(cols * rows - 1)
  <2>1. y * cols + x \in 0..(rows * cols - 1) /\ rows * cols = cols * rows
    BY <1>1, Places
  <2> QED BY <2>1
<1> DEFINE u == x * f.width + col  v == y * f.height + row
           left == cx * f.width  top == cy * f.height
<1>3. u \in Nat /\ u < fb.width /\ v \in Nat /\ v < fb.height
  BY CellPixel
<1>4. left \in Nat /\ top \in Nat
  BY <1>1
<1>5. px = [p \in (left..(left + f.width - 1)) \X (top..(top + f.height - 1)) |->
              IF GlyphBit(cell.c, p[2] - top, p[1] - left) THEN cell.fg ELSE cell.bg]
  BY <1>1 DEF font_draw_char
<1>6. Picture(px)
  <2> HIDE DEF px, left, top
  <2> QED BY <1>1, <1>4, <1>5 DEF Picture
<1>7. CASE x = cx /\ y = cy
  <2>1. b2[y * cols + x] = cell
    BY <1>2, <1>7
  <2>2. u = left + col /\ v = top + row
    BY <1>7
  <2>3. GlyphBit(cell.c, row, col) <=> <<cell.c, row, col>> \in f.bitmap
    BY GlyphIs DEF Fits, CellType
  <2> HIDE DEF u, v, left, top, px
  <2>4. <<u, v>> \in DOMAIN px
    BY <1>1, <1>4, <1>5, <2>2
  <2>5. v - top = row /\ u - left = col
    BY <1>1, <1>4, <2>2
  <2>6. px[<<u, v>>] = Ink(f, cell, row, col)
    BY <1>5, <2>3, <2>4, <2>5 DEF Ink
  <2>7. ShowsPixel(fb, m2, u, v, Ink(f, cell, row, col))
    BY <1>1, <1>3, <1>6, <2>4, <2>6, PixelShown
  <2> QED BY <2>1, <2>7 DEF u, v
<1>8. CASE ~(x = cx /\ y = cy)
  <2>1. y * cols + x # cy * cols + cx
    BY <1>1, <1>8, Digits, y \in Nat, cy \in Nat
  <2>2. b2[y * cols + x] = b[y * cols + x]
    BY <1>2, <2>1
  <2>3. ShowsPixel(fb, m, u, v, Ink(f, b[y * cols + x], row, col))
    BY DEF Shows, ShowsCell
  <2>4. <<u, v>> \notin DOMAIN px
    <3> SUFFICES ASSUME <<u, v>> \in DOMAIN px PROVE FALSE OBVIOUS
    <3>1. u \in left..(left + f.width - 1) /\ v \in top..(top + f.height - 1)
      <4> HIDE DEF u, v, left, top, px
      <4> QED BY <1>5
    <3>2. PICK c2 \in 0..(f.width - 1) : u = cx * f.width + c2
      <4>1. u - left \in 0..(f.width - 1) /\ u = left + (u - left)
        <5> HIDE DEF u, left
        <5> QED BY <1>1, <1>3, <1>4, <3>1
      <4> QED BY <4>1
    <3>3. PICK r2 \in 0..(f.height - 1) : v = cy * f.height + r2
      <4>1. v - top \in 0..(f.height - 1) /\ v = top + (v - top)
        <5> HIDE DEF v, top
        <5> QED BY <1>1, <1>3, <1>4, <3>1
      <4> QED BY <4>1
    <3>4. x = cx
      BY <3>2, <1>1, Digits, x \in Nat, cx \in Nat
    <3>5. y = cy
      BY <3>3, <1>1, Digits, y \in Nat, cy \in Nat
    <3> QED BY <3>4, <3>5, <1>8
  <2> HIDE DEF u, v, px
  <2>5. ShowsPixel(fb, m2, u, v, Ink(f, b[y * cols + x], row, col))
    BY <1>1, <1>3, <1>6, <2>3, <2>4, PixelStays
  <2> QED BY <2>2, <2>5 DEF u, v
<1> QED BY <1>7, <1>8

-----------------------------------------------------------------------------
(* The inductive invariant.  Good is what holds once the console runs, of  *)
(* the buffer b, the frame buffer m, the rows g that have scrolled away    *)
(* and the cursor x, y.  On a screen too narrow for a character there are  *)
(* no cells, and the cursor's line has no meaning.                         *)
Good(s, f, w, h, b, m, g, x, y) ==
  /\ b \in [0..(w * h - 1) -> CellType]
  /\ DOMAIN m = Bytes(s)
  /\ g \in Seq([1..w -> CellType])
  /\ IF w = 0 THEN x = 0 /\ y \in Nat ELSE x \in 0..(w - 1) /\ y \in 0..(h - 1)
  /\ Shows(s, f, m, b, w, h)

Running(f) ==
  /\ Fits(f, cols, rows) /\ font = font_init(f)
  /\ Good(fb, f, cols, rows, buffer, fbmem, gone, cursor_x, cursor_y)

IInv ==
  /\ initialized \in BOOLEAN /\ wild = FALSE
  /\ Screen /\ DOMAIN fbmem = Bytes(fb)
  /\ fg_color \in Colors /\ bg_color \in Colors
  /\ IF initialized THEN \E f : Running(f) ELSE DOMAIN buffer = {} /\ gone = << >>

LEMMA InitInv == Init => IInv
<1> SUFFICES ASSUME Init PROVE IInv
  OBVIOUS
<1>1. Screen /\ Bytes(fb) = {}
  BY DEF Init, Screen, Bytes, NoScreen
<1>2. DOMAIN fbmem = {} /\ DOMAIN buffer = {}
  BY DEF Init
<1>3. fg_color \in Colors /\ bg_color \in Colors
  BY ConsoleAssumption DEF Init
<1> QED BY <1>1, <1>2, <1>3 DEF Init, IInv

LEMMA Blank == ASSUME fg_color \in Colors, bg_color \in Colors, NEW c \in Chars
  PROVE Cell(c) \in CellType /\ Cell(Space) \in CellType
BY ConsoleAssumption DEF Cell, CellType

(* How an action of the running console keeps the invariant.               *)
LEMMA KeepsInv ==
  ASSUME IInv, NEW f, Running(f), initialized, UNCHANGED screenVars, wild' = FALSE,
         fg_color' \in Colors, bg_color' \in Colors,
         Good(fb, f, cols, rows, buffer', fbmem', gone', cursor_x', cursor_y')
  PROVE  IInv' /\ Running(f)'
<1>1. /\ fb' = fb /\ font' = font /\ cols' = cols /\ rows' = rows
      /\ initialized' = initialized
  BY DEF screenVars
<1>2. Screen' /\ Fits(f, cols, rows)'
  BY <1>1 DEF IInv, Running, Screen, Fits
<1>3. DOMAIN fbmem' = Bytes(fb')
  BY <1>1 DEF Good
<1>4. Good(fb, f, cols, rows, buffer, fbmem, gone, cursor_x, cursor_y)'
  BY <1>1
<1>5. Running(f)'
  BY <1>1, <1>2, <1>4 DEF Running
<1> QED BY <1>1, <1>2, <1>3, <1>5 DEF IInv

(* The end of console_putchar: what Settle(b, m, y) leads to.              *)
Settled(f, b, x, y) ==
  /\ wild' = FALSE
  /\ Good(fb, f, cols, rows, buffer', fbmem', gone', x, cursor_y')
  /\ cols > 0 => IF y < rows
                 THEN buffer' = b /\ gone' = gone /\ cursor_y' = y
                 ELSE /\ buffer' = Scrolled(b) /\ gone' = Append(gone, Row(b, 0))
                      /\ cursor_y' = rows - 1 /\ y = rows

LEMMA SettleKeeps ==
  ASSUME Supported, IInv, NEW f, Running(f), NEW b, NEW m, NEW x, NEW y \in Nat,
         b \in [0..(cols * rows - 1) -> CellType], DOMAIN m = Bytes(fb),
         Shows(fb, f, m, b, cols, rows),
         IF cols = 0 THEN x = 0 ELSE x \in 0..(cols - 1) /\ y <= rows,
         Settle(b, m, y)
  PROVE  Settled(f, b, x, y)
<1>1. /\ Fits(f, cols, rows) /\ font = font_init(f) /\ Screen
      /\ gone \in Seq([1..cols -> CellType]) /\ wild = FALSE
      /\ fg_color \in Colors /\ bg_color \in Colors
  BY DEF Running, Good, IInv
<1>2. cols \in Nat /\ rows \in Nat /\ (cols > 0 => rows > 0) /\ cols * rows \in Nat /\ cols * rows < WordMod
  BY <1>1, GridSize
<1>3. WordMod \in Nat \ {0}
  BY ConsoleAssumption
<1>4. cols > 0 => 0 \in DOMAIN b
  <2>1. cols > 0 => cols * rows > 0
    BY <1>2
  <2> QED BY <2>1, <1>2
<1>5. CASE ~OffScreen(y)
  <2>1. buffer' = b /\ fbmem' = m /\ cursor_y' = y /\ gone' = gone /\ wild' = wild
    BY <1>5 DEF Settle
  <2>2. y < rows
    BY <1>2, <1>5 DEF OffScreen
  <2>3. IF cols = 0 THEN x = 0 /\ y \in Nat ELSE x \in 0..(cols - 1) /\ y \in 0..(rows - 1)
    BY <1>2, <2>2
  <2> QED BY <1>1, <2>1, <2>2, <2>3 DEF Good, Settled
<1>6. CASE OffScreen(y) /\ cols = 0
  <2>1. b \in [{} -> CellType] /\ DOMAIN b = {}
    BY <1>2, <1>6
  <2>2. buffer' = b /\ fbmem' = m /\ gone' = gone /\ wild' = FALSE
    <3>1. buffer' = b /\ fbmem' = m /\ gone' = gone /\ wild' = (cols > 0)
      BY <2>1, <1>6 DEF Settle
    <3>2. (cols > 0) = FALSE
      BY <1>6
    <3> QED BY <3>1, <3>2
  <2>3. cursor_y' \in Nat
    <3>1. cursor_y' = (rows - 1) % WordMod
      BY <1>6 DEF Settle
    <3> QED BY <3>1, <1>2, <1>3
  <2> QED BY <1>1, <1>2, <1>6, <2>2, <2>3 DEF Good, Settled
<1>7. CASE OffScreen(y) /\ cols > 0
  <2>1. rows \in Nat \ {0} /\ cols \in Nat \ {0}
    BY <1>2, <1>7
  <2>2. y = rows
    BY <1>7, <2>1 DEF OffScreen
  <2>3. DOMAIN b # {}
    BY <1>4, <1>7
  <2>4. /\ buffer' = Scrolled(b)
        /\ fbmem' = fb_put_pixels(m, redraw_all(Scrolled(b)))
        /\ wild' = Outside(redraw_all(b))
        /\ gone' = Append(gone, Row(b, 0))
        /\ cursor_y' = (rows - 1) % WordMod
    BY <2>3, <1>7 DEF Settle
  <2>5. cursor_y' = rows - 1
    <3>1. 1 * rows <= cols * rows
      BY <2>1, MulMono
    <3>2. rows - 1 \in 0..(WordMod - 1)
      BY <3>1, <1>2, <1>3, <2>1
    <3> QED BY <3>2, <2>4, <1>3
  <2>6. wild' = FALSE
    <3>1. Picture(redraw_all(b))
      BY DEF Picture, redraw_all
    <3> QED BY <3>1, <2>4, <1>1, NothingOutside DEF IInv
  <2>7. buffer' \in [0..(cols * rows - 1) -> CellType]
    <3>1. Scrolled(b) = [i \in 0..(cols * rows - 1) |->
                           IF i >= (rows - 1) * cols THEN Cell(Space) ELSE b[i + cols]]
      BY <2>1, ScrolledIs
    <3>2. Cell(Space) \in CellType
      BY <1>1, Blank, ConsoleAssumption
    <3> DEFINE n == (rows - 1) * cols
    <3>3. n \in Nat /\ cols * rows = n + cols
      BY <2>1
    <3> HIDE DEF n
    <3>4. \A i \in 0..(cols * rows - 1) : ~(i >= n) => i + cols \in 0..(cols * rows - 1)
      BY <3>3, <2>1
    <3>5. \A i \in 0..(cols * rows - 1) : (IF i >= n THEN Cell(Space) ELSE b[i + cols]) \in CellType
      BY <3>2, <3>4
    <3> QED BY <3>1, <3>5, <2>4 DEF n
  <2>8. Shows(fb, f, fbmem', buffer', cols, rows)
    BY <1>1, <2>4, <2>7, RedrawShows
  <2>9. DOMAIN fbmem' = Bytes(fb)
    BY <2>4, PutDomain
  <2>10. gone' \in Seq([1..cols -> CellType])
    <3>1. Row(b, 0) \in [1..cols -> CellType]
      <4>1. \A k \in 1..cols : 0 * cols + k - 1 \in 0..(cols * rows - 1)
        <5>1. cols <= cols * rows
          <6>1. 1 * cols <= rows * cols /\ rows * cols = cols * rows
            BY <2>1, MulMono
          <6> QED BY <6>1, <2>1
        <5> QED BY <5>1, <2>1, <1>2
      <4> QED BY <4>1 DEF Row
    <3> QED BY <3>1, <1>1, <2>4
  <2>11. cursor_y' \in 0..(rows - 1) /\ x \in 0..(cols - 1) /\ ~(y < rows)
    BY <2>1, <2>2, <2>5
  <2> QED BY <2>2, <2>4, <2>5, <2>6, <2>7, <2>8, <2>9, <2>10, <2>11, <2>1 DEF Good, Settled
<1> QED BY <1>2, <1>5, <1>6, <1>7

-----------------------------------------------------------------------------
(* Each action keeps the invariant.                                        *)
LEMMA FbInitInv == ASSUME IInv, NEW s \in Screens, fb_init(s) PROVE IInv'
<1>1. Screen'
  BY DEF fb_init, Screen
<1>2. DOMAIN fbmem' = Bytes(fb')
  BY DEF fb_init, Bytes
<1>3. /\ initialized' = FALSE /\ wild' = FALSE /\ fg_color' = fg_color /\ bg_color' = bg_color
      /\ buffer' = buffer /\ gone' = gone /\ initialized = FALSE
  BY DEF fb_init, IInv, inkVars
<1> QED BY <1>1, <1>2, <1>3 DEF IInv

LEMMA ConsoleInitFacts ==
  ASSUME Supported, IInv, NEW f \in Fonts, console_init(f, FALSE)
  PROVE  /\ Fits(f, cols', rows')
         /\ buffer' \in [0..(cols' * rows' - 1) -> CellType]
         /\ \A i \in 0..(cols' * rows' - 1) : buffer'[i] = [c |-> Space, fg |-> White, bg |-> Black]
         /\ IInv'
<1>1. Valid(f) /\ Screen /\ DOMAIN fbmem = Bytes(fb) /\ initialized = FALSE /\ gone = << >>
  BY DEF console_init, Valid, IInv
<1>2. font' = font_init(f) /\ font'.width = f.width /\ font'.height = f.height
  BY <1>1, FontIs DEF console_init
<1>3. cols' = fb.width \div f.width /\ rows' = fb.height \div f.height
  BY <1>2 DEF console_init
<1>4. Fits(f, cols', rows')
  BY <1>1, <1>3 DEF Fits
<1>5. /\ cols' \in Nat /\ rows' \in Nat /\ (cols' > 0 => rows' > 0)
  BY <1>4, GridSize
<1>6. /\ [c |-> Space, fg |-> White, bg |-> Black] \in CellType
      /\ White \in Colors /\ Black \in Colors
  BY ConsoleAssumption DEF CellType
<1>7. buffer' = [i \in 0..(cols' * rows' - 1) |-> [c |-> Space, fg |-> White, bg |-> Black]]
  BY DEF console_init
<1>8. buffer' \in [0..(cols' * rows' - 1) -> CellType]
  BY <1>6, <1>7
<1>9. fbmem' = fb_put_pixels(fbmem, fb_clear(Black))
  BY DEF console_init
<1>10. DOMAIN fbmem' = Bytes(fb)
  BY <1>1, <1>9, PutDomain
<1>11. \A i \in 0..(cols' * rows' - 1) : buffer'[i] = [c |-> Space, fg |-> White, bg |-> Black]
  BY <1>7
<1>12. Shows(fb, f, fbmem', buffer', cols', rows')
  <2>1. \A i \in 0..(cols' * rows' - 1) : buffer'[i].c = Space /\ buffer'[i].bg = Black
    BY <1>11
  <2>2. ASSUME NEW w, w = cols', NEW h, h = rows', NEW b, b = buffer'
        PROVE  Shows(fb, f, fb_put_pixels(fbmem, fb_clear(Black)), b, w, h)
    BY <1>1, <1>4, <2>1, <2>2, ClearShows
  <2> QED BY <1>9, <2>2
<1>13. wild' = FALSE
  <2>1. Picture(fb_clear(Black))
    BY <1>1, Depth DEF Picture, fb_clear
  <2>2. Outside(fb_clear(Black)) = FALSE
    BY <1>1, <2>1, NothingOutside
  <2> QED BY <2>2 DEF console_init
<1>14. /\ cursor_x' = 0 /\ cursor_y' = 0 /\ gone' = << >> /\ fb' = fb /\ initialized' = TRUE
       /\ fg_color' = White /\ bg_color' = Black
  BY <1>1 DEF console_init
<1>15. Good(fb, f, cols', rows', buffer', fbmem', gone', cursor_x', cursor_y')
  <2>1. gone' \in Seq([1..cols' -> CellType])
    BY <1>14
  <2>2. IF cols' = 0 THEN cursor_x' = 0 /\ cursor_y' \in Nat
        ELSE cursor_x' \in 0..(cols' - 1) /\ cursor_y' \in 0..(rows' - 1)
    <3>1. \A w, h \in Nat : (w > 0 => h > 0) /\ w # 0 => 0 \in 0..(w - 1) /\ 0 \in 0..(h - 1)
      OBVIOUS
    <3>2. cols' # 0 => 0 \in 0..(cols' - 1) /\ 0 \in 0..(rows' - 1)
      BY <1>5, <3>1
    <3> QED BY <3>2, <1>14
  <2> QED BY <1>8, <1>10, <1>12, <2>1, <2>2 DEF Good
<1>16. Fits(f, cols, rows)' /\ Screen'
  BY <1>4, <1>14 DEF Fits, Screen
<1>17. Running(f)'
  BY <1>2, <1>14, <1>15, <1>16 DEF Running
<1>18. IInv'
  BY <1>6, <1>10, <1>13, <1>14, <1>16, <1>17 DEF IInv
<1> QED BY <1>4, <1>8, <1>11, <1>18

LEMMA InvalidFontInv == ASSUME IInv, NEW f \in Fonts, InvalidFont(f) PROVE IInv'
<1>1. Screen'
  BY DEF InvalidFont, Screen, IInv
<1>2. /\ initialized' = FALSE /\ initialized = FALSE /\ wild' = FALSE /\ fb' = fb
      /\ fg_color' = fg_color /\ bg_color' = bg_color
      /\ buffer' = buffer /\ gone' = gone /\ fbmem' = fbmem
  BY DEF InvalidFont, IInv, inkVars
<1> QED BY <1>1, <1>2 DEF IInv

LEMMA ClearInv == ASSUME Supported, IInv, console_clear PROVE IInv'
<1>1. PICK f : Running(f)
  BY DEF console_clear, Ready, IInv
<1>2. /\ initialized /\ wild' = FALSE /\ fg_color' = fg_color /\ bg_color' = bg_color
      /\ UNCHANGED screenVars /\ cursor_x' = 0 /\ cursor_y' = 0 /\ gone' = << >>
      /\ fg_color \in Colors /\ bg_color \in Colors
  BY DEF console_clear, Ready, IInv, inkVars
<1>3. Fits(f, cols, rows) /\ DOMAIN fbmem = Bytes(fb) /\ DOMAIN buffer = 0..(cols * rows - 1)
  BY <1>1 DEF Running, Good
<1>4. cols \in Nat /\ rows \in Nat /\ (cols > 0 => rows > 0)
  BY <1>3, GridSize
<1>5. Cell(Space) \in CellType /\ Cell(Space).c = Space /\ Cell(Space).bg = bg_color
  BY <1>2, ConsoleAssumption DEF Cell, CellType
<1>6. buffer' = [i \in 0..(cols * rows - 1) |-> Cell(Space)]
  BY <1>3 DEF console_clear
<1>7. buffer' \in [0..(cols * rows - 1) -> CellType]
  BY <1>5, <1>6
<1>8. fbmem' = fb_put_pixels(fbmem, fb_clear(bg_color))
  BY DEF console_clear
<1>9. DOMAIN fbmem' = Bytes(fb)
  BY <1>3, <1>8, PutDomain
<1>10. Shows(fb, f, fbmem', buffer', cols, rows)
  <2>1. \A i \in 0..(cols * rows - 1) : buffer'[i].c = Space /\ buffer'[i].bg = bg_color
    BY <1>5, <1>6
  <2>2. ASSUME NEW b, b = buffer'
        PROVE  Shows(fb, f, fb_put_pixels(fbmem, fb_clear(bg_color)), b, cols, rows)
    BY <1>3, <2>1, <2>2, ClearShows
  <2> QED BY <1>8, <2>2
<1>11. gone' \in Seq([1..cols -> CellType])
  BY <1>2
<1>12. IF cols = 0 THEN cursor_x' = 0 /\ cursor_y' \in Nat
       ELSE cursor_x' \in 0..(cols - 1) /\ cursor_y' \in 0..(rows - 1)
  BY <1>2, <1>4
<1>13. Good(fb, f, cols, rows, buffer', fbmem', gone', cursor_x', cursor_y')
  BY <1>7, <1>9, <1>10, <1>11, <1>12 DEF Good
<1> QED BY <1>1, <1>2, <1>13, KeepsInv

LEMMA SetColorInv == ASSUME IInv, NEW k \in Inks, console_set_color(k[1], k[2]) PROVE IInv'
<1>1. PICK f : Running(f)
  BY DEF console_set_color, Ready, IInv
<1>2. k[1] \in Colors /\ k[2] \in Colors
  BY ConsoleAssumption
<1>3. /\ initialized /\ wild' = FALSE /\ fg_color' \in Colors /\ bg_color' \in Colors
      /\ UNCHANGED screenVars /\ UNCHANGED <<cursor_x, cursor_y, gone, buffer, fbmem>>
  BY <1>2 DEF console_set_color, Ready, IInv
<1>4. Good(fb, f, cols, rows, buffer', fbmem', gone', cursor_x', cursor_y')
  BY <1>1, <1>3 DEF Running
<1> QED BY <1>1, <1>3, <1>4, KeepsInv

(* What the three kinds of console_putchar give Settle, and so get.        *)
LEMMA NewlineSettles ==
  ASSUME Supported, IInv, NEW f, Running(f), putchar_newline
  PROVE  Settled(f, buffer, 0, Down) /\ cursor_x' = 0 /\ (cols > 0 => Down = cursor_y + 1)
<1>1. /\ Fits(f, cols, rows) /\ DOMAIN fbmem = Bytes(fb)
      /\ buffer \in [0..(cols * rows - 1) -> CellType]
      /\ Shows(fb, f, fbmem, buffer, cols, rows)
      /\ cursor_y \in Nat /\ (cols # 0 => cursor_y \in 0..(rows - 1))
  BY DEF Running, Good
<1>2. cols \in Nat /\ rows \in Nat /\ (cols > 0 => rows > 0) /\ cols * rows < WordMod /\ cols * rows \in Nat
  BY <1>1, GridSize
<1>3. WordMod \in Nat \ {0}
  BY ConsoleAssumption
<1>4. cols > 0 => Down = cursor_y + 1
  <2> SUFFICES ASSUME cols > 0 PROVE Down = cursor_y + 1
    OBVIOUS
  <2>1. 1 * rows <= cols * rows
    BY <1>2, MulMono
  <2>2. cursor_y + 1 \in 0..(WordMod - 1)
    BY <2>1, <1>1, <1>2, <1>3
  <2> QED BY <2>2, <1>3 DEF Down
<1>5. Down \in Nat
  BY <1>1, <1>3 DEF Down
<1>6. IF cols = 0 THEN 0 = 0 ELSE 0 \in 0..(cols - 1) /\ Down <= rows
  BY <1>1, <1>2, <1>4
<1>7. Settle(buffer, fbmem, Down) /\ cursor_x' = 0
  BY DEF putchar_newline
<1> HIDE DEF Down
<1>8. Settled(f, buffer, 0, Down)
  BY <1>1, <1>5, <1>6, <1>7, SettleKeeps
<1> QED BY <1>4, <1>7, <1>8

LEMMA BackSettles ==
  ASSUME Supported, IInv, NEW f, Running(f), NEW x \in {0, Left}, putchar_back(x)
  PROVE  Settled(f, buffer, x, cursor_y) /\ cursor_x' = x
<1>1. /\ Fits(f, cols, rows) /\ DOMAIN fbmem = Bytes(fb)
      /\ buffer \in [0..(cols * rows - 1) -> CellType]
      /\ Shows(fb, f, fbmem, buffer, cols, rows)
      /\ IF cols = 0 THEN cursor_x = 0 /\ cursor_y \in Nat
         ELSE cursor_x \in 0..(cols - 1) /\ cursor_y \in 0..(rows - 1)
  BY DEF Running, Good
<1>2. cols \in Nat /\ rows \in Nat
  BY <1>1, GridSize
<1>3. cursor_y \in Nat /\ IF cols = 0 THEN x = 0 ELSE x \in 0..(cols - 1) /\ cursor_y <= rows
  BY <1>1, <1>2 DEF Left
<1>4. Settle(buffer, fbmem, cursor_y) /\ cursor_x' = x
  BY DEF putchar_back
<1>5. Settled(f, buffer, x, cursor_y)
  BY <1>1, <1>3, <1>4, SettleKeeps
<1> QED BY <1>4, <1>5

Wraps == cursor_x + 1 >= cols
NextX == IF Wraps THEN 0 ELSE cursor_x + 1
NextY == IF Wraps THEN Down ELSE cursor_y
Typed(c) ==
  [j \in DOMAIN buffer |->
     IF j = (cursor_y * cols + cursor_x) % WordMod THEN Cell(c) ELSE buffer[j]]

LEMMA OtherSettles ==
  ASSUME Supported, IInv, NEW f, Running(f), NEW c \in Chars, putchar_other(c)
  PROVE  /\ Settled(f, Typed(c), NextX, NextY) /\ cursor_x' = NextX
         /\ cols > 0 => /\ (cursor_y * cols + cursor_x) % WordMod = cursor_y * cols + cursor_x
                        /\ cursor_y * cols + cursor_x \in 0..(cols * rows - 1)
                        /\ Down = cursor_y + 1
<1> DEFINE at == cursor_y * cols + cursor_x
           i == at % WordMod
           px == font_draw_char(Cell(c), cursor_x * font.width, cursor_y * font.height)
<1>1. /\ Fits(f, cols, rows) /\ DOMAIN fbmem = Bytes(fb) /\ Screen /\ font = font_init(f)
      /\ buffer \in [0..(cols * rows - 1) -> CellType]
      /\ Shows(fb, f, fbmem, buffer, cols, rows)
      /\ IF cols = 0 THEN cursor_x = 0 /\ cursor_y \in Nat
         ELSE cursor_x \in 0..(cols - 1) /\ cursor_y \in 0..(rows - 1)
      /\ fg_color \in Colors /\ bg_color \in Colors
  BY DEF Running, Good, IInv
<1>2. cols \in Nat /\ rows \in Nat /\ (cols > 0 => rows > 0) /\ cols * rows < WordMod /\ cols * rows \in Nat
  BY <1>1, GridSize
<1>3. WordMod \in Nat \ {0} /\ cursor_x \in Nat /\ cursor_y \in Nat /\ Cell(c) \in CellType
  BY <1>1, <1>2, ConsoleAssumption, Blank
<1>4. cols > 0 => Down = cursor_y + 1
  <2> SUFFICES ASSUME cols > 0 PROVE Down = cursor_y + 1
    OBVIOUS
  <2>1. 1 * rows <= cols * rows
    BY <1>2, MulMono
  <2>2. cursor_y + 1 \in 0..(WordMod - 1)
    BY <2>1, <1>1, <1>2, <1>3
  <2> QED BY <2>2, <1>3 DEF Down
<1>5. Down \in Nat
  BY <1>3 DEF Down
<1>6. cols > 0 => at \in 0..(cols * rows - 1) /\ i = at
  <2> SUFFICES ASSUME cols > 0 PROVE at \in 0..(cols * rows - 1) /\ i = at
    OBVIOUS
  <2>1. at \in 0..(rows * cols - 1) /\ rows * cols = cols * rows
    BY <1>1, <1>2, Places
  <2>2. at \in 0..(WordMod - 1)
    BY <2>1, <1>2, <1>3
  <2> HIDE DEF at
  <2> QED BY <2>1, <2>2, <1>3
<1>7. Picture(px)
  <2>1. font.width \in Nat \ {0} /\ font.height \in Nat \ {0}
    BY <1>1, FontIs DEF Fits
  <2>2. cursor_x * font.width \in Nat /\ cursor_y * font.height \in Nat
    BY <2>1, <1>3
  <2> QED BY <2>1, <2>2 DEF Picture, font_draw_char
<1>8. Outside(px) = FALSE
  <2> HIDE DEF px
  <2> QED BY <1>1, <1>7, NothingOutside
<1>9. ~(~Nullptr /\ i \notin DOMAIN buffer)
  <2>1. CASE cols = 0
    BY <2>1, <1>1, <1>2 DEF Nullptr
  <2>2. CASE cols > 0
    BY <2>2, <1>1, <1>6
  <2> QED BY <2>1, <2>2, <1>2
<1>10. /\ cursor_x' = NextX
       /\ Settle(Typed(c), fb_put_pixels(fbmem, px), NextY)
  <2> HIDE DEF i, px
  <2> USE <1>8, <1>9
  <2> QED BY DEF putchar_other, NextX, NextY, Typed, Wraps, i, at, px
<1>11. Typed(c) \in [0..(cols * rows - 1) -> CellType]
  BY <1>1, <1>3 DEF Typed
<1>12. DOMAIN fb_put_pixels(fbmem, px) = Bytes(fb)
  BY <1>1, PutDomain
<1>13. Shows(fb, f, fb_put_pixels(fbmem, px), Typed(c), cols, rows)
  <2>1. CASE cols = 0
    BY <2>1 DEF Shows
  <2>2. CASE cols > 0
    <3>1. \A j \in 0..(cols * rows - 1) :
            Typed(c)[j] = IF j = cursor_y * cols + cursor_x THEN Cell(c) ELSE buffer[j]
      <4> HIDE DEF at
      <4> QED BY <1>1, <1>6, <2>2 DEF Typed, at
    <3> QED BY <1>1, <1>2, <1>3, <2>2, <3>1, DrawShows
  <2> QED BY <2>1, <2>2, <1>2
<1>14. NextY \in Nat
  BY <1>3, <1>5 DEF NextY
<1>15. IF cols = 0 THEN NextX = 0 ELSE NextX \in 0..(cols - 1) /\ NextY <= rows
  <2> HIDE DEF at
  <2> QED BY <1>1, <1>2, <1>3, <1>4 DEF NextX, NextY, Wraps
<1>16. Settled(f, Typed(c), NextX, NextY)
  <2> HIDE DEF px
  <2> QED BY <1>10, <1>11, <1>12, <1>13, <1>14, <1>15, SettleKeeps
<1> QED BY <1>4, <1>6, <1>10, <1>16

LEMMA PutcharInv ==
  ASSUME Supported, IInv,
         putchar_newline \/ (\E x \in {0, Left} : putchar_back(x)) \/ \E c \in Chars : putchar_other(c)
  PROVE  IInv'
<1>1. initialized
  BY DEF putchar_newline, putchar_back, putchar_other, Ready
<1>2. PICK f : Running(f)
  BY <1>1 DEF IInv
<1>3. /\ UNCHANGED screenVars /\ fg_color' \in Colors /\ bg_color' \in Colors
  BY DEF putchar_newline, putchar_back, putchar_other, IInv, inkVars
<1>4. \E b, x, y : Settled(f, b, x, y) /\ cursor_x' = x
  <2>1. CASE putchar_newline
    BY <1>2, <2>1, NewlineSettles
  <2>2. ASSUME NEW x \in {0, Left}, putchar_back(x) PROVE \E b, y : Settled(f, b, x, y) /\ cursor_x' = x
    BY <1>2, <2>2, BackSettles
  <2>3. ASSUME NEW c \in Chars, putchar_other(c)
        PROVE  \E b, x, y : Settled(f, b, x, y) /\ cursor_x' = x
    BY <1>2, <2>3, OtherSettles
  <2> QED BY <2>1, <2>2, <2>3
<1>5. wild' = FALSE /\ Good(fb, f, cols, rows, buffer', fbmem', gone', cursor_x', cursor_y')
  BY <1>4 DEF Settled
<1> QED BY <1>1, <1>2, <1>3, <1>5, KeepsInv

LEMMA StutterInv == ASSUME IInv, UNCHANGED vars PROVE IInv'
<1>1. /\ initialized' = initialized /\ wild' = wild /\ fb' = fb /\ fbmem' = fbmem
      /\ fg_color' = fg_color /\ bg_color' = bg_color /\ buffer' = buffer /\ gone' = gone
      /\ UNCHANGED screenVars /\ cursor_x' = cursor_x /\ cursor_y' = cursor_y
  BY DEF vars, screenVars
<1>2. CASE initialized
  <2>1. PICK f : Running(f)
    BY <1>2 DEF IInv
  <2>2. Good(fb, f, cols, rows, buffer', fbmem', gone', cursor_x', cursor_y')
    BY <1>1, <2>1 DEF Running
  <2>3. wild' = FALSE /\ fg_color' \in Colors /\ bg_color' \in Colors
    BY <1>1 DEF IInv
  <2> QED BY <1>1, <1>2, <2>1, <2>2, <2>3, KeepsInv
<1>3. CASE ~initialized
  BY <1>1, <1>3 DEF IInv, Screen
<1> QED BY <1>2, <1>3

LEMMA StepInv == ASSUME Supported, IInv, [Next]_vars PROVE IInv'
<1>1. ASSUME NEW s \in Screens, fb_init(s) PROVE IInv'
  BY <1>1, FbInitInv
<1>2. ASSUME NEW f \in Fonts, NEW fails \in {FALSE, BufferFails}, console_init(f, fails) PROVE IInv'
  <2>1. fails = FALSE
    BY DEF Supported
  <2> QED BY <1>2, <2>1, ConsoleInitFacts
<1>3. ASSUME NEW f \in Fonts, InvalidFont(f) PROVE IInv'
  BY <1>3, InvalidFontInv
<1>4. CASE console_clear
  BY <1>4, ClearInv
<1>5. ASSUME NEW k \in Inks, console_set_color(k[1], k[2]) PROVE IInv'
  BY <1>5, SetColorInv
<1>6. ASSUME putchar_newline \/ putchar_back(0) \/ putchar_back(Left)
               \/ \E c \in Chars : putchar_other(c)
      PROVE  IInv'
  BY <1>6, PutcharInv
<1>7. CASE UNCHANGED vars
  BY <1>7, StutterInv
<1> QED BY <1>1, <1>2, <1>3, <1>4, <1>5, <1>6, <1>7 DEF Next

(* The cursor stays on the grid, buffer and frame buffer keep their sizes  *)
(* and the screen shows the buffer, in every reachable state.              *)
THEOREM Invariance == ASSUME Supported PROVE Spec => []IInv
<1>1. Init => IInv
  BY InitInv
<1>2. IInv /\ [Next]_vars => IInv'
  BY StepInv
<1> QED BY <1>1, <1>2, PTL DEF Spec

(* The console touches no memory outside its buffer and the frame buffer   *)
(* (console_putchar, scroll, redraw_all, console_clear, fb_put_pixel).     *)
THEOREM NoWildAccessHolds == ASSUME Supported PROVE Spec => []NoWildAccess
<1>1. IInv => NoWildAccess
  BY DEF IInv, NoWildAccess
<1> QED BY <1>1, Invariance, PTL

LEMMA InvShows == ASSUME Supported, IInv PROVE ScreenShowsBuffer
<1>1. CASE ~initialized
  BY <1>1 DEF IInv, ScreenShowsBuffer, Nullptr
<1>2. CASE initialized
  <2>1. PICK f : Running(f)
    BY <1>2 DEF IInv
  <2>2. font.file = f /\ font.width = f.width /\ font.height = f.height
    BY <2>1, FontIs DEF Running, Fits
  <2>3. Shows(fb, f, fbmem, buffer, cols, rows)
    BY <2>1 DEF Running, Good
  <2> SUFFICES ASSUME NEW p \in Grid,
                      NEW row \in 0..(font.height - 1), NEW col \in 0..(font.width - 1)
               PROVE  Displayed(p[2] * font.width + col, p[1] * font.height + row,
                                IF <<buffer[p[1] * cols + p[2]].c, row, col>> \in font.file.bitmap
                                THEN buffer[p[1] * cols + p[2]].fg
                                ELSE buffer[p[1] * cols + p[2]].bg)
    BY DEF ScreenShowsBuffer
  <2>4. p[1] \in 0..(rows - 1) /\ p[2] \in 0..(cols - 1)
    BY DEF Grid
  <2>5. ShowsPixel(fb, fbmem, p[2] * f.width + col, p[1] * f.height + row,
                   Ink(f, buffer[p[1] * cols + p[2]], row, col))
    BY <2>2, <2>3, <2>4 DEF Shows, ShowsCell
  <2> QED BY <2>2, <2>5 DEF Displayed, ShowsPixel, At, Ink
<1> QED BY <1>1, <1>2

(* Every cell is displayed as the font has it, in the buffer's colours,    *)
(* after any mixture of writing, clearing, colour changes and scrolling    *)
(* (font_draw_char, redraw_all, fb_put_pixel, memmove).                    *)
THEOREM ScreenShowsBufferHolds == ASSUME Supported PROVE Spec => []ScreenShowsBuffer
<1>1. IInv => ScreenShowsBuffer
  BY InvShows
<1> QED BY <1>1, Invariance, PTL

-----------------------------------------------------------------------------
(* The page of the terminal: the rows g that have scrolled away, then the  *)
(* rows of the buffer b.                                                   *)
RowsOf(b, w, h) == [y \in 1..h |-> [x \in 1..w |-> b[(y - 1) * w + x - 1]]]
PageOf(g, b, w, h) == g \o RowsOf(b, w, h)

Buffer(b, w, h) == w \in Nat /\ h \in Nat /\ b \in [0..(w * h - 1) -> CellType]

LEMMA CellIndex ==
  ASSUME NEW w \in Nat, NEW h \in Nat, NEW y \in 1..h, NEW x \in 1..w
  PROVE  (y - 1) * w + x - 1 \in 0..(w * h - 1)
<1>1. /\ (y - 1) * w + (x - 1) \in 0..(h * w - 1)
      /\ (y - 1) * w \in Nat /\ h * w = w * h
  BY Places, y - 1 \in 0..(h - 1), x - 1 \in 0..(w - 1)
<1> QED BY <1>1

LEMMA RowsSeq ==
  ASSUME NEW w, NEW h, NEW b, Buffer(b, w, h)
  PROVE  RowsOf(b, w, h) \in Seq([1..w -> CellType]) /\ Len(RowsOf(b, w, h)) = h
<1>1. w \in Nat /\ h \in Nat /\ b \in [0..(w * h - 1) -> CellType]
  BY DEF Buffer
<1>2. \A y \in 1..h : [x \in 1..w |-> b[(y - 1) * w + x - 1]] \in [1..w -> CellType]
  <2> SUFFICES ASSUME NEW y \in 1..h, NEW x \in 1..w
               PROVE  b[(y - 1) * w + x - 1] \in CellType
    OBVIOUS
  <2>1. (y - 1) * w + x - 1 \in 0..(w * h - 1)
    BY <1>1, CellIndex
  <2> QED BY <2>1, <1>1
<1> DEFINE R(y) == [x \in 1..w |-> b[(y - 1) * w + x - 1]]
<1>3. \A y \in 1..h : R(y) \in [1..w -> CellType]
  BY <1>2
<1> HIDE DEF R
<1>4. [y \in 1..h |-> R(y)] \in Seq([1..w -> CellType]) /\ Len([y \in 1..h |-> R(y)]) = h
  BY <1>1, <1>3
<1> QED BY <1>4 DEF RowsOf, R

(* u is s, of length m, followed by t, of length n.                        *)
IsCat(u, s, t, m, n) ==
  /\ m \in Nat /\ n \in Nat /\ Len(u) = m + n
  /\ \A i \in 1..m : u[i] = s[i]
  /\ \A i \in 1..n : u[m + i] = t[i]

LEMMA Cat ==
  ASSUME NEW S, NEW s \in Seq(S), NEW t \in Seq(S)
  PROVE  s \o t \in Seq(S) /\ IsCat(s \o t, s, t, Len(s), Len(t))
<1> DEFINE u == s \o t  m == Len(s)  n == Len(t)
<1>1. /\ u \in Seq(S) /\ Len(u) = m + n
      /\ \A i \in 1..(m + n) : u[i] = IF i <= m THEN s[i] ELSE t[i - m]
  BY ConcatProperties
<1>2. m \in Nat /\ n \in Nat
  BY LenProperties
<1> HIDE DEF u, m, n
<1>3. \A i \in 1..m : u[i] = s[i]
  BY <1>1, <1>2
<1>4. ASSUME NEW i \in 1..n PROVE u[m + i] = t[i]
  <2>1. m + i \in 1..(m + n) /\ ~(m + i <= m) /\ (m + i) - m = i
    BY <1>2
  <2> QED BY <2>1, <1>1
<1>5. IsCat(u, s, t, m, n)
  BY <1>1, <1>2, <1>3, <1>4 DEF IsCat
<1> QED BY <1>1, <1>5 DEF u, m, n

(* When the first of the n rows r goes to the rows g, the others move up   *)
(* and e comes in.                                                         *)
MovedUp(q, r, n, e) == q[n] = e /\ \A k \in 1..(n - 1) : q[k] = r[k + 1]

LEMMA Shift ==
  ASSUME NEW S, NEW g \in Seq(S), NEW r \in Seq(S), NEW q \in Seq(S), NEW n \in Nat \ {0},
         Len(r) = n, Len(q) = n, NEW e \in S, MovedUp(q, r, n, e)
  PROVE  Append(g, r[1]) \o q = Append(g \o r, e)
<1>1. Len(g) \in Nat /\ r[1] \in S
  BY LenProperties, ElementOfSeq, 1 \in 1..Len(r)
<1> DEFINE m == Len(g)  a == Append(g, r[1])  c == g \o r
<1>2. /\ a \in Seq(S) /\ Len(a) = m + 1 /\ a[m + 1] = r[1]
      /\ \A i \in 1..m : a[i] = g[i]
  BY <1>1, AppendProperties
<1>3. c \in Seq(S) /\ IsCat(c, g, r, m, n)
  BY <1>1, Cat
<1> HIDE DEF m, a, c
<1>4. m \in Nat
  BY <1>1 DEF m
<1> DEFINE s == a \o q  t == Append(c, e)
<1>5. s \in Seq(S) /\ IsCat(s, a, q, m + 1, n)
  <2>1. s \in Seq(S) /\ IsCat(s, a, q, Len(a), Len(q))
    BY <1>2, Cat
  <2> HIDE DEF s
  <2> QED BY <2>1, <1>2
<1>6. /\ t \in Seq(S) /\ Len(t) = m + n + 1 /\ t[m + n + 1] = e
      /\ \A i \in 1..(m + n) : t[i] = c[i]
  <2>1. Len(c) = m + n
    BY <1>3 DEF IsCat
  <2>2. /\ t \in Seq(S) /\ Len(t) = Len(c) + 1 /\ t[Len(c) + 1] = e
        /\ \A i \in 1..Len(c) : t[i] = c[i]
    BY <1>3, AppendProperties
  <2> HIDE DEF t
  <2> QED BY <2>1, <2>2
<1> HIDE DEF s, t
<1>7. \A i \in 1..Len(s) : s[i] = t[i]
  <2> SUFFICES ASSUME NEW i \in 1..(m + n + 1) PROVE s[i] = t[i]
    BY <1>4, <1>5 DEF IsCat
  <2>1. CASE i <= m
    <3>1. i \in 1..m /\ i \in 1..(m + 1) /\ i \in 1..(m + n)
      BY <2>1, <1>4
    <3> QED BY <3>1, <1>2, <1>3, <1>5, <1>6 DEF IsCat
  <2>2. CASE m < i
    <3>1. PICK k \in 1..(n + 1) : i = m + k
      <4>1. i - m \in 1..(n + 1) /\ i = m + (i - m)
        BY <2>2, <1>4
      <4> QED BY <4>1
    <3>2. CASE k = 1
      <4>1. m + 1 \in 1..(m + 1) /\ m + 1 \in 1..(m + n) /\ 1 \in 1..n
        BY <1>4
      <4>2. s[m + 1] = a[m + 1] /\ t[m + 1] = c[m + 1] /\ c[m + 1] = r[1]
        BY <4>1, <1>3, <1>5, <1>6 DEF IsCat
      <4> QED BY <3>1, <3>2, <4>2, <1>2
    <3>3. CASE k > 1
      <4>1. PICK j \in 1..n : k = j + 1
        BY <3>3
      <4>2. s[(m + 1) + j] = q[j]
        BY <1>5 DEF IsCat
      <4>3. (m + 1) + j = i
        BY <3>1, <4>1, <1>4
      <4>4. CASE j = n
        <5>1. i = m + n + 1
          BY <4>3, <4>4, <1>4
        <5> QED BY <5>1, <4>2, <4>3, <4>4, <1>6 DEF MovedUp
      <4>5. CASE j < n
        <5>1. j \in 1..(n - 1) /\ k \in 1..n /\ i \in 1..(m + n)
          BY <4>1, <4>3, <4>5, <1>4
        <5>2. c[m + k] = r[k]
          BY <5>1, <1>3 DEF IsCat
        <5>3. q[j] = r[k]
          BY <5>1, <4>1 DEF MovedUp
        <5> QED BY <5>1, <5>2, <5>3, <4>2, <4>3, <3>1, <1>6
      <4> QED BY <4>4, <4>5
    <3> QED BY <3>2, <3>3
  <2> QED BY <2>1, <2>2, <1>4
<1>8. Len(s) = Len(t)
  BY <1>4, <1>5, <1>6 DEF IsCat
<1>9. s = t
  BY <1>5, <1>6, <1>7, <1>8, SeqEqual
<1> QED BY <1>9 DEF s, t, a, c, m

(* The buffer b of w * h cells after it has been scrolled, after a cell    *)
(* has been written at the place n.                                        *)
ScrollOf(b, w, h, cell) ==
  [i \in 0..(w * h - 1) |-> IF i >= (h - 1) * w THEN cell ELSE b[i + w]]
WriteOf(b, w, h, n, cell) == [i \in 0..(w * h - 1) |-> IF i = n THEN cell ELSE b[i]]

FirstRow(b, w) == [x \in 1..w |-> b[0 * w + x - 1]]
RowFilled(w, cell) == [x \in 1..w |-> cell]
Overwritten(p, l, x, cell) == [p EXCEPT ![l][x] = cell]

(* Scrolling makes a longer page.                                          *)
LEMMA PageScrolled ==
  ASSUME NEW w \in Nat \ {0}, NEW h \in Nat \ {0}, NEW g \in Seq([1..w -> CellType]),
         NEW b, Buffer(b, w, h), NEW cell \in CellType,
         NEW b2, b2 = ScrollOf(b, w, h, cell)
  PROVE  PageOf(Append(g, FirstRow(b, w)), b2, w, h) = Append(PageOf(g, b, w, h), RowFilled(w, cell))
<1> DEFINE r == RowsOf(b, w, h)  q == RowsOf(b2, w, h)  n == (h - 1) * w
<1>1. n \in Nat /\ w * h = n + w
  OBVIOUS
<1>2. Buffer(b2, w, h)
  <2> HIDE DEF n
  <2>1. \A i \in 0..(w * h - 1) : ~(i >= n) => i + w \in 0..(w * h - 1)
    BY <1>1
  <2>2. \A i \in 0..(w * h - 1) : (IF i >= n THEN cell ELSE b[i + w]) \in CellType
    BY <2>1 DEF Buffer
  <2> QED BY <2>2 DEF Buffer, n, ScrollOf
<1>3. r \in Seq([1..w -> CellType]) /\ Len(r) = h /\ q \in Seq([1..w -> CellType]) /\ Len(q) = h
  BY <1>2, RowsSeq
<1>4. [x \in 1..w |-> cell] \in [1..w -> CellType]
  OBVIOUS
<1>5. ASSUME NEW k \in 1..(h - 1) PROVE q[k] = r[k + 1]
  <2>1. q[k] = [x \in 1..w |-> b2[(k - 1) * w + x - 1]]
    BY DEF RowsOf
  <2>2. r[k + 1] = [x \in 1..w |-> b[((k + 1) - 1) * w + x - 1]]
    BY DEF RowsOf
  <2>3. ASSUME NEW x \in 1..w PROVE b2[(k - 1) * w + x - 1] = b[((k + 1) - 1) * w + x - 1]
    <3> DEFINE i == (k - 1) * w + x - 1
    <3>1. i \in 0..(w * (h - 1) - 1)
      BY CellIndex, h - 1 \in Nat
    <3>2. w * (h - 1) = n
      OBVIOUS
    <3>3. i + w = ((k + 1) - 1) * w + x - 1
      <4>1. ((k + 1) - 1) * w = (k - 1) * w + w /\ (k - 1) * w \in Nat
        OBVIOUS
      <4> QED BY <4>1
    <3> HIDE DEF i, n
    <3>4. i \in 0..(w * h - 1) /\ ~(i >= n)
      BY <3>1, <3>2, <1>1
    <3>5. b2[i] = b[i + w]
      BY <3>4 DEF n, ScrollOf
    <3> QED BY <3>3, <3>5 DEF i
  <2> DEFINE A(x) == b2[(k - 1) * w + x - 1]  B(x) == b[((k + 1) - 1) * w + x - 1]
  <2>4. q[k] = [x \in 1..w |-> A(x)] /\ r[k + 1] = [x \in 1..w |-> B(x)]
    BY <2>1, <2>2
  <2>5. \A x \in 1..w : A(x) = B(x)
    BY <2>3
  <2> HIDE DEF A, B
  <2> QED BY <2>4, <2>5
<1>6. q[h] = [x \in 1..w |-> cell]
  <2>1. q[h] = [x \in 1..w |-> b2[(h - 1) * w + x - 1]]
    BY DEF RowsOf
  <2>2. ASSUME NEW x \in 1..w PROVE b2[(h - 1) * w + x - 1] = cell
    <3>1. (h - 1) * w + x - 1 \in 0..(w * h - 1)
      BY CellIndex, h \in 1..h
    <3>2. n + x - 1 >= n
      <4> HIDE DEF n
      <4> QED BY <1>1
    <3> QED BY <3>1, <3>2 DEF ScrollOf
  <2> QED BY <2>1, <2>2
<1>7. r[1] = [x \in 1..w |-> b[0 * w + x - 1]]
  <2>1. r[1] = [x \in 1..w |-> b[(1 - 1) * w + x - 1]]
    BY DEF RowsOf
  <2>2. 1 - 1 = 0
    OBVIOUS
  <2> QED BY <2>1, <2>2
<1> HIDE DEF r, q
<1>8. Append(g, r[1]) \o q = Append(g \o r, [x \in 1..w |-> cell])
  <2> DEFINE S == [1..w -> CellType]  e == [x \in 1..w |-> cell]
  <2>1. g \in Seq(S) /\ r \in Seq(S) /\ q \in Seq(S) /\ e \in S /\ MovedUp(q, r, h, e)
    BY <1>3, <1>4, <1>5, <1>6 DEF MovedUp
  <2> HIDE DEF S, e
  <2>2. Append(g, r[1]) \o q = Append(g \o r, e)
    BY <1>3, <2>1, Shift
  <2> QED BY <2>2 DEF e
<1> QED BY <1>7, <1>8 DEF PageOf, r, q, FirstRow, RowFilled

(* Writing a cell of the buffer writes the cell of the page.               *)
WritesCell(w, h, g, b, cell, x, y, b2) ==
  /\ w \in Nat \ {0} /\ h \in Nat \ {0} /\ g \in Seq([1..w -> CellType])
  /\ Buffer(b, w, h) /\ cell \in CellType /\ x \in 0..(w - 1) /\ y \in 0..(h - 1)
  /\ b2 = WriteOf(b, w, h, y * w + x, cell)

LEMMA PageWritten ==
  ASSUME NEW w, NEW h, NEW g, NEW b, NEW cell, NEW cx, NEW cy, NEW b2,
         WritesCell(w, h, g, b, cell, cx, cy, b2)
  PROVE  PageOf(g, b2, w, h) = Overwritten(PageOf(g, b, w, h), Len(g) + cy + 1, cx + 1, cell)
<1>0. /\ w \in Nat \ {0} /\ h \in Nat \ {0} /\ g \in Seq([1..w -> CellType])
      /\ Buffer(b, w, h) /\ cell \in CellType /\ cx \in 0..(w - 1) /\ cy \in 0..(h - 1)
      /\ b2 = WriteOf(b, w, h, cy * w + cx, cell)
  BY DEF WritesCell
<1> USE <1>0
<1> DEFINE r == RowsOf(b, w, h)  q == RowsOf(b2, w, h)  S == [1..w -> CellType]
           m == Len(g)
<1>1. Buffer(b2, w, h)
  BY DEF Buffer, WriteOf
<1>2. r \in Seq(S) /\ Len(r) = h /\ q \in Seq(S) /\ Len(q) = h
  BY <1>1, RowsSeq
<1>3. ASSUME NEW k \in 1..h PROVE q[k] = IF k = cy + 1 THEN [r[k] EXCEPT ![cx + 1] = cell] ELSE r[k]
  <2>1. q[k] = [x \in 1..w |-> b2[(k - 1) * w + x - 1]] /\ r[k] = [x \in 1..w |-> b[(k - 1) * w + x - 1]]
    BY DEF RowsOf
  <2>2. ASSUME NEW x \in 1..w
        PROVE  b2[(k - 1) * w + x - 1] =
                 IF k = cy + 1 /\ x = cx + 1 THEN cell ELSE b[(k - 1) * w + x - 1]
    <3> DEFINE i == (k - 1) * w + x - 1
    <3>1. i \in 0..(w * h - 1)
      BY CellIndex
    <3>2. i = (k - 1) * w + (x - 1) /\ k - 1 \in Nat /\ x - 1 \in 0..(w - 1)
      <4>1. (k - 1) * w \in Nat
        OBVIOUS
      <4> QED BY <4>1
    <3>3. i = cy * w + cx <=> k - 1 = cy /\ x - 1 = cx
      <4>1. ASSUME i = cy * w + cx PROVE k - 1 = cy /\ x - 1 = cx
        <5> DEFINE k1 == k - 1  x1 == x - 1
        <5>1. k1 \in Nat /\ x1 \in 0..(w - 1) /\ k1 * w + x1 = cy * w + cx
          BY <3>2, <4>1
        <5> HIDE DEF k1, x1
        <5>2. k1 = cy /\ x1 = cx
          <6>1. cy \in Nat /\ w \in Nat /\ cx \in 0..(w - 1)
            OBVIOUS
          <6>2. \A d, q1, q2 \in Nat : \A r1, r2 \in 0..(d - 1) :
                  q1 * d + r1 = q2 * d + r2 => q1 = q2 /\ r1 = r2
            BY Digits
          <6> QED BY ONLY <5>1, <6>1, <6>2
        <5> QED BY <5>2 DEF k1, x1
      <4>2. ASSUME k - 1 = cy, x - 1 = cx PROVE i = cy * w + cx
        BY <3>2, <4>2
      <4> QED BY <4>1, <4>2
    <3>4. k - 1 = cy <=> k = cy + 1
      OBVIOUS
    <3>5. x - 1 = cx <=> x = cx + 1
      OBVIOUS
    <3> HIDE DEF i
    <3>6. b2[i] = IF i = cy * w + cx THEN cell ELSE b[i]
      BY <3>1 DEF WriteOf
    <3> QED BY <3>3, <3>4, <3>5, <3>6 DEF i
  <2> DEFINE A(x) == b2[(k - 1) * w + x - 1]  B(x) == b[(k - 1) * w + x - 1]
  <2>3. q[k] = [x \in 1..w |-> A(x)] /\ r[k] = [x \in 1..w |-> B(x)]
    BY <2>1
  <2>4. \A x \in 1..w : A(x) = IF k = cy + 1 /\ x = cx + 1 THEN cell ELSE B(x)
    BY <2>2
  <2> HIDE DEF A, B
  <2>5. CASE k = cy + 1
    <3>1. cx + 1 \in 1..w
      OBVIOUS
    <3>2. \A x \in 1..w : A(x) = IF x = cx + 1 THEN cell ELSE B(x)
      BY <2>4, <2>5
    <3>3. [r[k] EXCEPT ![cx + 1] = cell] = [x \in 1..w |-> IF x = cx + 1 THEN cell ELSE B(x)]
      BY <2>3, <3>1
    <3>4. q[k] = [x \in 1..w |-> IF x = cx + 1 THEN cell ELSE B(x)]
      BY <2>3, <3>2
    <3> QED BY <2>5, <3>3, <3>4
  <2>6. CASE k # cy + 1
    BY <2>3, <2>4, <2>6
  <2> QED BY <2>5, <2>6
<1> DEFINE p == g \o r  p2 == g \o q  l == m + cy + 1
<1>4. m \in Nat
  BY LenProperties
<1> HIDE DEF r, q, m, S
<1>5. p \in Seq(S) /\ IsCat(p, g, r, m, h)
  BY <1>2, Cat DEF m, S
<1>6. p2 \in Seq(S) /\ IsCat(p2, g, q, m, h)
  BY <1>2, Cat DEF m, S
<1> HIDE DEF p, p2
<1>7. DOMAIN p = 1..(m + h) /\ p2 = [i \in 1..(m + h) |-> p2[i]]
  BY <1>4, <1>5, <1>6 DEF IsCat
<1>8. ASSUME NEW i \in 1..(m + h)
      PROVE  p2[i] = IF i = l THEN [p[l] EXCEPT ![cx + 1] = cell] ELSE p[i]
  <2>1. CASE i <= m
    <3>1. i \in 1..m /\ i # l
      BY <2>1, <1>4
    <3> QED BY <3>1, <1>5, <1>6 DEF IsCat
  <2>2. CASE m < i
    <3>1. p2[i] = q[i - m] /\ p[i] = r[i - m] /\ i - m \in 1..h
      <4>1. PICK k \in 1..h : k = i - m
        BY <2>2, <1>4
      <4>2. m + k = i
        BY <4>1, <1>4
      <4>3. p2[m + k] = q[k] /\ p[m + k] = r[k]
        BY <1>5, <1>6 DEF IsCat
      <4> QED BY <4>1, <4>2, <4>3
    <3>2. i - m = cy + 1 <=> i = l
      BY <1>4
    <3>3. q[i - m] = IF i - m = cy + 1 THEN [r[i - m] EXCEPT ![cx + 1] = cell] ELSE r[i - m]
      BY <3>1, <1>3
    <3>4. CASE i = l
      BY <3>1, <3>2, <3>3, <3>4
    <3>5. CASE i # l
      BY <3>1, <3>2, <3>3, <3>5
    <3> QED BY <3>4, <3>5
  <2> QED BY <2>1, <2>2, <1>4
<1>9. p2 = [p EXCEPT ![l] = [p[l] EXCEPT ![cx + 1] = cell]]
  <2>1. l \in 1..(m + h)
    BY <1>4
  <2> HIDE DEF l
  <2> QED BY <1>7, <1>8, <2>1
<1>10. p2 = [p EXCEPT ![l][cx + 1] = cell]
  BY <1>9
<1> QED BY <1>10 DEF PageOf, p, p2, r, q, m, Overwritten

Filled(b, w, h, cell) ==
  w # 0 /\ h # 0 /\ Buffer(b, w, h) /\ \A i \in 0..(w * h - 1) : b[i] = cell
PageFilled(w, h, cell) == [y \in 1..h |-> [x \in 1..w |-> cell]]

LEMMA PageBlank ==
  ASSUME NEW w, NEW h, NEW b, NEW cell, Filled(b, w, h, cell)
  PROVE  PageOf(<< >>, b, w, h) = PageFilled(w, h, cell)
<1>0. w \in Nat \ {0} /\ h \in Nat \ {0} /\ Buffer(b, w, h) /\ \A i \in 0..(w * h - 1) : b[i] = cell
  BY DEF Filled, Buffer
<1> USE <1>0
<1>1. RowsOf(b, w, h) \in Seq([1..w -> CellType])
  BY RowsSeq
<1>2. << >> \o RowsOf(b, w, h) = RowsOf(b, w, h)
  BY <1>1, ConcatEmptySeq
<1>3. \A y \in 1..h, x \in 1..w : b[(y - 1) * w + x - 1] = cell
  BY CellIndex
<1>4. RowsOf(b, w, h) = [y \in 1..h |-> [x \in 1..w |-> cell]]
  BY <1>3 DEF RowsOf
<1> QED BY <1>2, <1>4 DEF PageOf, PageFilled

LEMMA PageLen ==
  ASSUME NEW w, NEW h, NEW b, Buffer(b, w, h), NEW g \in Seq([1..w -> CellType])
  PROVE  /\ PageOf(g, b, w, h) \in Seq([1..w -> CellType])
         /\ Len(PageOf(g, b, w, h)) = Len(g) + h /\ Len(g) \in Nat
<1>1. RowsOf(b, w, h) \in Seq([1..w -> CellType]) /\ Len(RowsOf(b, w, h)) = h
  BY RowsSeq
<1> DEFINE S == [1..w -> CellType]  r == RowsOf(b, w, h)
<1> HIDE DEF r, S
<1>2. r \in Seq(S) /\ g \in Seq(S) /\ Len(r) = h
  BY <1>1 DEF r, S
<1>3. g \o r \in Seq(S) /\ Len(g \o r) = Len(g) + Len(r) /\ Len(g) \in Nat
  BY <1>2, ConcatProperties, LenProperties
<1> QED BY <1>2, <1>3 DEF PageOf, r, S

-----------------------------------------------------------------------------
(* The refinement: what Terminal's variables are when the console is shown *)
(* and when it is not.                                                     *)
LEMMA ShownOn ==
  ASSUME DOMAIN buffer # {}
  PROVE  /\ ShownPage = PageOf(gone, buffer, cols, rows) /\ ShownSize = <<cols, rows>>
         /\ ShownLine = Len(gone) + cursor_y + 1 /\ ShownCol = cursor_x + 1
         /\ ShownInk = <<fg_color, bg_color>>
BY DEF ShownPage, ShownSize, ShownLine, ShownCol, ShownInk, Shown, Nullptr, Page, Row, PageOf, RowsOf

LEMMA ShownOnNext ==
  ASSUME DOMAIN buffer' # {}
  PROVE  /\ ShownPage' = PageOf(gone', buffer', cols', rows') /\ ShownSize' = <<cols', rows'>>
         /\ ShownLine' = Len(gone') + cursor_y' + 1 /\ ShownCol' = cursor_x' + 1
         /\ ShownInk' = <<fg_color', bg_color'>>
BY DEF ShownPage, ShownSize, ShownLine, ShownCol, ShownInk, Shown, Nullptr, Page, Row, PageOf, RowsOf

LEMMA StaysOff ==
  ASSUME DOMAIN buffer = {}, DOMAIN buffer' = {} PROVE UNCHANGED Contract!tvars
BY DEF ShownPage, ShownSize, ShownLine, ShownCol, ShownInk, Shown, Nullptr, Contract!tvars

(* The state of a console that is shown.                                   *)
LEMMA Lit ==
  ASSUME Supported, IInv, NEW f, Running(f), cols > 0
  PROVE  /\ cols \in Nat \ {0} /\ rows \in Nat \ {0} /\ Buffer(buffer, cols, rows)
         /\ gone \in Seq([1..cols -> CellType]) /\ Len(gone) \in Nat
         /\ cursor_x \in 0..(cols - 1) /\ cursor_y \in 0..(rows - 1)
         /\ DOMAIN buffer # {} /\ ShownPage # << >>
         /\ Cell(Space) \in CellType
<1>1. Fits(f, cols, rows) /\ gone \in Seq([1..cols -> CellType])
      /\ buffer \in [0..(cols * rows - 1) -> CellType]
      /\ cursor_x \in 0..(cols - 1) /\ cursor_y \in 0..(rows - 1)
  BY DEF Running, Good
<1>2. cols \in Nat \ {0} /\ rows \in Nat \ {0}
  BY <1>1, GridSize
<1>3. cols * rows \in Nat \ {0}
  BY <1>2
<1>4. DOMAIN buffer # {}
  <2>1. 0 \in 0..(cols * rows - 1)
    BY <1>3
  <2> QED BY <2>1, <1>1
<1>5. Buffer(buffer, cols, rows)
  BY <1>1, <1>2 DEF Buffer
<1>6. Len(PageOf(gone, buffer, cols, rows)) = Len(gone) + rows /\ Len(gone) \in Nat
  BY <1>1, <1>5, PageLen
<1>7. PageOf(gone, buffer, cols, rows) # << >>
  <2> SUFFICES ASSUME PageOf(gone, buffer, cols, rows) = << >> PROVE FALSE
    OBVIOUS
  <2>1. Len(<< >>) = 0
    OBVIOUS
  <2>2. Len(gone) + rows = 0
    BY <1>6, <2>1
  <2> QED BY <2>2, <1>2, <1>6
<1>8. Cell(Space) \in CellType
  BY Blank, ConsoleAssumption DEF IInv
<1> QED BY <1>1, <1>2, <1>4, <1>5, <1>6, <1>7, <1>8, ShownOn

(* The page, the line and the column that Settle leaves.                   *)
LEMMA SettledPage ==
  ASSUME Supported, IInv, NEW f, Running(f), cols > 0, UNCHANGED screenVars, UNCHANGED inkVars,
         NEW b, Buffer(b, cols, rows), NEW x, NEW y \in Nat, Settled(f, b, x, y), cursor_x' = x
  PROVE  /\ ShownPage' = IF y < rows THEN PageOf(gone, b, cols, rows)
                         ELSE Append(PageOf(gone, b, cols, rows), [i \in 1..cols |-> Cell(Space)])
         /\ ShownLine' = Len(gone) + y + 1 /\ ShownCol' = x + 1
         /\ ShownSize' = ShownSize /\ ShownInk' = ShownInk
<1>1. /\ cols \in Nat \ {0} /\ rows \in Nat \ {0} /\ gone \in Seq([1..cols -> CellType])
      /\ Len(gone) \in Nat /\ Cell(Space) \in CellType
      /\ ShownSize = <<cols, rows>> /\ ShownInk = <<fg_color, bg_color>>
  BY Lit, ShownOn
<1>2. cols' = cols /\ rows' = rows /\ fg_color' = fg_color /\ bg_color' = bg_color
  BY DEF screenVars, inkVars
<1>3. DOMAIN buffer' # {}
  <2>1. buffer' \in [0..(cols * rows - 1) -> CellType]
    BY DEF Settled, Good
  <2>2. 0 \in 0..(cols * rows - 1)
    <3>1. cols * rows \in Nat \ {0}
      BY <1>1
    <3> QED BY <3>1
  <2> QED BY <2>1, <2>2
<1>4. /\ ShownPage' = PageOf(gone', buffer', cols, rows)
      /\ ShownLine' = Len(gone') + cursor_y' + 1 /\ ShownCol' = x + 1
      /\ ShownSize' = ShownSize /\ ShownInk' = ShownInk
  BY <1>1, <1>2, <1>3, ShownOnNext
<1>5. CASE y < rows
  <2>1. buffer' = b /\ gone' = gone /\ cursor_y' = y
    BY <1>5 DEF Settled
  <2> QED BY <2>1, <1>4, <1>5
<1>6. CASE ~(y < rows)
  <2>1. buffer' = Scrolled(b) /\ gone' = Append(gone, Row(b, 0)) /\ cursor_y' = rows - 1 /\ y = rows
    BY <1>6 DEF Settled
  <2>2. b \in [0..(cols * rows - 1) -> CellType]
    BY DEF Buffer
  <2>3. Scrolled(b) = ScrollOf(b, cols, rows, Cell(Space))
    BY <1>1, <2>2, ScrolledIs DEF ScrollOf
  <2>4. Row(b, 0) = FirstRow(b, cols) /\ RowFilled(cols, Cell(Space)) = [i \in 1..cols |-> Cell(Space)]
    BY DEF Row, FirstRow, RowFilled
  <2>5. PageOf(gone', buffer', cols, rows)
          = Append(PageOf(gone, b, cols, rows), [i \in 1..cols |-> Cell(Space)])
    <3>1. PageOf(Append(gone, FirstRow(b, cols)), buffer', cols, rows)
            = Append(PageOf(gone, b, cols, rows), RowFilled(cols, Cell(Space)))
      <4>1. ASSUME NEW b2, b2 = ScrollOf(b, cols, rows, Cell(Space))
            PROVE  PageOf(Append(gone, FirstRow(b, cols)), b2, cols, rows)
                     = Append(PageOf(gone, b, cols, rows), RowFilled(cols, Cell(Space)))
        BY <1>1, <4>1, PageScrolled
      <4> QED BY <4>1, <2>1, <2>3
    <3> QED BY <3>1, <2>1, <2>4
  <2>6. Len(gone') = Len(gone) + 1
    <3>1. Row(b, 0) \in [1..cols -> CellType]
      <4>1. gone' \in Seq([1..cols -> CellType])
        BY DEF Settled, Good
      <4>2. \A i \in 1..cols : 0 * cols + i - 1 \in 0..(cols * rows - 1)
        <5>1. 1 * cols <= rows * cols /\ rows * cols = cols * rows /\ cols * rows \in Nat
          BY <1>1, MulMono
        <5> QED BY <5>1, <1>1
      <4> QED BY <4>2, <2>2 DEF Row
    <3> QED BY <3>1, <1>1, <2>1
  <2>7. Len(gone') + cursor_y' + 1 = Len(gone) + y + 1
    BY <2>1, <2>6, <1>1
  <2> QED BY <1>4, <1>6, <2>5, <2>7
<1> QED BY <1>5, <1>6

(* Each kind of console_putchar is a step of the terminal.                 *)
LEMMA BlankRowIs ==
  ASSUME DOMAIN buffer # {}
  PROVE  Contract!BlankRow(Contract!Width, ShownInk) = [i \in 1..cols |-> Cell(Space)]
<1>1. ShownInk[1] = fg_color /\ ShownInk[2] = bg_color /\ ShownSize[1] = cols
  BY ShownOn
<1> QED BY <1>1 DEF Contract!BlankRow, Contract!Width, Contract!Cell, Cell

LEMMA NewlineSim ==
  ASSUME Supported, IInv, NEW f, Running(f), cols > 0, putchar_newline
  PROVE  Contract!Next
<1>1. UNCHANGED screenVars /\ UNCHANGED inkVars
  BY DEF putchar_newline
<1>2. Settled(f, buffer, 0, Down) /\ cursor_x' = 0 /\ Down = cursor_y + 1
  BY NewlineSettles
<1>3. /\ cols \in Nat \ {0} /\ rows \in Nat \ {0} /\ Buffer(buffer, cols, rows)
      /\ Len(gone) \in Nat /\ cursor_y \in 0..(rows - 1) /\ DOMAIN buffer # {} /\ ShownPage # << >>
      /\ gone \in Seq([1..cols -> CellType])
  BY Lit
<1>4. ShownPage = PageOf(gone, buffer, cols, rows) /\ ShownLine = Len(gone) + cursor_y + 1
  BY <1>3, ShownOn
<1>5. Len(ShownPage) = Len(gone) + rows
  BY <1>3, <1>4, PageLen
<1>6. cursor_y + 1 \in Nat
  BY <1>3
<1>7. /\ ShownPage' = IF cursor_y + 1 < rows THEN PageOf(gone, buffer, cols, rows)
                      ELSE Append(PageOf(gone, buffer, cols, rows), [i \in 1..cols |-> Cell(Space)])
      /\ ShownLine' = Len(gone) + (cursor_y + 1) + 1 /\ ShownCol' = 0 + 1
      /\ ShownSize' = ShownSize /\ ShownInk' = ShownInk
  BY <1>1, <1>2, <1>3, <1>6, SettledPage
<1>8. cursor_y + 1 < rows <=> ShownLine < Len(ShownPage)
  BY <1>3, <1>4, <1>5
<1>9. ShownLine' = ShownLine + 1 /\ ShownCol' = 1
  BY <1>3, <1>4, <1>7
<1>10. ShownPage' = IF ShownLine < Len(ShownPage) THEN ShownPage
                    ELSE Append(ShownPage, Contract!BlankRow(Contract!Width, ShownInk))
  BY <1>3, <1>4, <1>7, <1>8, BlankRowIs
<1>11. Contract!Down(ShownPage)
  BY <1>9, <1>10 DEF Contract!Down
<1>12. Contract!NewLine
  BY <1>3, <1>7, <1>11 DEF Contract!NewLine, Contract!Off
<1> QED BY <1>12 DEF Contract!Next

LEMMA BackSim ==
  ASSUME Supported, IInv, NEW f, Running(f), cols > 0, NEW x \in {0, Left}, putchar_back(x)
  PROVE  Contract!Next
<1>1. UNCHANGED screenVars /\ UNCHANGED inkVars
  BY DEF putchar_back
<1>2. Settled(f, buffer, x, cursor_y) /\ cursor_x' = x
  BY BackSettles
<1>3. /\ rows \in Nat \ {0} /\ Buffer(buffer, cols, rows) /\ cols \in Nat \ {0}
      /\ cursor_y \in 0..(rows - 1) /\ cursor_x \in 0..(cols - 1)
      /\ DOMAIN buffer # {} /\ ShownPage # << >>
  BY Lit
<1>4. /\ ShownPage = PageOf(gone, buffer, cols, rows) /\ ShownLine = Len(gone) + cursor_y + 1
      /\ ShownCol = cursor_x + 1
  BY <1>3, ShownOn
<1>5. cursor_y \in Nat /\ cursor_y < rows
  BY <1>3
<1>6. /\ ShownPage' = ShownPage /\ ShownLine' = ShownLine /\ ShownCol' = x + 1
      /\ ShownSize' = ShownSize /\ ShownInk' = ShownInk
  BY <1>1, <1>2, <1>3, <1>4, <1>5, SettledPage
<1>7. x + 1 \in {1, ShownCol - 1} /\ x + 1 >= 1
  BY <1>3, <1>4 DEF Left
<1>8. Contract!Back(x + 1)
  BY <1>3, <1>6, <1>7 DEF Contract!Back, Contract!Off
<1>9. \E z \in {1, ShownCol - 1} : Contract!Back(z)
  BY <1>7, <1>8
<1> QED BY <1>9 DEF Contract!Next

LEMMA OtherSim ==
  ASSUME Supported, IInv, NEW f, Running(f), cols > 0, NEW c \in Chars, putchar_other(c)
  PROVE  Contract!Next
<1>1. UNCHANGED screenVars /\ UNCHANGED inkVars
  BY DEF putchar_other
<1> DEFINE at == cursor_y * cols + cursor_x
<1>2. /\ Settled(f, Typed(c), NextX, NextY) /\ cursor_x' = NextX
      /\ at % WordMod = at /\ at \in 0..(cols * rows - 1) /\ Down = cursor_y + 1
  BY OtherSettles
<1>3. /\ cols \in Nat \ {0} /\ rows \in Nat \ {0} /\ Buffer(buffer, cols, rows)
      /\ Len(gone) \in Nat /\ cursor_y \in 0..(rows - 1) /\ cursor_x \in 0..(cols - 1)
      /\ DOMAIN buffer # {} /\ ShownPage # << >> /\ gone \in Seq([1..cols -> CellType])
  BY Lit
<1>4. /\ ShownPage = PageOf(gone, buffer, cols, rows) /\ ShownLine = Len(gone) + cursor_y + 1
      /\ ShownCol = cursor_x + 1 /\ ShownInk = <<fg_color, bg_color>> /\ ShownSize = <<cols, rows>>
  BY <1>3, ShownOn
<1>5. Cell(c) \in CellType /\ Contract!Cell(c, ShownInk) = Cell(c) /\ Contract!Width = cols
  BY <1>4, Blank DEF IInv, Contract!Cell, Cell, Contract!Width
<1>6. Typed(c) = WriteOf(buffer, cols, rows, at, Cell(c))
  <2> HIDE DEF at
  <2>1. DOMAIN buffer = 0..(cols * rows - 1)
    BY <1>3 DEF Buffer
  <2>2. Typed(c) = [j \in DOMAIN buffer |-> IF j = at % WordMod THEN Cell(c) ELSE buffer[j]]
    BY DEF Typed, at
  <2> QED BY <1>2, <2>1, <2>2 DEF WriteOf
<1>7. Buffer(Typed(c), cols, rows)
  BY <1>3, <1>5, <1>6 DEF Buffer, WriteOf
<1> DEFINE p == PageOf(gone, Typed(c), cols, rows)
<1>8. p = [PageOf(gone, buffer, cols, rows) EXCEPT ![Len(gone) + cursor_y + 1][cursor_x + 1] = Cell(c)]
  <2>1. PageOf(gone, Typed(c), cols, rows) =
          Overwritten(PageOf(gone, buffer, cols, rows), Len(gone) + cursor_y + 1, cursor_x + 1, Cell(c))
    <3>1. WritesCell(cols, rows, gone, buffer, Cell(c), cursor_x, cursor_y, Typed(c))
      BY <1>3, <1>5, <1>6 DEF WritesCell
    <3> QED BY <3>1, PageWritten
  <2> QED BY <2>1 DEF Overwritten
<1>9. Contract!Written(c) = p
  <2>1. Contract!Written(c) = [ShownPage EXCEPT ![ShownLine][ShownCol] = Contract!Cell(c, ShownInk)]
    BY <1>3, <1>5 DEF Contract!Written
  <2> HIDE DEF p
  <2> QED BY <2>1, <1>4, <1>5, <1>8
<1>10. Len(p) = Len(gone) + rows
  BY <1>3, <1>7, PageLen
<1>11. Wraps <=> ShownCol >= Contract!Width
  BY <1>3, <1>4, <1>5 DEF Wraps
<1>12. NextY \in Nat
  BY <1>2, <1>3 DEF NextY
<1>13. /\ ShownPage' = IF NextY < rows THEN p ELSE Append(p, [i \in 1..cols |-> Cell(Space)])
       /\ ShownLine' = Len(gone) + NextY + 1 /\ ShownCol' = NextX + 1
       /\ ShownSize' = ShownSize /\ ShownInk' = ShownInk
  BY <1>1, <1>2, <1>7, <1>12, SettledPage
<1> HIDE DEF p, at
<1>14. CASE Wraps
  <2>1. NextX = 0 /\ NextY = cursor_y + 1
    BY <1>2, <1>14 DEF NextX, NextY
  <2>2. NextY < rows <=> ShownLine < Len(p)
    BY <2>1, <1>3, <1>4, <1>10
  <2>3. ShownLine' = ShownLine + 1 /\ ShownCol' = 1
    BY <2>1, <1>3, <1>4, <1>13
  <2>4. ShownPage' = IF ShownLine < Len(p) THEN p
                     ELSE Append(p, Contract!BlankRow(Contract!Width, ShownInk))
    BY <2>2, <1>3, <1>13, BlankRowIs
  <2>5. Contract!Down(p)
    BY <2>3, <2>4 DEF Contract!Down
  <2>6. Contract!Put(c)
    BY <2>5, <1>3, <1>9, <1>11, <1>13, <1>14 DEF Contract!Put, Contract!Off
  <2>7. \E z \in Chars : Contract!Put(z)
    BY <2>6
  <2> QED BY <2>7 DEF Contract!Next
<1>15. CASE ~Wraps
  <2>1. NextX = cursor_x + 1 /\ NextY = cursor_y
    BY <1>15 DEF NextX, NextY
  <2>2. NextY < rows
    BY <2>1, <1>3
  <2>3. ShownPage' = p /\ ShownLine' = ShownLine /\ ShownCol' = ShownCol + 1
    BY <2>1, <2>2, <1>4, <1>13
  <2>4. Contract!Put(c)
    BY <2>3, <1>3, <1>9, <1>11, <1>13, <1>15 DEF Contract!Put, Contract!Off
  <2>5. \E z \in Chars : Contract!Put(z)
    BY <2>4
  <2> QED BY <2>5 DEF Contract!Next
<1> QED BY <1>14, <1>15

(* A screen too narrow for a character shows no terminal.                  *)
LEMMA NoCells ==
  ASSUME Supported, NEW f, NEW h, NEW b, Fits(f, 0, h), b \in [0..(0 * h - 1) -> CellType]
  PROVE  DOMAIN b = {}
<1>1. h \in Nat
  BY GridSize
<1>2. 0 * h - 1 = -1
  BY <1>1
<1> QED BY <1>2

LEMMA Dark == ASSUME Supported, IInv, initialized, cols = 0 PROVE DOMAIN buffer = {}
<1>1. PICK f : Running(f)
  BY DEF IInv
<1>2. Fits(f, 0, rows) /\ buffer \in [0..(0 * rows - 1) -> CellType]
  BY <1>1 DEF Running, Good
<1> QED BY <1>2, NoCells

LEMMA DarkNext ==
  ASSUME Supported, IInv', initialized', cols' = 0, fb' = fb PROVE DOMAIN buffer' = {}
<1>1. PICK f : Running(f)'
  BY DEF IInv
<1>2. ASSUME NEW h, h = rows', NEW b, b = buffer'
      PROVE  Fits(f, 0, h) /\ b \in [0..(0 * h - 1) -> CellType]
  <2>1. Fits(f, cols', rows') /\ buffer' \in [0..(cols' * rows' - 1) -> CellType]
    BY <1>1 DEF Running, Good, Fits, Screen
  <2> QED BY <1>2, <2>1
<1>3. ASSUME NEW h, h = rows', NEW b, b = buffer' PROVE DOMAIN b = {}
  <2>1. Fits(f, 0, h) /\ b \in [0..(0 * h - 1) -> CellType]
    BY <1>2, <1>3
  <2> QED BY <2>1, NoCells
<1> QED BY <1>3

(* Clearing and changing colours.                                          *)
LEMMA ClearSim ==
  ASSUME Supported, IInv, NEW f, Running(f), cols > 0, console_clear
  PROVE  Contract!Next
<1>1. /\ cols \in Nat \ {0} /\ rows \in Nat \ {0} /\ Buffer(buffer, cols, rows)
      /\ DOMAIN buffer # {} /\ ShownPage # << >> /\ Cell(Space) \in CellType
  BY Lit
<1>2. /\ cols' = cols /\ rows' = rows /\ fg_color' = fg_color /\ bg_color' = bg_color
      /\ cursor_x' = 0 /\ cursor_y' = 0 /\ gone' = << >>
      /\ buffer' = [i \in DOMAIN buffer |-> Cell(Space)]
  BY DEF console_clear, screenVars, inkVars
<1>3. DOMAIN buffer = 0..(cols * rows - 1)
  BY <1>1 DEF Buffer
<1>4. /\ Buffer(buffer', cols, rows) /\ DOMAIN buffer' # {}
      /\ \A i \in 0..(cols * rows - 1) : buffer'[i] = Cell(Space)
  BY <1>1, <1>2, <1>3 DEF Buffer
<1>5. /\ ShownPage' = PageOf(<< >>, buffer', cols, rows) /\ ShownSize' = ShownSize
      /\ ShownLine' = Len(<< >>) + 0 + 1 /\ ShownCol' = 0 + 1 /\ ShownInk' = ShownInk
      /\ ShownSize = <<cols, rows>> /\ ShownInk = <<fg_color, bg_color>>
  BY <1>1, <1>2, <1>4, ShownOn, ShownOnNext
<1>6. PageOf(<< >>, buffer', cols, rows) = [y \in 1..rows |-> [x \in 1..cols |-> Cell(Space)]]
  <2>1. ASSUME NEW b, b = buffer'
        PROVE  PageOf(<< >>, b, cols, rows) = [y \in 1..rows |-> [x \in 1..cols |-> Cell(Space)]]
    <3>1. Filled(b, cols, rows, Cell(Space))
      BY <1>1, <1>4, <2>1 DEF Filled
    <3> QED BY <3>1, PageBlank DEF PageFilled
  <2> QED BY <2>1
<1>7. Contract!BlankPage(ShownSize, ShownInk) = [y \in 1..rows |-> [x \in 1..cols |-> Cell(Space)]]
  BY <1>5 DEF Contract!BlankPage, Contract!BlankRow, Contract!Cell, Cell
<1>8. ShownLine' = 1 /\ ShownCol' = 1
  <2>1. Len(<< >>) = 0
    OBVIOUS
  <2> QED BY <1>5, <2>1
<1>9. Contract!Clear
  BY <1>1, <1>5, <1>6, <1>7, <1>8 DEF Contract!Clear, Contract!Off
<1> QED BY <1>9 DEF Contract!Next

LEMMA SetColorSim ==
  ASSUME Supported, IInv, NEW f, Running(f), cols > 0, NEW k \in Inks, console_set_color(k[1], k[2])
  PROVE  Contract!Next
<1>1. DOMAIN buffer # {} /\ ShownPage # << >>
  BY Lit
<1>2. /\ cols' = cols /\ rows' = rows /\ fg_color' = k[1] /\ bg_color' = k[2]
      /\ cursor_x' = cursor_x /\ cursor_y' = cursor_y /\ gone' = gone /\ buffer' = buffer
  BY DEF console_set_color, screenVars
<1>3. /\ ShownPage' = ShownPage /\ ShownSize' = ShownSize /\ ShownLine' = ShownLine
      /\ ShownCol' = ShownCol /\ ShownInk' = <<k[1], k[2]>>
  BY <1>1, <1>2, ShownOn, ShownOnNext
<1>4. <<k[1], k[2]>> \in Colors \X Colors
  BY ConsoleAssumption
<1>5. Contract!SetInk(<<k[1], k[2]>>)
  BY <1>1, <1>3 DEF Contract!SetInk, Contract!Off
<1>6. \E z \in Colors \X Colors : Contract!SetInk(z)
  BY <1>4, <1>5
<1> QED BY <1>6 DEF Contract!Next

(* console_init, when the screen has cells.                                *)
LEMMA StartSim ==
  ASSUME Supported, IInv, NEW f \in Fonts, console_init(f, FALSE), cols' > 0
  PROVE  Contract!Next
<1>1. /\ Fits(f, cols', rows') /\ buffer' \in [0..(cols' * rows' - 1) -> CellType]
      /\ \A i \in 0..(cols' * rows' - 1) : buffer'[i] = [c |-> Space, fg |-> White, bg |-> Black]
  BY ConsoleInitFacts
<1> DEFINE blank == [c |-> Space, fg |-> White, bg |-> Black]
<1>2. /\ cols' \in Nat \ {0} /\ rows' \in Nat \ {0}
  BY <1>1, GridSize
<1>3. /\ cursor_x' = 0 /\ cursor_y' = 0 /\ gone' = << >> /\ fg_color' = White /\ bg_color' = Black
      /\ DOMAIN buffer = {}
  BY DEF console_init, IInv
<1>4. ShownPage = << >>
  BY <1>3 DEF ShownPage, Shown, Nullptr
<1>5. ASSUME NEW w, w = cols', NEW h, h = rows', NEW b, b = buffer'
      PROVE  /\ DOMAIN b # {}
             /\ PageOf(<< >>, b, w, h) = [y \in 1..h |-> [x \in 1..w |-> blank]]
  <2>1. w \in Nat \ {0} /\ h \in Nat \ {0} /\ b \in [0..(w * h - 1) -> CellType]
        /\ \A i \in 0..(w * h - 1) : b[i] = blank
    BY <1>1, <1>2, <1>5
  <2>2. Buffer(b, w, h)
    BY <2>1 DEF Buffer
  <2>3. 0 \in 0..(w * h - 1)
    <3>1. w * h \in Nat \ {0}
      BY <2>1
    <3> QED BY <3>1
  <2> HIDE DEF blank
  <2>4. DOMAIN b # {}
    BY <2>1, <2>3
  <2>5. Filled(b, w, h, blank)
    BY <2>1, <2>2 DEF Filled
  <2> QED BY <2>4, <2>5, PageBlank DEF PageFilled
<1>6. /\ DOMAIN buffer' # {}
      /\ PageOf(<< >>, buffer', cols', rows') = [y \in 1..rows' |-> [x \in 1..cols' |-> blank]]
  BY <1>5
<1> DEFINE z == <<cols', rows'>>  k == <<White, Black>>
<1>7. /\ ShownPage' = [y \in 1..rows' |-> [x \in 1..cols' |-> blank]] /\ ShownSize' = z
      /\ ShownLine' = Len(<< >>) + 0 + 1 /\ ShownCol' = 0 + 1 /\ ShownInk' = k
  BY <1>3, <1>6, ShownOnNext
<1>8. ShownLine' = 1 /\ ShownCol' = 1
  <2>1. Len(<< >>) = 0
    OBVIOUS
  <2> QED BY <1>7, <2>1
<1>9. Contract!BlankPage(z, k) = [y \in 1..rows' |-> [x \in 1..cols' |-> blank]]
  BY DEF Contract!BlankPage, Contract!BlankRow, Contract!Cell
<1>10. z \in Sizes
  <2>1. cols' = fb.width \div f.width /\ rows' = fb.height \div f.height
    BY <1>1 DEF console_init, Fits
  <2>2. fb \in Screens
    <3>1. Screen /\ f.width \in Nat \ {0}
      BY ConsoleAssumption DEF IInv
    <3>2. 0 \div f.width = 0
      BY <3>1
    <3> QED BY <3>1, <3>2, <2>1, <1>2 DEF Screen, NoScreen
  <2> QED BY <2>1, <2>2 DEF Sizes
<1>11. k \in Colors \X Colors
  BY ConsoleAssumption
<1>12. Contract!Start(z, k)
  <2> HIDE DEF z, k, blank
  <2> QED BY <1>4, <1>7, <1>8, <1>9 DEF Contract!Start, Contract!Off
<1>13. \E s \in Sizes, i \in Colors \X Colors : Contract!Start(s, i)
  <2> HIDE DEF z, k, blank
  <2> QED BY <1>10, <1>11, <1>12
<1> QED BY <1>13 DEF Contract!Next

(* Every step of the console is a step of the terminal or changes nothing  *)
(* it shows.                                                               *)
LEMMA ReadySim ==
  ASSUME Supported, IInv, IInv', initialized,
         \/ console_clear \/ putchar_newline
         \/ \E k \in Inks : console_set_color(k[1], k[2])
         \/ \E x \in {0, Left} : putchar_back(x)
         \/ \E c \in Chars : putchar_other(c)
  PROVE  [Contract!Next]_(Contract!tvars)
<1>1. PICK f : Running(f)
  BY DEF IInv
<1>2. UNCHANGED screenVars
  BY DEF console_clear, putchar_newline, console_set_color, putchar_back, putchar_other
<1>3. fb' = fb /\ cols' = cols /\ initialized'
  BY <1>2 DEF screenVars
<1>4. cols \in Nat
  BY <1>1, GridSize DEF Running
<1>5. CASE cols = 0
  <2>1. DOMAIN buffer = {} /\ DOMAIN buffer' = {}
    BY <1>3, <1>5, Dark, DarkNext
  <2> QED BY <2>1, StaysOff
<1>6. CASE cols > 0
  <2>1. CASE console_clear
    BY <1>1, <1>6, <2>1, ClearSim
  <2>2. CASE putchar_newline
    BY <1>1, <1>6, <2>2, NewlineSim
  <2>3. ASSUME NEW k \in Inks, console_set_color(k[1], k[2]) PROVE Contract!Next
    BY <1>1, <1>6, <2>3, SetColorSim
  <2>4. ASSUME NEW x \in {0, Left}, putchar_back(x) PROVE Contract!Next
    BY <1>1, <1>6, <2>4, BackSim
  <2>5. ASSUME NEW c \in Chars, putchar_other(c) PROVE Contract!Next
    BY <1>1, <1>6, <2>5, OtherSim
  <2> QED BY <2>1, <2>2, <2>3, <2>4, <2>5
<1> QED BY <1>4, <1>5, <1>6

LEMMA InitSim ==
  ASSUME Supported, IInv, IInv', NEW f \in Fonts, NEW fails \in {FALSE, BufferFails},
         console_init(f, fails)
  PROVE  [Contract!Next]_(Contract!tvars)
<1>1. fails = FALSE
  BY DEF Supported
<1>2. console_init(f, FALSE)
  BY <1>1
<1>3. /\ initialized' /\ fb' = fb /\ DOMAIN buffer = {}
  BY DEF console_init, IInv
<1>4. CASE cols' = 0
  <2>1. DOMAIN buffer' = {}
    BY <1>3, <1>4, DarkNext
  <2> QED BY <2>1, <1>3, StaysOff
<1>5. CASE cols' > 0
  BY <1>2, <1>5, StartSim
<1>6. cols' = 0 \/ cols' > 0
  <2>1. Fits(f, cols', rows')
    BY <1>2, ConsoleInitFacts
  <2>2. cols' \in Nat
    BY <2>1, GridSize
  <2> QED BY <2>2
<1> QED BY <1>4, <1>5, <1>6

LEMMA StepSim ==
  ASSUME Supported, IInv, IInv', [Next]_vars
  PROVE  [Contract!Next]_(Contract!tvars)
<1>1. ASSUME NEW s \in Screens, fb_init(s) PROVE UNCHANGED Contract!tvars
  <2>1. DOMAIN buffer = {} /\ DOMAIN buffer' = {}
    BY <1>1 DEF fb_init, IInv
  <2> QED BY <2>1, StaysOff
<1>2. ASSUME NEW f \in Fonts, NEW fails \in {FALSE, BufferFails}, console_init(f, fails)
      PROVE  [Contract!Next]_(Contract!tvars)
  BY <1>2, InitSim
<1>3. ASSUME NEW f \in Fonts, InvalidFont(f) PROVE UNCHANGED Contract!tvars
  <2>1. DOMAIN buffer = {} /\ DOMAIN buffer' = {}
    BY <1>3 DEF InvalidFont, IInv
  <2> QED BY <2>1, StaysOff
<1>4. ASSUME \/ console_clear \/ putchar_newline
             \/ \E k \in Inks : console_set_color(k[1], k[2])
             \/ \E x \in {0, Left} : putchar_back(x)
             \/ \E c \in Chars : putchar_other(c)
      PROVE  [Contract!Next]_(Contract!tvars)
  <2>1. initialized
    BY <1>4 DEF console_clear, putchar_newline, console_set_color, putchar_back, putchar_other, Ready
  <2> QED BY <1>4, <2>1, ReadySim
<1>5. CASE UNCHANGED vars
  BY <1>5 DEF vars, Contract!tvars, ShownPage, ShownSize, ShownLine, ShownCol, ShownInk, Shown,
              Nullptr, Page, Row
<1> QED BY <1>1, <1>2, <1>3, <1>4, <1>5 DEF Next

(* The console is a terminal: scroll loses, repeats and reorders no row,   *)
(* console_putchar changes only the cell at the cursor, and clearing and   *)
(* changing colours do what they promise, on screens of every size.        *)
THEOREM Refinement == ASSUME Supported PROVE Spec => ImplementsTerminal
<1>1. Init => Contract!Init
  <2> SUFFICES ASSUME Init PROVE Contract!Init
    OBVIOUS
  <2>1. DOMAIN buffer = {}
    BY DEF Init
  <2> QED BY <2>1 DEF Contract!Init, ShownPage, ShownSize, ShownLine, ShownCol, ShownInk, Shown, Nullptr
<1>2. IInv /\ IInv' /\ [Next]_vars => [Contract!Next]_(Contract!tvars)
  BY StepSim
<1> QED BY <1>1, <1>2, Invariance, PTL DEF Spec, ImplementsTerminal, Contract!Spec
=============================================================================
