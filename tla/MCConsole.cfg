CONSTANTS
  Screens <- MCScreens
  Fonts <- MCFonts
  ByteBits = 2
  black = black
  white = white
  Space = 0
  White = white
  Black = black
  BufferFails = FALSE
  WordMod = 64
  MaxGone = 2
  Chars = {0, 1}
  Colors <- MCColors
  Inks <- MCInks
SPECIFICATION Spec
CHECK_DEADLOCK FALSE
INVARIANTS NoWildAccess ScreenShowsBuffer
PROPERTIES ImplementsTerminal
