\* Two positions, three GDI handles; the host wants no windowless controls.
CONSTANTS
  Handles = {h1, h2, h3}
  Null = null
  Stock = stock
  Rects = {r1, r2}
  SupportWindowless = FALSE
SPECIFICATION InPlaceSpec
INVARIANTS
  OnlyBufferIsHeld
  ControlFollowed
PROPERTIES
  ShownWhereAsked
\* A detached site only passes on messages.
CHECK_DEADLOCK FALSE
