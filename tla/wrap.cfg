CONSTANTS
  Space = Space
  Hyphen = Hyphen
  Newline = Newline
  MaxText = 7
  Widths = {2, 3}
  Heights = {3, 4}
SPECIFICATION Spec
INVARIANTS
  PointersSafe
  LinesFit
  TextKept
PROPERTIES
  GetsDisplayed
\* the function returns
CHECK_DEADLOCK FALSE
