CONSTANTS
  Sources = 2
  Blank = Blank
  Receiving = Receiving
  MaxItems = 3
  Tall = {2}
  MaxChecks = 2
SPECIFICATION Spec
INVARIANTS
  Safe
  ShowsCurrent
  TurnsPage
PROPERTIES
  ReceivingEnds
\* use of freed memory ends the program
CHECK_DEADLOCK FALSE
