CONSTANTS
  Nodes = {"n1", "n2", "n3"}
  Data = {2, 3, 4}
SPECIFICATION Spec
INVARIANTS
  WellFormed
PROPERTIES
  ImplementsList
