CONSTANTS
  Requests = {"play", "stop"}
  Numbers = {"channel"}
  FailingSteps = {}
  MaxChildren = 2
SPECIFICATION Spec
PROPERTIES
  StopsCurrentStream
