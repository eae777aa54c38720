CONSTANTS
  Requests = {"menu", "Up", "Down"}
  Numbers = {"below", "channel", "beyond"}
  FailingSteps = {"spawn", "input", "output"}
  MaxChildren = 2
  Remotes = {r1, r2}
  NoSocket = NoSocket
  OptionSets = {{"streams", "stop"}, {"pauseplay"}, {"stop", "play"}, {"pause_play"}}
SPECIFICATION RemoteFairSpec
INVARIANTS
  RemoteTypeOK
  OneChild
  PlayerKnown
  FaultCauses
  StartsAfresh
  HeardInOrder
PROPERTIES
  StopStops
  ShutsDown
  RemotesServed
