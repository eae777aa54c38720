CONSTANTS
  Attempts = 2
  NoopPeriod = 2
  MaxCommands = 3
  MaxWire = 2
  MaxInbox = 2
  LcddMayDie = TRUE
SPECIFICATION FairSpec
INVARIANTS
  LivingServerHarmless
PROPERTIES
  KeepsPromise
  StartEnds
  CatchesUp
  DeathIsNoticed
