CONSTANTS
  mail = mail
  mpd = mpd
  mplayer = mplayer
  None = None
  Clients = {mail, mplayer}
  Handles <- MCHandles
  Drawing = {mail, mplayer}
  BadConfig = {}
  MayFailConnect = {}
  Events = {"key", "listen", "ignore", "net"}
  ServerMayDie = FALSE
  MaxQueue = 3
SPECIFICATION FairSpec
INVARIANTS
  NoFaultBeforeExit
  NoOrphanCommand
PROPERTIES
  ExitStopsProducers
  ShutdownCompletes
  ScreenAppears
