CONSTANTS
  mail = mail
  mpd = mpd
  mplayer = mplayer
  None = None
  Clients = {mail}
  Handles <- MCHandles
  Drawing = {}
  BadConfig = {}
  MayFailConnect = {}
  Events = {"listen"}
  ServerMayDie = TRUE
  MaxQueue = 2
SPECIFICATION FairSpec
PROPERTIES
  JoinReturns
