CONSTANTS
  mail = mail
  mpd = mpd
  mplayer = mplayer
  None = None
  Clients = {mplayer}
  Handles <- MCHandles
  Drawing = {mplayer}
  BadConfig = {}
  MayFailConnect = {}
  Events = {"menu"}
  ServerMayDie = FALSE
  MaxQueue = 2
SPECIFICATION Spec
INVARIANTS
  MenuGetsCookie
