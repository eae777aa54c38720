CONSTANTS
  mail = mail
  mpd = mpd
  mplayer = mplayer
  None = None
  Clients = {mail, mpd, mplayer}
  Handles <- MCHandles
  Drawing = {mail}
  BadConfig = {mail}
  MayFailConnect = {mpd}
  Events = {"key", "listen", "menu"}
  ServerMayDie = TRUE
  MaxQueue = 2
SPECIFICATION Spec
INVARIANTS
  CountMatches
  DeadCookieCause
PROPERTIES
  UnregisterSparesCounted
