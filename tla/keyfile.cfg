CONSTANTS
  Service = Service
  Threads = {mail, rss, mpd, mplayer}
  AbsentCounts = {rss, mpd, mplayer}
  Refusable = {mail, rss, mpd}
SPECIFICATION FairSpec
INVARIANTS
  NoReadAfterClose
  ClosedByLast
PROPERTIES
  GoodFileIsFreed
