CONSTANTS
  RETRY_INTERVAL = 2
  Songs = {s1, s2}
  Untitled = Untitled
  None = None
  MaxDrops = 2
  Names = {p1}
  MaxPlaylists = 1
SPECIFICATION Spec
INVARIANTS
  Safe
PROPERTIES
  Reconnects
  RetriesSpaced
  SongAppears
  MenuFollows
