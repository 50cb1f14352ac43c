SPECIFICATION FairFeedSpec
CONSTANTS
  Buffer = 1
  MaxVersion = 2
  Shown = {2}
  MaxDrops = 1
  Outages = {"listener_down", "socket_lost", "unreachable", "fetch_error"}
INVARIANTS
  StopsForGood
PROPERTIES
  AnnouncedChangeShows
  ListCatchesUpWhileDown
  OverflowShowsOnList
CHECK_DEADLOCK FALSE
