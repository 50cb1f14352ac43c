SPECIFICATION FairSpec
CONSTANTS
  Clients = {c1, c2}
  Keys = {k1}
  NoKey = NoKey
  None = None
  MaxPosts = 2
  Deletes = TRUE
  Faults = {"request_error", "lost_reply", "put_error"}
  MaxFaults = 1
INVARIANTS
  OneJobPerKey
  CountedOncePerKey
  LiveJobHasAudio
  AnsweredJobIsEnqueued
PROPERTIES
  EveryClientServed
CHECK_DEADLOCK FALSE
