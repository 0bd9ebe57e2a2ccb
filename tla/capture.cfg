SPECIFICATION FairSpec
CONSTANTS
  c1 = c1
  k1 = k1
  k2 = k2
  Sessions = {c1, k1, k2}
  Host <- HostOf
  Together <- TogetherBound
  Interval = 2
  FirstRunMax = 1
  Batch = 1
  Faults = {"lost", "restart", "backend", "watermark", "slice", "hang"}
  MaxMessages = 3
  MaxFaults <- FaultBound
  MaxRequests <- RequestBound
INVARIANTS CapturedOnce OneAtATime
PROPERTIES MessagesCaptured
CHECK_DEADLOCK FALSE
