SPECIFICATION DispatchSpec
CONSTANTS
  Driver = {d1, d2}
  DeliveryOrder = {o1}
  Request = {r1, r2}
  NoDriver = NoDriver
  MaxConcurrent = 1
  MaxReleases = 2
  QueueMayFail = TRUE
INVARIANTS DispatchTypeOK
PROPERTIES CollectedStaysWithDriver TimeoutSparesNextDriver FirstDriverIsRelieved
