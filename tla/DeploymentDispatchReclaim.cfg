CONSTANTS
  Orders = {o1}
  Mandatory = {o1}
  Dispatchers = {d1, d2}
  MaxFailures = 1
  Nobody = Nobody
SPECIFICATION DispatchSpec
PROPERTY CrashLeavesReclaimable
CHECK_DEADLOCK FALSE
