SPECIFICATION PoolSpec
CONSTANTS
  Endpoints = {e1}
  Requests = {r1, r2}
  Checks = {1, 2}
  Latencies = {1, 3}
  MaxSelected = 2
  MaxOutages = 2
INVARIANTS
  CountersAgree
PROPERTIES
  HealthFollowsNode
CHECK_DEADLOCK FALSE
