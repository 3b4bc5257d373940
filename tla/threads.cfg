SPECIFICATION Spec
CHECK_DEADLOCK FALSE
CONSTANTS
  p1 = p1
  p2 = p2
  reader = reader
  none = none
PROPERTIES
  QueuesDeliver PoolsSound LogSound MembershipSettles
