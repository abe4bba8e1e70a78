SPECIFICATION ForwardFairSpec
CONSTANTS
  Request = {q1, q2}
  MaxInFlight = 1
  Flow = {f1, f2}
  Timeout = 2
  MaxPackets = 2
  Dst = {"ipv6", "own network", "not unicast", "outside"}
PROPERTIES
  ClosedWhenIdle
  FlowsEnd
  Answered
