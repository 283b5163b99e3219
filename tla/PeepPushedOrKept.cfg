SPECIFICATION Spec
CONSTANTS
  c1 = c1
  c2 = c2
  h1 = h1
  h2 = h2
  m1 = m1
  m2 = m2
  Creds <- OneCreds
  Hatches <- OneHatch
  Meas <- TwoMeas
  IoFaults = FALSE
  DbCapacity = 1
  MaxFaults = 1
  MaxLosses = 0
PROPERTIES
  PushedOrKept
CHECK_DEADLOCK FALSE
