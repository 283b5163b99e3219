SPECIFICATION HelpedSpec
CONSTANTS
  c1 = c1
  c2 = c2
  h1 = h1
  h2 = h2
  m1 = m1
  m2 = m2
  Creds <- OneCreds
  Hatches <- TwoHatches
  Meas <- TwoMeas
  IoFaults = FALSE
  DbCapacity = 1
  MaxFaults = 1
  MaxLosses = 1
PROPERTIES
  BacklogDrains
  PairedMeasures
CHECK_DEADLOCK FALSE
