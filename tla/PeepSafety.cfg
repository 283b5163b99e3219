SPECIFICATION Spec
CONSTANTS
  c1 = c1
  c2 = c2
  h1 = h1
  h2 = h2
  m1 = m1
  m2 = m2
  Creds <- TwoCreds
  Hatches <- OneHatch
  Meas <- TwoMeas
  IoFaults = TRUE
  DbCapacity = 2
  MaxFaults = 2
  MaxLosses = 1
SYMMETRY Symmetric
INVARIANTS
  TypeOK
  CredsBeforeState
  
  UploadedOnce
  
  
  InRangeOfAHatch
  

  
  
CHECK_DEADLOCK FALSE
