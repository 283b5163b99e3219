SPECIFICATION Spec
CONSTANTS
  m1 = m1
  m2 = m2
  m3 = m3
  Meas <- ThreeMeas
  RecordLen = 3
  Capacity = 11
  MaxFaults = 3
SYMMETRY Symmetric
INVARIANTS
  TypeOK
  

  
