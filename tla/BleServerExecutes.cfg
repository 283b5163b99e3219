SPECIFICATION AttributesSpec
CONSTANTS
  short = short
  long = long
  Msgs <- ShortAndLong
  MsgLen <- Lengths
  MtuMax = 3
  BufMax = 5
  Values = {0, 1, 258}
  MaxFaults = 1
PROPERTIES
  ExecutesTheData
CHECK_DEADLOCK FALSE
