SPECIFICATION Spec
CONSTANTS
  Messages <- ShortMessages
  RxMax = 2
  MaxWire = 3
  MaxFaults = 2
INVARIANTS
  TypeOK
  HandsOverInOrder
PROPERTIES
  HandsOverAgain
CHECK_DEADLOCK FALSE
