SPECIFICATION MessagesSpec
CONSTANTS
  MaxMinutes = 1440
  Documents <- AllDocuments
  Messages <- ShortMessages
  MaxTokens <- ShortTokens
  Number <- Numbers
  Length <- Lengths
INVARIANTS
  JsonTypeOK
  
  OthersAreRefused
  ConnectsAsSent
  SleepsTheInterval
  
PROPERTIES
  TextIsDealtWith
